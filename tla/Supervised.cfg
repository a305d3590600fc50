SPECIFICATION SupervisedSpec
CONSTANTS
    Pids = {p1}
    Digests = {d1, d2}
    Engines = {e1, e2}
    Nobody = Nobody
    NoDigest = NoDigest
    NoEngine = NoEngine
    Requests <- WholeChain
    MayOverlap = FALSE
    EditsMidRun = TRUE
    PurgeMayDie = FALSE
    MaxClock = 60
    MaxUpsets = 2
PROPERTY RerunConverges
CHECK_DEADLOCK FALSE
