SPECIFICATION FairSpec
CONSTANTS
    Pids = {p1, p2}
    Digests = {d1, d2}
    Engines = {e1, e2}
    Nobody = Nobody
    NoDigest = NoDigest
    NoEngine = NoEngine
    Requests <- OverlapRequests
    MayOverlap = TRUE
    EditsMidRun = TRUE
    PurgeMayDie = TRUE
    MaxClock = 3
    MaxUpsets = 1
PROPERTY NeverStuckRunning
CHECK_DEADLOCK FALSE
