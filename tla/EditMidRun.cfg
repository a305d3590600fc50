SPECIFICATION Spec
CONSTANTS
    Pids = {p1}
    Digests = {d1, d2}
    Engines = {e1, e2}
    Nobody = Nobody
    NoDigest = NoDigest
    NoEngine = NoEngine
    Requests <- CityRequests
    MayOverlap = FALSE
    EditsMidRun = TRUE
    PurgeMayDie = FALSE
    MaxClock = 12
    MaxUpsets = 1
SYMMETRY Interchangeable
INVARIANT DoneIsTrue
CHECK_DEADLOCK FALSE
