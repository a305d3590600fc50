SPECIFICATION Spec
CONSTANTS
    Pids = {p1, p2}
    Digests = {d1, d2}
    Engines = {e1, e2}
    Nobody = Nobody
    NoDigest = NoDigest
    NoEngine = NoEngine
    Requests <- PreviewRequests
    MayOverlap = TRUE
    EditsMidRun = FALSE
    PurgeMayDie = FALSE
    MaxClock = 12
    MaxUpsets = 0
SYMMETRY Interchangeable
INVARIANT ServingIsFound
CHECK_DEADLOCK FALSE
