SPECIFICATION MCSpec
CONSTANTS
    Pids = {p1}
    Digests = {d1, d2}
    Engines = {e1, e2}
    Nobody = Nobody
    NoDigest = NoDigest
    NoEngine = NoEngine
    Requests <- CityRequests
    MayOverlap = FALSE
    EditsMidRun = FALSE
    PurgeMayDie = FALSE
    MaxClock = 13
    MaxUpsets = 1
    Logged = {"build", "publish"}
    Undoable = {"build"}
    KeepRuns = 1
    MaxRuns = 4
    OldRuns <- FlatLogs
    Clerks = {c1, c2}
    MaxCommands = 2
SYMMETRY Interchangeable
INVARIANTS TypeOK DoneIsTrue RunningIsOwned NamedLogIsThere
PROPERTIES NeverRefused KeepsLedger HistoryGrows
CHECK_DEADLOCK FALSE
