CONSTANTS
    w1 = w1
    w2 = w2
    Workers = {w1, w2}
    KeepRollbacks = 2
    Perils = {"cut", "failure", "rerender", "edit"}
    MaxClock = 5
    MaxRender = 3
    MaxUpsets = 1
SPECIFICATION ViewerSpec
INVARIANT TypeOK
PROPERTY SwapsWhole
PROPERTY AtRestNeverStale
CHECK_DEADLOCK FALSE
