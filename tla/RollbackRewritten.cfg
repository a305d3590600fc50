CONSTANTS
    w1 = w1
    w2 = w2
    Workers = {w1, w2}
    KeepRollbacks = 2
    Perils = {}
    MaxClock = 4
    MaxRender = 2
    MaxUpsets = 0
SPECIFICATION ViewerSpec
SYMMETRY Alike
INVARIANT RollbackFaithful
CHECK_DEADLOCK FALSE
