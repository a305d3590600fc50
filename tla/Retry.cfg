CONSTANTS
    w1 = w1
    w2 = w2
    Workers = {w1, w2}
    KeepRollbacks = 2
    Perils = {"cut", "failure", "death", "rerender", "edit"}
    MaxClock = 8
    MaxWish = 3
    MaxRender = 3
    MaxUpsets = 2
    MaxPreviews = 2
    MaxMishaps = 1
    NoPreview = NoPreview
SPECIFICATION MCSpec
INVARIANTS
    SuccessIsTrue
    PreviewIsOwn
PROPERTIES
    Converges
    StopFreesThePorts
CHECK_DEADLOCK FALSE
