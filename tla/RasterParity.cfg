CONSTANTS
    u1 = u1
    u2 = u2
    u3 = u3
    z1 = z1
    Units = {u1, u2, u3}
    Pool = 2
    Zooms = {z1}
    NoZoom = NoZoom
    MaxBuild = 0
    MaxUpsets = 0
    NoFile = NoFile
    NoLimit = NoLimit
    Unreadable = Unreadable
    Everything = Everything
    Blank = Blank
    Nothing = Nothing
    Nowhere = Nowhere
    Nobody = Nobody
    Outside = Outside
    Unanswered = Unanswered
    NoCube = NoCube
    Undrawn = Undrawn
    Dark = Dark
    None = None
    NoHop = NoHop
    NoLeg = NoLeg
    LeapDay = LeapDay
    Unasked = Unasked
    AllData = AllData
    Missing = Missing
    Torn = Torn
    NoGraph = NoGraph
    Refused = Refused
    Current = Current
    Unheard = Unheard
    w1 = w1
    w2 = w2
    t1 = t1
    t2 = t2
    c1 = c1
    s1 = s1
    s2 = s2
    s3 = s3
    tiny = tiny
    Rows = 3
    Cols = 7
    MaxDistance = 4
    Eye = 1
    Between = 2
    Margin = 1
    TileSize = 2
    TileBytes = 3
    BlockSize = 2
    MaxBlocks = 2
    Builds = {TRUE}
    Instants <- AllRound
    Workers <- TwoWorkers
    Threads <- TwoThreads
    Scenes <- FourScenes
    Areas <- ThreeAreas
    Machinery <- FewMachines
    Points <- FewPoints
    Days <- FewDays
    Corner = 1
    Spots = {1, 2}
    Streets <- TwoStreets
    Target <- MinusOne
    Infinity = 9999
    Requests <- Asks
    SweptAlphas <- Alphas
    YearDays = 12
    Curves <- TwoCurves
    Rungs <- ThreeRungs
    Ticks = 2
    Fractions <- SomeFractions
    Networks <- ThreeNetworks
    Sampled <- CellsOf
    Walkable <- LongEnough
    Coverages <- FewCoverages
    Columns = {1, 2}
    Shades <- TwoShades
    Clients = {c1}
    Sessions <- FewSessions
    Limit = 2
    Window = 1
    Minute = 1
    Hour = 2
    Day = 3
    LastTick = 4
    AskedMost = 3
SPECIFICATION MCSpec
INVARIANT MapMatchesPoint
CHECK_DEADLOCK FALSE
