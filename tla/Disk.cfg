CONSTANTS
    w1 = w1
    w2 = w2
    r1 = r1
    i1 = i1
    i2 = i2
    i3 = i3
    i4 = i4
    p1 = p1
    p2 = p2
    moon = moon
    typed = typed
    a = a
    b = b
    Absent = Absent
    NoTile = NoTile
    None = None
    NoFile = NoFile
    NoComment = NoComment
    Nowhere = Nowhere
    Draft = Draft
    Export = Export
    Blank = Blank
    Message = Message
    Unsaid = Unsaid
    NoAnswer = NoAnswer
    Writers = {w1, w2}
    Readers = {r1}
    Inodes = {i1, i2, i3, i4}
    Pieces = 2
    MayOverlap = FALSE
    MaxChanges = 3
    TileSide = 3
    Buffer = 1
    Boxes <- TwoBoxes
    Shelf <- FourTiles
    Catalogues <- TwoCatalogues
    PageSize = 2
    SessionLimit = 2
    Hiccups = 2
    Rows = 5
    Cols = 6
    Surveys <- ManySurveys
    Margin = 1
    FillReach = 1
    RoofTolerance = 2
    OpeningHalf = 1
    Protrusion = 3
    MaxBase = 2
    LineLength = 3
    LineWidth = 1
    SlabBand <- OneToThree
    Roughness = 1
    OpenShare <- ThreeQuarters
    CrownHeight = 3
    SievePx = 2
    NearRadius = 1
    DenseRadius = 3
    BandRows = 1
    Plans <- FewPlans
    Builds = 2
    Crown = 3
    Quantum = 1
    MostZero <- OneToThree
    LeastReached <- Half
    Commands = {p1, p2}
    HandFiles <- ThreeFiles
    Outlines <- TwoOutlines
    Settings <- Typing
    Unfit = {moon}
    Sides = {4, 8}
    Metre = 8
    HalfEast = 4
    HalfNorth = 8
    Grain = 2
    Drawings <- FewDrawings
    TypedPaths = {typed}
    Points = {8}
    ZoneWidth = 6
    Exports = 2
    Configs = {a, b}
    MaxAsked = 4
    Jobs = {"build"}
    MaxNews = 2
    MaxPieces = 2
    Served = {1, 2}
SPECIFICATION MCSpec
INVARIANTS
    CacheIsSound
    NothingRealIsCut
    CanopyIsSound
    FolderIsTrue
    FileStaysTrue
    FormIsBelieved
    SaysWhatHappened
PROPERTIES
    SavesAtomically
    ValidatedSurvives
    RerunsGetThere
    LastPriceArrives
CHECK_DEADLOCK FALSE
