CONSTANTS
    u1 = u1
    u2 = u2
    u3 = u3
    z1 = z1
    Units = {u1, u2, u3}
    Pool = 2
    Zooms = {z1}
    NoZoom = NoZoom
    MaxBuild = 2
    MaxUpsets = 1
SPECIFICATION Spec
PROPERTY FinishedIsTrue
CHECK_DEADLOCK FALSE
