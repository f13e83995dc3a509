CONSTANTS
    x = x
    z = z
    v1 = v1
    None = None
    Untold = Untold
    Axes = {x, z}
    Viewers = {v1}
    Locations <- MCLocations
    Sub = 2
    AngleUnit = 2
    Turn = 4
    MaxDelta = 2
    Threshold = 2
    SyncPeriod = 3
    MaxUnsent = 2
SPECIFICATION Spec
INVARIANTS
    Tracked
    LooksRight
    GroundTold
