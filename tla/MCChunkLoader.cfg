CONSTANTS
    overworld = overworld
    arena = arena
    Levels = {overworld, arena}
    Chunks <- MCChunks
    Centres <- MCCentres
    FirstStock <- MCFirstStock
    Radial <- MCRadial
    Batch = 2
    MaxClears = 3
SPECIFICATION Spec
INVARIANTS
    UpdatesLand
    NoOldLevel
    SentAll
PROPERTIES
    Completes
