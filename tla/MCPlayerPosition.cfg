CONSTANTS
    Places <- MCPlaces
    Turns = {"n", "s"}
    Spawn <- MCSpawn
    MaxTeleports = 2
    MaxMoves = 2
    Window = 3
SPECIFICATION Spec
INVARIANTS
    Confirmed
    LoadedIsConfirmed
    ViewFollows
PROPERTIES
    NoRollback
    ImplementsAuthority
    Converges
