CONSTANTS
    SeqMod = 3
    Window = 2
    MaxQueue = 2
    MaxClones = 1
SPECIFICATION Spec
INVARIANTS
    OneKeepAlive
    InStep
    NoFalseKick
    ChainUnbroken
PROPERTIES
    NothingStranded
    HangupCloses
    KickEnds
    DroppedEnds
    ImplementsLoop
CHECK_DEADLOCK FALSE
