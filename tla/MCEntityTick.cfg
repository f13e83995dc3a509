CONSTANTS
    b = b
    e1 = e1
    e2 = e2
    e3 = e3
    base = b
    awaited <- MCAwaited
    MaxPackets = 2
SPECIFICATION TickSpec
INVARIANTS
    NoWakeUpLost
PROPERTIES
    Served
CHECK_DEADLOCK FALSE
