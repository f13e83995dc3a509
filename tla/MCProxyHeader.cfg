CONSTANTS
    Socket <- MCSocket
    V4 = {"10.0.0.255", "10.0.1.255"}
    V6 = {"2001:db8::ffff"}
    Ports = {"80", "0"}
    Numbers = {"80", "0", "+80", "080"}
    ZeroFirst = {"0", "080"}
    UnknownWords <- MCUnknownWords
    Others <- MCOthers
    Endings <- MCEndings
SPECIFICATION HeaderSpec
INVARIANTS
    OnlyTheHeader
    NoneRefused
PROPERTIES
    EveryHeader
CHECK_DEADLOCK FALSE
