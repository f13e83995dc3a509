CONSTANTS
    a = a
    OwnNone = None
    OwnItems = {a}
    SetAllLengths = {0, 9, 10, 36}
    Selectable = {0, 8}
    MaxItems = 1
    MaxTouched = 1
    MaxStates = 2
SPECIFICATION OwnSpec
INVARIANTS
    InStep
