CONSTANTS
    a = a
    f = f
    None = None
    Guess = Guess
    Size = 2
    Own = 2
    Items = {a}
    Actions = {f}
    MaxLock = 2
    MaxDown = 3
    MaxUp = 2
SPECIFICATION Spec
INVARIANTS
    ClicksWhatIsSeen
CHECK_DEADLOCK FALSE
