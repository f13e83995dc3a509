CONSTANTS
    s1 = s1
    s2 = s2
    t = t
    m = m
    Sessions = {s1, s2, t}
    Mobs = {m}
    UuidOf <- MCUuidOf
SPECIFICATION Spec
INVARIANTS
    LeavesNothing
