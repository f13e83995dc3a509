CONSTANTS
    n1 = n1
    n2 = n2
    i1 = i1
    i2 = i2
    c1 = c1
    c2 = c2
    s1 = s1
    s2 = s2
    None = None
    Garbled = Garbled
    Refused = Refused
    Profiles <- MCProfiles
    Challenges = {c1, c2}
    Secrets = {s1, s2}
    GoodSecrets = {s1}
    MaxUp = 2
    MaxJoined = 1
    MaxPlay = 1
SPECIFICATION Spec
INVARIANTS
    Authenticated
    Readable
    Protocol
    NeverTurnedAway
PROPERTIES
    LogsIn
CHECK_DEADLOCK FALSE
