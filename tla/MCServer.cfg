CONSTANTS
    c1 = c1
    c2 = c2
    c3 = c3
    Conns = {c1, c2, c3}
    proxy_protocol = TRUE
SPECIFICATION Spec
SYMMETRY Interchangeable
INVARIANTS
    
    DistinctIds
CHECK_DEADLOCK FALSE
