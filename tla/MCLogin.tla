------------------------------ MODULE MCLogin ------------------------------
(* Small instance of module Login for TLC: two accounts share a name and    *)
(* two an id, so that each comparison alone tells some apart.               *)
EXTENDS Login

CONSTANTS n1, n2, i1, i2, c1, c2, s1, s2

MCProfiles == {[name |-> n1, id |-> i1], [name |-> n1, id |-> i2], [name |-> n2, id |-> i2]}
=============================================================================
