------------------------------ MODULE MCServer ------------------------------
(* Small instance of module Server for TLC.  Connections differ in nothing  *)
(* but their names, and only invariants are checked.                       *)
EXTENDS Server, TLC

CONSTANTS c1, c2, c3

Interchangeable == Permutations({c1, c2, c3})
=============================================================================
