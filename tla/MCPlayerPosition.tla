------------------------- MODULE MCPlayerPosition -------------------------
(* Small instance of module PlayerPosition for TLC.                        *)
EXTENDS PlayerPosition

MCPlaces == {0, 2}                     \* a place in each of two chunks
MCSpawn == [place |-> 0, turn |-> "n", era |-> 0]
=============================================================================
