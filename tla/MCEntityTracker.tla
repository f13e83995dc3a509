-------------------------- MODULE MCEntityTracker --------------------------
(* Small instance of module EntityTracker for TLC: a player with two        *)
(* connections (one after the other), a second player, and a mob.          *)
EXTENDS EntityTracker

CONSTANTS s1, s2, t, m

MCUuidOf == [e \in {s1, s2, t, m} |->
    CASE e \in {s1, s2} -> "A" [] e = t -> "B" [] e = m -> "M"]
=============================================================================
