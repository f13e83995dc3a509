-------------------------- MODULE MCPositionTracker --------------------------
(* Small instance of module PositionTracker for TLC: two coordinates, one   *)
(* of them long enough for rounding on both sides of zero and for a         *)
(* movement that an i16 of this instance does not hold.  The yaws differ by *)
(* less than a bit, by one bit, below zero, and by a whole turn.            *)
EXTENDS PositionTracker

CONSTANTS x, z, v1

MCLocations ==
    [pos : {p \in [Axes -> -3 .. 3] : p[z] \in {0, 1}}, yaw : {-1, 0, 1, 8}, pitch : {0, 2}]
=============================================================================
