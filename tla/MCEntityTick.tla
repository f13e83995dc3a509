---------------------------- MODULE MCEntityTick ----------------------------
(* Small instance of module EntityTick for TLC.                             *)
EXTENDS EntityTick

CONSTANTS b, e1, e2, e3

MCAwaited == <<e1, e2, e3>>
=============================================================================
