------------------------------- MODULE MCMenu -------------------------------
(* Small instance of module Menu for TLC.                                   *)
EXTENDS Menu

CONSTANTS a, f
=============================================================================
