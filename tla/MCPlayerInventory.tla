-------------------------- MODULE MCPlayerInventory --------------------------
(* Small instance of module PlayerInventory for TLC: the whole inventory,   *)
(* with few items in it at a time.                                          *)
EXTENDS PlayerInventory

CONSTANT a
=============================================================================
