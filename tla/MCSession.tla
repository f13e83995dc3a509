------------------------------ MODULE MCSession ------------------------------
(* Small instance of module Session for TLC; the values are in the cfg.    *)
EXTENDS Session
=============================================================================
