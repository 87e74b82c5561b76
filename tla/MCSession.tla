----------------------------- MODULE MCSession ------------------------------
(* Session for TLC; the constants are numbers and come from the cfg files. *)
EXTENDS Session, TLC
=============================================================================
