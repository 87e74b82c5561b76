---------------------------- MODULE MCClientIds -----------------------------
(* ClientIds, and ClientLimit in it, for TLC. *)
EXTENDS ClientIds, TLC

CONSTANTS c1, c2

(* Two users share an address and port, and the address reads like the     *)
(* first low id.  The third has no open port.                              *)
MCAddr == c1 :> <<1, 1>> @@ c2 :> <<1, 1>>

(* Users and anonymous clients do not meet: the count does not tell them   *)
(* apart, and rows and ids are no matter of the anonymous ones.            *)
Came == {c \in Clients : conn[c] # "none"}

Alike == Came \subseteq Users \/ Came \cap Users = {}

MCSpec == IdInit /\ [][IdNext /\ Alike']_allVars /\ GoesOn
=============================================================================
