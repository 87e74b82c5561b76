----------------------------- MODULE MCJobQueue -----------------------------
(* Small instances of JobQueue. *)
EXTENDS JobQueue, TLC

Symmetry == Permutations(Clients) \cup Permutations(Workers)

=============================================================================
