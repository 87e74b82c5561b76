----------------------------- MODULE MCSourceDb -----------------------------
(* SourceDb for TLC: clients, files and threads are interchangeable.       *)
EXTENDS SourceDb, TLC

Symmetry ==
  Permutations(Clients) \cup Permutations(Files) \cup Permutations(Threads)

(* One worker: two clients that send up to two packets each. *)
Serial ==
  [threads : kSubset(1, Threads), max_files : {2},
   clients : kSubset(2, Clients), packets : {Offers}, offers : {2}]

(* Different rated files; one that comes alone may have no name. *)
Plain ==
  {o \in Offers :
     /\ \A i, j \in DOMAIN o : o[i].fid = o[j].fid => i = j
     /\ \A i \in DOMAIN o : o[i].rating = 1 /\ (Len(o) > 1 => o[i].named)}

(* All workers: a limit that is reached while offers are under way. *)
Overlapping ==
  [threads : {Threads}, max_files : {0},
   clients : {Clients}, packets : {Plain}, offers : {1}]

MCSetups == Serial \cup Overlapping

(* Two clients with one packet each. *)
MCTwoOffers ==
  [threads : {Threads}, max_files : {2},
   clients : {Clients}, packets : {Offers}, offers : {1}]
=============================================================================
