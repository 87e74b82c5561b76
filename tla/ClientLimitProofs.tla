------------------------- MODULE ClientLimitProofs --------------------------
(***************************************************************************)
(* Proofs about ClientLimit for any number of connections and workers and  *)
(* any positive limit.                                                     *)
(***************************************************************************)
EXTENDS ClientLimit, FiniteSetTheorems, TLAPS

(* 1 while the listener may hand over one more connection. *)
Open == IF enabled /\ acceptor # "disable" THEN 1 ELSE 0

(* A worker that is about to count out holds a client of its own. *)
VictimsOwned ==
  /\ \A w \in Workers :
       deleting[w] = "count" =>
         victim[w] \in Clients /\ conn[victim[w]] = "dying"
  /\ \A v, w \in Workers :
       (deleting[v] = "count" /\ deleting[w] = "count"
          /\ victim[v] = victim[w]) => v = w

(* The client on whose behalf the listener is switched off is counted. *)
DisableHasCause == acceptor = "disable" => \E c \in Clients : conn[c] = "new"

(* At or above the limit, every connection that is still to come in is     *)
(* paid for by a worker that was about to enable at some earlier time.     *)
SlackBudget ==
  user_count >= max_clients =>
    user_count + Cardinality(Enabling) + Open
      <= max_clients + Cardinality(Workers)

Inv ==
  /\ TypeOK
  /\ CountExact
  /\ VictimsOwned
  /\ DisableHasCause
  /\ SlackBudget
  /\ OffIsTemporary

-----------------------------------------------------------------------------
(* Cardinalities of the sets of clients and workers are natural numbers. *)
LEMMA FiniteParts ==
  /\ IsFiniteSet(Counted) /\ Cardinality(Counted) \in Nat
  /\ IsFiniteSet(Enabling) /\ Cardinality(Enabling) \in Nat
  /\ Cardinality(Workers) \in Nat
  /\ Cardinality(Enabling) <= Cardinality(Workers)
<1>1. Counted \in SUBSET Clients /\ Enabling \in SUBSET Workers
  BY DEF Counted, Enabling
<1>2. IsFiniteSet(Counted) /\ IsFiniteSet(Enabling)
  BY <1>1, FS_Subset, ClientsFinite, WorkersFinite
<1>3. Cardinality(Enabling) <= Cardinality(Workers)
  BY <1>1, FS_Subset, WorkersFinite
<1> QED BY <1>2, <1>3, FS_CardinalityType, WorkersFinite

(* The initial state satisfies the inductive invariant. *)
LEMMA InitInv == Init => Inv
<1> SUFFICES ASSUME Init PROVE Inv OBVIOUS
<1> USE DEF Init
<1>1. TypeOK BY DEF TypeOK, Stages
<1>2. Counted = {} BY DEF Counted
<1>3. CountExact BY <1>2, FS_EmptySet DEF CountExact
<1>4. VictimsOwned /\ DisableHasCause BY DEF VictimsOwned, DisableHasCause
<1>5. SlackBudget BY LimitPositive DEF SlackBudget
<1>6. OffIsTemporary BY DEF OffIsTemporary
<1> QED BY <1>1, <1>3, <1>4, <1>5, <1>6 DEF Inv

(* Counting in: client_new in the accepting thread. *)
LEMMA AcceptCountsInv ==
  ASSUME Inv, NEW c \in Clients, AcceptCounts(c)
  PROVE  Inv'
<1> USE DEF Inv
<1>1. TypeOK' BY DEF TypeOK, Stages, AcceptCounts
<1>2. Counted' = Counted \cup {c} /\ c \notin Counted
  BY DEF Counted, AcceptCounts, TypeOK
<1>3. CountExact'
  BY <1>2, FiniteParts, FS_AddElement DEF CountExact, AcceptCounts
<1>4. VictimsOwned' BY DEF VictimsOwned, AcceptCounts, TypeOK
<1>5. DisableHasCause' BY DEF DisableHasCause, AcceptCounts, TypeOK
<1>6. Enabling' = Enabling BY DEF Enabling, AcceptCounts
<1>7. SlackBudget'
  BY <1>6, FiniteParts, LimitPositive
  DEF SlackBudget, Open, AcceptCounts, TypeOK
<1>8. OffIsTemporary' BY <1>2 DEF OffIsTemporary
<1> QED BY <1>1, <1>3, <1>4, <1>5, <1>7, <1>8

(* Switching off, and arming the new client. *)
LEMMA AcceptProceedsInv ==
  ASSUME Inv, AcceptProceeds
  PROVE  Inv'
<1> USE DEF Inv
<1>1. CASE AcceptDisables
  <2> USE <1>1 DEF AcceptDisables
  <2>1. TypeOK' BY DEF TypeOK
  <2>2. Counted' = Counted /\ Enabling' = Enabling BY DEF Counted, Enabling
  <2>3. CountExact' BY <2>2 DEF CountExact
  <2>4. VictimsOwned' BY DEF VictimsOwned
  <2>5. DisableHasCause' BY DEF DisableHasCause
  <2>6. SlackBudget' BY <2>2 DEF SlackBudget, Open
  <2>7. OffIsTemporary'
    BY <2>2 DEF OffIsTemporary, DisableHasCause, Counted
  <2> QED BY <2>1, <2>3, <2>4, <2>5, <2>6, <2>7
<1>2. ASSUME NEW c \in Clients, AcceptArms(c) PROVE Inv'
  <2> USE <1>2 DEF AcceptArms
  <2>1. TypeOK' BY DEF TypeOK, Stages
  <2>2. Counted' = Counted /\ Enabling' = Enabling
    BY DEF Counted, Enabling, TypeOK
  <2>3. CountExact' BY <2>2 DEF CountExact
  <2>4. VictimsOwned' BY DEF VictimsOwned, TypeOK
  <2>5. DisableHasCause' BY DEF DisableHasCause
  <2>6. SlackBudget' BY <2>2 DEF SlackBudget, Open
  <2>7. OffIsTemporary' BY <2>2 DEF OffIsTemporary
  <2> QED BY <2>1, <2>3, <2>4, <2>5, <2>6, <2>7
<1> QED BY <1>1, <1>2 DEF AcceptProceeds

(* A client is marked deleted: it stays counted. *)
LEMMA DeleteStartsInv ==
  ASSUME Inv, NEW w \in Workers, NEW c \in Clients, DeleteStarts(w, c)
  PROVE  Inv'
<1> USE DEF Inv, DeleteStarts
<1>1. TypeOK' BY DEF TypeOK, Stages
<1>2. Counted' = Counted /\ Enabling' = Enabling
  BY DEF Counted, Enabling, TypeOK
<1>3. CountExact' BY <1>2 DEF CountExact
<1>4. VictimsOwned' BY DEF VictimsOwned, TypeOK
<1>5. DisableHasCause' BY DEF DisableHasCause, TypeOK
<1>6. SlackBudget' BY <1>2 DEF SlackBudget, Open
<1>7. OffIsTemporary' BY <1>2 DEF OffIsTemporary
<1> QED BY <1>1, <1>3, <1>4, <1>5, <1>6, <1>7

(* Counting out, the step that may leave the listener off. *)
LEMMA DeleteCountsInv ==
  ASSUME Inv, NEW w \in Workers, DeleteCounts(w)
  PROVE  Inv'
<1> USE DEF Inv
<1> DEFINE c == victim[w]
<1>1. c \in Clients /\ conn[c] = "dying" BY DEF VictimsOwned, DeleteCounts
<1>2. Counted' = Counted \ {c} /\ c \in Counted
  BY <1>1 DEF Counted, DeleteCounts, TypeOK
<1>3. /\ Cardinality(Counted') = Cardinality(Counted) - 1
      /\ IsFiniteSet(Counted')
  BY <1>2, FiniteParts, FS_RemoveElement
<1>4. Cardinality(Counted') \in Nat BY <1>3, FS_CardinalityType
<1>5. TypeOK'
  BY <1>1, <1>3, <1>4 DEF TypeOK, Stages, DeleteCounts, CountExact
<1>6. CountExact' BY <1>3 DEF CountExact, DeleteCounts
<1>7. VictimsOwned' BY <1>1 DEF VictimsOwned, DeleteCounts, TypeOK
<1>8. DisableHasCause'
  BY <1>1 DEF DisableHasCause, DeleteCounts, TypeOK
<1>9. CASE user_count - 1 < max_clients
  <2>1. SlackBudget'
    BY <1>9, LimitPositive DEF SlackBudget, DeleteCounts, TypeOK
  <2>2. w \in Enabling' BY <1>9 DEF Enabling, DeleteCounts, TypeOK
  <2>3. OffIsTemporary' BY <2>2 DEF OffIsTemporary
  <2> QED BY <1>5, <1>6, <1>7, <1>8, <2>1, <2>3
<1>10. CASE ~(user_count - 1 < max_clients)
  <2>1. Enabling' = Enabling
    BY <1>10 DEF Enabling, DeleteCounts, TypeOK
  <2>2. SlackBudget'
    BY <1>10, <2>1, LimitPositive, FiniteParts
    DEF SlackBudget, Open, DeleteCounts, TypeOK
  <2>3. Cardinality(Counted') # 0
    BY <1>10, <1>6, LimitPositive DEF CountExact, DeleteCounts, TypeOK
  <2>4. Counted' # {} BY <2>3, FS_EmptySet
  <2>5. OffIsTemporary' BY <2>4 DEF OffIsTemporary
  <2> QED BY <1>5, <1>6, <1>7, <1>8, <2>2, <2>5
<1> QED BY <1>9, <1>10

(* Switching on. *)
LEMMA DeleteEnablesInv ==
  ASSUME Inv, NEW w \in Workers, DeleteEnables(w)
  PROVE  Inv'
<1> USE DEF Inv
<1>1. TypeOK' BY DEF TypeOK, DeleteEnables
<1>2. Counted' = Counted BY DEF Counted, DeleteEnables
<1>3. CountExact' BY <1>2 DEF CountExact, DeleteEnables
<1>4. VictimsOwned' BY DEF VictimsOwned, DeleteEnables, TypeOK
<1>5. DisableHasCause' BY DEF DisableHasCause, DeleteEnables
<1>6. Enabling' = Enabling \ {w} /\ w \in Enabling
  BY DEF Enabling, DeleteEnables, TypeOK
<1>7. Cardinality(Enabling') = Cardinality(Enabling) - 1
  BY <1>6, FiniteParts, FS_RemoveElement
<1>8. SlackBudget'
  BY <1>7, FiniteParts, LimitPositive
  DEF SlackBudget, Open, DeleteEnables, TypeOK
<1>9. OffIsTemporary' BY DEF OffIsTemporary, DeleteEnables
<1> QED BY <1>1, <1>3, <1>4, <1>5, <1>8, <1>9

(* The invariant is inductive. *)
LEMMA NextInv == Inv /\ [Next]_vars => Inv'
<1> SUFFICES ASSUME Inv, [Next]_vars PROVE Inv' OBVIOUS
<1>1. CASE UNCHANGED vars
  BY <1>1 DEF vars, Inv, TypeOK, CountExact, VictimsOwned, DisableHasCause,
     SlackBudget, OffIsTemporary, Counted, Enabling, Open
<1> QED
  BY <1>1, AcceptCountsInv, AcceptProceedsInv, DeleteStartsInv,
     DeleteCountsInv, DeleteEnablesInv
  DEF Next, Delete

(* At every reachable state the inductive invariant holds. *)
LEMMA InvHolds == Spec => []Inv
BY InitInv, NextInv, PTL DEF Spec

(* However many workers delete clients while the main thread accepts, the  *)
(* number of connected clients stays within max_clients plus the number of *)
(* job threads.                                                            *)
THEOREM LimitWithSlackHolds == Spec => []LimitWithSlack
<1>1. Inv => LimitWithSlack
  BY FiniteParts, LimitPositive
  DEF Inv, SlackBudget, LimitWithSlack, Open, TypeOK
<1> QED BY <1>1, InvHolds, PTL

(* The counter is exact, so counting out never wraps below zero. *)
THEOREM CountExactHolds == Spec => []CountExact
<1>1. Inv => CountExact BY DEF Inv
<1> QED BY <1>1, InvHolds, PTL

(* The listener is never switched off with nobody left to switch it on. *)
THEOREM OffIsTemporaryHolds == Spec => []OffIsTemporary
<1>1. Inv => OffIsTemporary BY DEF Inv
<1> QED BY <1>1, InvHolds, PTL

=============================================================================
