-------------------------- MODULE ClientIdsProofs ---------------------------
(***************************************************************************)
(* Proofs about ClientIds for any number of clients and workers and any    *)
(* MAX_LOWID: the low ids stay apart although the workers share the        *)
(* counter without a lock, and what ClientLimit promises holds for the     *)
(* composition.                                                            *)
(***************************************************************************)
EXTENDS ClientIds, ClientLimitProofs

(* The types that the argument needs. *)
MintTypes ==
  /\ lowid_counter \in 0 .. MAX_LOWID
  /\ sid \in [Users -> Nat \X Nat]
  /\ handed \in Nat
  /\ turn \in [Users -> Nat]

(* An id of the current round is as far behind the counter as it is old.   *)
(* An older one may be anywhere.                                           *)
InPlace(c) ==
  handed - turn[c] < MAX_LOWID =>
    /\ sid[c][1] <= lowid_counter =>
         lowid_counter - sid[c][1] = handed - turn[c]
    /\ sid[c][1] > lowid_counter =>
         lowid_counter + MAX_LOWID - sid[c][1] = handed - turn[c]

Placed ==
  \A c \in LowIds :
    sid[c][1] \in 1 .. MAX_LOWID /\ turn[c] <= handed /\ InPlace(c)

MintInv == MintTypes /\ Placed /\ LowIdsFarApart

(* The counter stays in its range and never gives 0. *)
LEMMA NextIdRange ==
  ASSUME NEW k \in 0 .. MAX_LOWID
  PROVE  NextId(k) \in 1 .. MAX_LOWID
  BY LowIdPositive DEF NextId

(* No low id is in use at the start. *)
LEMMA MintInitInv == IdInit => MintInv
  BY LowIdPositive
     DEF IdInit, MintInv, MintTypes, Placed, LowIds, LowIdsFarApart, NoSid

(* Steps that give no id leave the invariant alone. *)
LEMMA MintKeeps ==
  ASSUME MintInv, UNCHANGED <<lowid_counter, sid, handed, turn>>
  PROVE  MintInv'
  BY DEF MintInv, MintTypes, Placed, InPlace, LowIds, LowIdsFarApart,
         RoundApart, NoSid

(* A high id has a port and is no low id. *)
LEMMA HighKeeps ==
  ASSUME MintInv, NEW w \in Workers, NEW c \in Users, IdentifyHigh(w, c)
  PROVE  MintInv'
<1>1. /\ sid' = [sid EXCEPT ![c] = Addr[c]]
      /\ Addr[c] \in Nat \X (Nat \ {0})
      /\ UNCHANGED <<lowid_counter, handed, turn>>
  BY AddrHasPort DEF IdentifyHigh
<1>2. MintTypes'
  BY <1>1 DEF MintInv, MintTypes
<1>3. Addr[c][2] # 0
  BY <1>1
<1>4. \A d \in LowIds' : d \in LowIds /\ sid'[d] = sid[d]
  BY <1>1, <1>3 DEF MintInv, MintTypes, LowIds, NoSid
<1>5. Placed'
  BY <1>1, <1>4 DEF MintInv, Placed, InPlace
<1>6. LowIdsFarApart'
  BY <1>1, <1>4 DEF MintInv, LowIdsFarApart, RoundApart
<1> QED
  BY <1>2, <1>5, <1>6 DEF MintInv

(* A worker that wins the compare-and-swap hands out an id that nobody has *)
(* got in the last round.                                                  *)
LEMMA SwapKeeps ==
  ASSUME MintInv, NEW w \in Workers,
         lowid_counter = old_id[w], Minted(w, NextId(old_id[w]))
  PROVE  MintInv'
<1> DEFINE n == NextId(lowid_counter)
<1> DEFINE s == subject[w]
<1>1. /\ lowid_counter' = n /\ handed' = handed + 1
      /\ sid' = [sid EXCEPT ![s] = <<n, 0>>]
      /\ turn' = [turn EXCEPT ![s] = handed + 1]
  BY DEF Minted
<1>2. /\ n \in 1 .. MAX_LOWID /\ n \in Nat /\ handed \in Nat
      /\ lowid_counter \in 0 .. MAX_LOWID
      /\ sid \in [Users -> Nat \X Nat] /\ turn \in [Users -> Nat]
  BY NextIdRange, LowIdPositive DEF MintInv, MintTypes
<1> HIDE DEF n, s
<1>3. MintTypes'
  <2>1. lowid_counter' \in 0 .. MAX_LOWID /\ handed' \in Nat
    BY <1>1, <1>2, LowIdPositive
  <2>2. sid' \in [Users -> Nat \X Nat]
    BY <1>1, <1>2
  <2>3. turn' \in [Users -> Nat]
    <3>1. handed + 1 \in Nat
      BY <1>2
    <3> QED
      BY <3>1, <1>1, <1>2, Zenon
  <2> QED
    BY <2>1, <2>2, <2>3 DEF MintTypes
<1>4. \A c \in LowIds' :
        \/ c = s /\ sid'[c] = <<n, 0>> /\ turn'[c] = handed + 1
        \/ c # s /\ c \in LowIds /\ sid'[c] = sid[c] /\ turn'[c] = turn[c]
  BY <1>1, <1>2 DEF LowIds
<1>5. ASSUME NEW c \in LowIds
      PROVE  /\ c \in Users /\ sid[c] \in Nat \X Nat /\ turn[c] \in Nat
             /\ sid[c][1] \in 1 .. MAX_LOWID /\ turn[c] <= handed
             /\ handed + 1 - turn[c] < MAX_LOWID =>
                  /\ n # sid[c][1]
                  /\ sid[c][1] <= n => n - sid[c][1] = handed + 1 - turn[c]
                  /\ sid[c][1] > n =>
                       n + MAX_LOWID - sid[c][1] = handed + 1 - turn[c]
  <2>1. c \in Users /\ sid[c] \in Nat \X Nat /\ turn[c] \in Nat
    BY <1>2 DEF LowIds
  <2>2. sid[c][1] \in 1 .. MAX_LOWID /\ turn[c] <= handed /\ InPlace(c)
    BY DEF MintInv, Placed
  <2>3. ASSUME handed + 1 - turn[c] < MAX_LOWID
        PROVE  /\ n # sid[c][1]
               /\ sid[c][1] <= n => n - sid[c][1] = handed + 1 - turn[c]
               /\ sid[c][1] > n =>
                    n + MAX_LOWID - sid[c][1] = handed + 1 - turn[c]
    <3>1. handed - turn[c] < MAX_LOWID
      BY <2>1, <2>3, <1>2, LowIdPositive
    <3>2. /\ sid[c][1] <= lowid_counter =>
               lowid_counter - sid[c][1] = handed - turn[c]
          /\ sid[c][1] > lowid_counter =>
               lowid_counter + MAX_LOWID - sid[c][1] = handed - turn[c]
      BY <3>1, <2>2 DEF InPlace
    <3>3. n = NextId(lowid_counter)
      BY DEF n
    <3> DEFINE i == sid[c][1]
               t == turn[c]
    <3>4. i \in 1 .. MAX_LOWID /\ t \in Nat /\ t <= handed
      BY <2>1, <2>2
    <3>5. /\ i <= lowid_counter => lowid_counter - i = handed - t
          /\ i > lowid_counter => lowid_counter + MAX_LOWID - i = handed - t
          /\ handed + 1 - t < MAX_LOWID
      BY <3>2, <2>3
    <3> HIDE DEF i, t
    <3>6. /\ n # i
          /\ i <= n => n - i = handed + 1 - t
          /\ i > n => n + MAX_LOWID - i = handed + 1 - t
      BY <3>3, <3>4, <3>5, <1>2, LowIdPositive DEF NextId
    <3> QED
      BY <3>6 DEF i, t
  <2> QED
    BY <2>1, <2>2, <2>3
<1>6. Placed'
  <2> SUFFICES ASSUME NEW c \in LowIds'
               PROVE  /\ sid'[c][1] \in 1 .. MAX_LOWID /\ turn'[c] <= handed'
                      /\ InPlace(c)'
    BY DEF Placed
  <2>1. CASE c = s
    <3>1. sid'[c][1] = n /\ turn'[c] = handed + 1
      BY <2>1, <1>4
    <3> QED
      BY <3>1, <1>1, <1>2 DEF InPlace
  <2>2. CASE c # s
    <3>1. c \in LowIds /\ sid'[c] = sid[c] /\ turn'[c] = turn[c]
      BY <2>2, <1>4
    <3> QED
      BY <3>1, <1>1, <1>2, <1>5 DEF InPlace
  <2> QED
    BY <2>1, <2>2
<1>7. LowIdsFarApart'
  <2> SUFFICES ASSUME NEW c \in LowIds', NEW d \in LowIds',
                      c # d, sid'[c] = sid'[d]
               PROVE  RoundApart(c, d)'
    BY DEF LowIdsFarApart
  <2>1. CASE c # s /\ d # s
    <3>1. /\ c \in LowIds /\ sid'[c] = sid[c] /\ turn'[c] = turn[c]
          /\ d \in LowIds /\ sid'[d] = sid[d] /\ turn'[d] = turn[d]
      BY <2>1, <1>4
    <3> QED
      BY <3>1 DEF MintInv, LowIdsFarApart, RoundApart
  <2>2. ASSUME NEW a \in LowIds', a # s, sid'[a] = <<n, 0>>
        PROVE  handed + 1 - turn'[a] >= MAX_LOWID
    <3>1. a \in LowIds /\ sid[a][1] = n /\ turn'[a] = turn[a]
      BY <2>2, <1>4
    <3>2. turn[a] \in Nat /\ ~(handed + 1 - turn[a] < MAX_LOWID)
      BY <3>1, <1>5
    <3> QED
      BY <3>1, <3>2, <1>2, LowIdPositive
  <2>3. CASE c = s
    <3>1. sid'[d] = <<n, 0>> /\ d # s /\ turn'[c] = handed + 1
      BY <2>3, <1>4
    <3>2. handed + 1 - turn'[d] >= MAX_LOWID
      BY <3>1, <2>2
    <3>3. turn'[c] \in Nat /\ turn'[d] \in Nat
      BY <1>3 DEF MintTypes, LowIds
    <3>4. turn'[c] - turn'[d] >= MAX_LOWID
      BY <3>1, <3>2, <3>3, <1>2, LowIdPositive
    <3> QED
      BY <3>4, Zenon DEF RoundApart
  <2>4. CASE d = s
    <3>1. sid'[c] = <<n, 0>> /\ c # s /\ turn'[d] = handed + 1
      BY <2>4, <1>4
    <3>2. handed + 1 - turn'[c] >= MAX_LOWID
      BY <3>1, <2>2
    <3>3. turn'[d] \in Nat /\ turn'[c] \in Nat
      BY <1>3 DEF MintTypes, LowIds
    <3>4. turn'[d] - turn'[c] >= MAX_LOWID
      BY <3>1, <3>2, <3>3, <1>2, LowIdPositive
    <3> QED
      BY <3>4, Zenon DEF RoundApart
  <2> QED
    BY <2>1, <2>3, <2>4
<1> QED
  BY <1>3, <1>6, <1>7 DEF MintInv

(* Every step keeps the invariant. *)
LEMMA MintStep ==
  ASSUME MintInv, [IdNext]_allVars
  PROVE  MintInv'
<1>1. CASE UNCHANGED allVars
  BY <1>1, MintKeeps DEF allVars, idVars
<1>2. CASE \E c \in Clients : AcceptCounts(c) /\ UNCHANGED idVars
  BY <1>2, MintKeeps DEF idVars
<1>3. CASE AcceptGoesOn
  BY <1>3, MintKeeps DEF AcceptGoesOn, idVars
<1>4. ASSUME NEW w \in Workers, CountOut(w) PROVE MintInv'
  BY <1>4, MintKeeps DEF CountOut, idVars
<1>5. ASSUME NEW w \in Workers, MintLoad(w) PROVE MintInv'
  BY <1>5, MintKeeps DEF MintLoad
<1>6. ASSUME NEW w \in Workers, MintSwap(w) PROVE MintInv'
  <2>1. CASE lowid_counter = old_id[w]
    BY <1>6, <2>1, SwapKeeps DEF MintSwap
  <2>2. CASE lowid_counter # old_id[w]
    BY <1>6, <2>2, MintKeeps DEF MintSwap
  <2> QED
    BY <2>1, <2>2
<1>7. ASSUME NEW w \in Workers, NEW c \in Users,
             IdentifyLow(w, c) \/ Publish(w, c)
      PROVE  MintInv'
  BY <1>7, MintKeeps DEF IdentifyLow, Publish
<1>8. ASSUME NEW w \in Workers, NEW c \in Clients, Leave(w, c)
      PROVE  MintInv'
  BY <1>8, MintKeeps DEF Leave
<1> QED
  BY <1>1, <1>2, <1>3, <1>4, <1>5, <1>6, <1>7, <1>8, HighKeeps
     DEF IdNext, Mint

(* Two clients have the same low id only when the counter went all the way *)
(* round between them, for every number of racing workers.                 *)
THEOREM LowIdsFarApartHolds == IdSpec => []LowIdsFarApart
<1>1. MintInv => LowIdsFarApart
  BY DEF MintInv
<1> QED
  BY MintInitInv, MintStep, <1>1, PTL DEF IdSpec

-----------------------------------------------------------------------------
(* Every step of the composition is a step of ClientLimit or none. *)
LEMMA LimitStep ==
  ASSUME [IdNext]_allVars
  PROVE  [Next]_vars
<1>1. CASE UNCHANGED allVars
  BY <1>1 DEF allVars
<1>2. CASE \E c \in Clients : AcceptCounts(c) /\ UNCHANGED idVars
  BY <1>2 DEF Next
<1>3. CASE AcceptGoesOn
  BY <1>3 DEF AcceptGoesOn, Next
<1>4. ASSUME NEW w \in Workers, CountOut(w) PROVE [Next]_vars
  BY <1>4 DEF CountOut, Next
<1>5. ASSUME NEW w \in Workers, Mint(w) PROVE UNCHANGED vars
  BY <1>5 DEF Mint, MintLoad, MintSwap, Minted
<1>6. ASSUME NEW w \in Workers, NEW c \in Users,
             IdentifyHigh(w, c) \/ IdentifyLow(w, c) \/ Publish(w, c)
      PROVE  UNCHANGED vars
  BY <1>6 DEF IdentifyHigh, IdentifyLow, Publish
<1>7. ASSUME NEW w \in Workers, NEW c \in Clients, Leave(w, c)
      PROVE  Next
  BY <1>7 DEF Leave, Next
<1> QED
  BY <1>1, <1>2, <1>3, <1>4, <1>5, <1>6, <1>7 DEF IdNext

(* Handing out ids and publishing files leave the count of clients alone:  *)
(* the composition implements ClientLimit.                                 *)
THEOREM IdSpecImplementsLimit == IdSpec => Spec
<1>1. IdInit => Init
  BY DEF IdInit
<1> QED
  BY <1>1, LimitStep, PTL DEF IdSpec, Spec

-----------------------------------------------------------------------------
Minting(w) == minting[w] # "idle"

(* A client that waits for its low id has no identity yet, and one worker  *)
(* that gets it one.                                                       *)
OneMinter ==
  /\ \A w \in Workers : Minting(w) => sid[subject[w]] = NoSid
  /\ \A v, w \in Workers :
       Minting(v) /\ Minting(w) /\ subject[v] = subject[w] => v = w

(* A row carries the identity its owner still has.  Its owner has a count, *)
(* or has been told of an error.                                           *)
RowsSigned ==
  \A r \in rows : /\ r.owner \in Users
                  /\ r.sid = sid[r.owner] /\ r.sid # NoSid
                  /\ r.owner \in counted \cup failed

(* client_delete leaves no count behind. *)
CountedStay == \A c \in counted : c \notin Left

RowTypes ==
  /\ counted \subseteq Users
  /\ sid \in [Users -> Nat \X Nat]
  /\ minting \in [Workers -> {"idle", "load", "cas"}]
  /\ DOMAIN subject = Workers

RowsInv == RowTypes /\ OneMinter /\ RowsSigned /\ CountedStay

(* The table is empty at the start. *)
LEMMA RowsInitInv == IdInit => RowsInv
  BY DEF IdInit, RowsInv, RowTypes, OneMinter, RowsSigned, CountedStay, NoSid,
         Minting

(* What the threads do between client_delete and accept_cb takes nobody    *)
(* back and lets nobody go.                                                *)
LEMMA LimitKeepsRows ==
  ASSUME RowsInv, Left' \subseteq Left, UNCHANGED idVars
  PROVE  RowsInv'
  BY DEF RowsInv, RowTypes, OneMinter, RowsSigned, CountedStay, Minting, NoSid,
         idVars, rowVars

(* AcceptCounts and AcceptArms start the life of a client. *)
LEMMA AcceptKeepsLeft ==
  ASSUME TypeOK, (\E c \in Clients : AcceptCounts(c)) \/ AcceptProceeds
  PROVE  Left' \subseteq Left
<1>1. ASSUME NEW c \in Clients, AcceptCounts(c) PROVE Left' \subseteq Left
  BY <1>1, UsersAreClients DEF AcceptCounts, Left, TypeOK
<1>2. ASSUME NEW c \in Clients, AcceptArms(c) PROVE Left' \subseteq Left
  BY <1>2, UsersAreClients DEF AcceptArms, Left, TypeOK
<1>3. CASE AcceptDisables
  BY <1>3 DEF AcceptDisables, Left
<1> QED
  BY <1>1, <1>2, <1>3 DEF AcceptProceeds

(* A client that is counted out has left before. *)
LEMMA DeleteKeepsLeft ==
  ASSUME TypeOK, VictimsOwned, NEW w \in Workers, Delete(w)
  PROVE  Left' \subseteq Left
<1>1. CASE DeleteCounts(w)
  BY <1>1, UsersAreClients DEF DeleteCounts, VictimsOwned, Left, TypeOK
<1>2. CASE DeleteEnables(w)
  BY <1>2 DEF DeleteEnables, Left
<1> QED
  BY <1>1, <1>2 DEF Delete

(* An identity is given to clients that have no rows. *)
LEMMA HighKeepsRows ==
  ASSUME RowsInv, NEW w \in Workers, NEW c \in Users, IdentifyHigh(w, c)
  PROVE  RowsInv'
<1>1. /\ sid' = [sid EXCEPT ![c] = Addr[c]] /\ sid[c] = NoSid
      /\ Addr[c] \in Nat \X (Nat \ {0})
      /\ \A v \in Workers : Minting(v) => subject[v] # c
      /\ UNCHANGED <<minting, subject, rows, counted, failed, conn>>
  BY AddrHasPort DEF IdentifyHigh, Takes, Minting, vars, rowVars
<1>2. RowTypes'
  BY <1>1 DEF RowsInv, RowTypes
<1>3. OneMinter'
  BY <1>1 DEF RowsInv, RowTypes, OneMinter, Minting
<1>4. RowsSigned'
  BY <1>1 DEF RowsInv, RowTypes, RowsSigned
<1>5. CountedStay'
  BY <1>1 DEF RowsInv, CountedStay, Left
<1> QED
  BY <1>2, <1>3, <1>4, <1>5 DEF RowsInv

(* get_next_lowid starts for a client that no other worker handles. *)
LEMMA LowKeepsRows ==
  ASSUME RowsInv, NEW w \in Workers, NEW c \in Users, IdentifyLow(w, c)
  PROVE  RowsInv'
<1>1. /\ minting' = [minting EXCEPT ![w] = "cas"] /\ sid[c] = NoSid
      /\ subject' = [subject EXCEPT ![w] = c]
      /\ \A v \in Workers : Minting(v) => subject[v] # c
      /\ UNCHANGED <<sid, rows, counted, failed, conn>>
  BY DEF IdentifyLow, Takes, Minting, vars, rowVars
<1>2. RowTypes'
  BY <1>1 DEF RowsInv, RowTypes
<1>3. OneMinter'
  <2>1. \A v \in Workers : Minting(v)' =>
          \/ v = w /\ subject'[v] = c
          \/ v # w /\ Minting(v) /\ subject'[v] = subject[v] /\ subject[v] # c
    BY <1>1 DEF RowsInv, RowTypes, Minting
  <2> QED
    BY <2>1, <1>1 DEF RowsInv, OneMinter
<1>4. RowsSigned' /\ CountedStay'
  BY <1>1 DEF RowsInv, RowsSigned, CountedStay, Left
<1> QED
  BY <1>2, <1>3, <1>4 DEF RowsInv

(* Loading the counter, for the first time or again *)
LEMMA RetryKeepsRows ==
  ASSUME RowsInv, NEW w \in Workers, Minting(w), NEW p \in {"load", "cas"},
         minting' = [minting EXCEPT ![w] = p],
         UNCHANGED <<sid, subject, rows, counted, failed, conn>>
  PROVE  RowsInv'
<1>1. RowTypes'
  BY DEF RowsInv, RowTypes
<1>2. \A v \in Workers : Minting(v)' => Minting(v)
  BY DEF RowsInv, RowTypes, Minting
<1>3. OneMinter'
  BY <1>2 DEF RowsInv, OneMinter
<1>4. RowsSigned' /\ CountedStay'
  BY DEF RowsInv, RowsSigned, CountedStay, Left
<1> QED
  BY <1>1, <1>3, <1>4 DEF RowsInv

(* The low id goes to the one client it was minted for. *)
LEMMA MintedKeepsRows ==
  ASSUME RowsInv, NEW w \in Workers, Minting(w), NEW n \in Nat, Minted(w, n)
  PROVE  RowsInv'
<1>1. /\ minting' = [minting EXCEPT ![w] = "idle"]
      /\ subject' = [subject EXCEPT ![w] = NoClient]
      /\ sid' = [sid EXCEPT ![subject[w]] = <<n, 0>>]
      /\ sid[subject[w]] = NoSid
      /\ UNCHANGED <<rows, counted, failed, conn>>
  BY DEF Minted, RowsInv, OneMinter, vars, rowVars
<1>2. RowTypes'
  BY <1>1 DEF RowsInv, RowTypes
<1>3. OneMinter'
  <2>1. \A v \in Workers : Minting(v)' =>
          v # w /\ Minting(v) /\ subject'[v] = subject[v]
    BY <1>1 DEF RowsInv, RowTypes, Minting
  <2>2. \A v \in Workers : Minting(v)' => subject[v] # subject[w]
    BY <2>1 DEF RowsInv, OneMinter
  <2>3. \A v \in Workers : Minting(v)' => sid'[subject'[v]] = sid[subject[v]]
    BY <2>1, <2>2, <1>1
  <2> QED
    BY <2>1, <2>3 DEF RowsInv, OneMinter
<1>4. RowsSigned'
  BY <1>1 DEF RowsInv, RowTypes, RowsSigned
<1>5. CountedStay'
  BY <1>1 DEF RowsInv, CountedStay, Left
<1> QED
  BY <1>2, <1>3, <1>4, <1>5 DEF RowsInv

(* Rows are published by clients that are there.  A client that gets some  *)
(* of them in gets a count with them, or an error.                         *)
LEMMA PublishKeepsRows ==
  ASSUME RowsInv, NEW w \in Workers, NEW c \in Users, Publish(w, c)
  PROVE  RowsInv'
<1>1. /\ conn[c] = "live" /\ sid[c] # NoSid
      /\ UNCHANGED <<minting, subject, sid, conn>>
  BY DEF Publish, vars
<1>2. PICK ok \in BOOLEAN, wrote \in BOOLEAN : Share(c, wrote, ok)
  BY DEF Publish, Results
<1>3. /\ rows' \subseteq rows \cup {[sid |-> sid[c], owner |-> c]}
      /\ counted \subseteq counted' /\ counted' \subseteq counted \cup {c}
      /\ failed \subseteq failed' \cup {c}
      /\ c \in counted' \cup failed'
  BY <1>2 DEF Share, Noted
<1>4. RowTypes' /\ OneMinter'
  BY <1>1, <1>3 DEF RowsInv, RowTypes, OneMinter, Minting
<1>5. RowsSigned'
  BY <1>1, <1>3 DEF RowsInv, RowsSigned
<1>6. CountedStay'
  BY <1>1, <1>3 DEF RowsInv, CountedStay, Left
<1> QED
  BY <1>4, <1>5, <1>6 DEF RowsInv

(* The rows of a client all have its identity: when they are removed none  *)
(* of them stays.                                                          *)
LEMMA RemoveTakesAll ==
  ASSUME RowsSigned, NEW c \in Users, NEW ok \in BOOLEAN, Remove(c, ok)
  PROVE  /\ rows' \subseteq rows
         /\ \A r \in rows' : r.owner = c => c \in failed'
         /\ failed \subseteq failed' \cup {c}
<1>1. CASE ok
  BY <1>1 DEF Remove, Noted, RowsSigned, SameSource
<1>2. CASE ~ok
  BY <1>2 DEF Remove, Noted
<1> QED
  BY <1>1, <1>2

(* A client that leaves gives up its count, and its rows or an error.      *)
LEMMA LeaveKeepsRows ==
  ASSUME RowsInv, TypeOK, NEW w \in Workers, NEW c \in Clients, Leave(w, c)
  PROVE  RowsInv'
<1>1. /\ counted' = counted \ {c}
      /\ conn' = [conn EXCEPT ![c] = "dying"]
      /\ UNCHANGED <<minting, subject, sid>>
  BY DEF Leave, DeleteStarts
<1>2. RowTypes' /\ OneMinter'
  BY <1>1 DEF RowsInv, RowTypes, OneMinter, Minting
<1>3. /\ rows' \subseteq rows
      /\ \A r \in rows' : r.owner = c => c \in failed'
      /\ failed \subseteq failed' \cup {c}
  <2>1. CASE c \in counted
    <3>1. PICK ok \in BOOLEAN : Remove(c, ok)
      BY <2>1 DEF Leave, Results
    <3> QED
      BY <3>1, <2>1, RemoveTakesAll DEF RowsInv, RowTypes
  <2>2. CASE c \notin counted
    BY <2>2 DEF Leave, RowsInv, RowsSigned
  <2> QED
    BY <2>1, <2>2
<1>4. RowsSigned'
  BY <1>1, <1>3 DEF RowsInv, RowsSigned
<1>5. Left' \subseteq Left \cup {c}
  BY <1>1, UsersAreClients DEF Left, TypeOK
<1>6. CountedStay'
  BY <1>1, <1>5 DEF RowsInv, CountedStay
<1> QED
  BY <1>2, <1>4, <1>6 DEF RowsInv

(* Every step keeps the rows and their owners together. *)
LEMMA RowsStep ==
  ASSUME RowsInv, TypeOK, VictimsOwned, MintTypes, [IdNext]_allVars
  PROVE  RowsInv'
<1>1. CASE UNCHANGED allVars
  BY <1>1, LimitKeepsRows DEF allVars, vars, Left
<1>2. CASE \E c \in Clients : AcceptCounts(c) /\ UNCHANGED idVars
  BY <1>2, AcceptKeepsLeft, LimitKeepsRows
<1>3. CASE AcceptGoesOn
  BY <1>3, AcceptKeepsLeft, LimitKeepsRows DEF AcceptGoesOn
<1>4. ASSUME NEW w \in Workers, CountOut(w) PROVE RowsInv'
  BY <1>4, DeleteKeepsLeft, LimitKeepsRows DEF CountOut
<1>5. ASSUME NEW w \in Workers, MintLoad(w) PROVE RowsInv'
  BY <1>5, RetryKeepsRows DEF MintLoad, Minting, vars, rowVars
<1>6. ASSUME NEW w \in Workers, MintSwap(w) PROVE RowsInv'
  <2>1. Minting(w)
    BY <1>6 DEF MintSwap, Minting
  <2>2. CASE lowid_counter = old_id[w]
    <3>1. NextId(old_id[w]) \in Nat
      BY <2>2, NextIdRange, LowIdPositive DEF MintTypes
    <3> QED
      BY <3>1, <2>1, <2>2, <1>6, MintedKeepsRows DEF MintSwap
  <2>3. CASE lowid_counter # old_id[w]
    BY <2>1, <2>3, <1>6, RetryKeepsRows DEF MintSwap, vars, rowVars
  <2> QED
    BY <2>2, <2>3
<1>7. ASSUME NEW w \in Workers, NEW c \in Users,
             IdentifyHigh(w, c) \/ IdentifyLow(w, c) \/ Publish(w, c)
      PROVE  RowsInv'
  BY <1>7, HighKeepsRows, LowKeepsRows, PublishKeepsRows
<1>8. ASSUME NEW w \in Workers, NEW c \in Clients, Leave(w, c)
      PROVE  RowsInv'
  BY <1>8, LeaveKeepsRows
<1> QED
  BY <1>1, <1>2, <1>3, <1>4, <1>5, <1>6, <1>7, <1>8 DEF IdNext, Mint

(* Layer by layer: the counter, the clients, then the rows. *)
LEMMA RowsInvHolds == IdSpec => []RowsInv
<1>1. MintInv => MintTypes
  BY DEF MintInv
<1>2. Inv => TypeOK /\ VictimsOwned
  BY DEF Inv
<1>3. IdSpec => []MintTypes
  BY MintInitInv, MintStep, <1>1, PTL DEF IdSpec
<1>4. IdSpec => [](TypeOK /\ VictimsOwned)
  BY <1>2, InvHolds, IdSpecImplementsLimit, PTL
<1> QED
  BY <1>3, <1>4, RowsInitInv, RowsStep, PTL DEF IdSpec

(* A client that has gone has left rows in the table sources only if its   *)
(* removal or its last offer of a new file failed, whoever shares its      *)
(* identity and whichever calls failed before.                             *)
THEOREM NoRowsLeftHolds == IdSpec => []NoRowsLeft
<1>1. RowsInv => NoRowsLeft
  BY DEF RowsInv, RowsSigned, CountedStay, NoRowsLeft
<1> QED
  BY <1>1, RowsInvHolds, PTL

-----------------------------------------------------------------------------
(* An id with a port is the address of its client. *)
HighIsAddr ==
  \A c \in Users : sid[c] # NoSid /\ sid[c][2] # 0 => sid[c] = Addr[c]

(* Only client_portcheck_finish gives an id. *)
LEMMA HighStep ==
  ASSUME HighIsAddr, MintTypes, [IdNext]_allVars
  PROVE  HighIsAddr'
<1>1. CASE sid' = sid
  BY <1>1 DEF HighIsAddr, NoSid
<1>2. ASSUME NEW c \in Users, sid' = [sid EXCEPT ![c] = Addr[c]]
      PROVE  HighIsAddr'
  BY <1>2 DEF HighIsAddr, MintTypes, NoSid
<1>3. ASSUME NEW c, NEW n, sid' = [sid EXCEPT ![c] = <<n, 0>>]
      PROVE  HighIsAddr'
  <2> SUFFICES ASSUME NEW d \in Users, sid'[d] # NoSid, sid'[d][2] # 0
               PROVE  sid'[d] = Addr[d]
    BY DEF HighIsAddr, NoSid
  <2>1. d # c
    BY <1>3 DEF MintTypes
  <2> QED
    BY <1>3, <2>1 DEF HighIsAddr, MintTypes, NoSid
<1>4. ASSUME NEW w \in Workers, Mint(w) PROVE HighIsAddr'
  BY <1>4, <1>1, <1>3 DEF Mint, MintLoad, MintSwap, Minted
<1>5. ASSUME NEW w \in Workers, NEW c \in Users,
             IdentifyHigh(w, c) \/ IdentifyLow(w, c) \/ Publish(w, c)
      PROVE  HighIsAddr'
  BY <1>5, <1>1, <1>2 DEF IdentifyHigh, IdentifyLow, Publish
<1>6. ASSUME NEW w \in Workers, CountOut(w) \/ \E c \in Clients : Leave(w, c)
      PROVE  sid' = sid
  BY <1>6 DEF CountOut, Leave, idVars
<1> QED
  BY <1>1, <1>4, <1>5, <1>6 DEF IdNext, AcceptGoesOn, idVars, allVars

(* Rows are removed by db_remove_source only, for a client that leaves. *)
LEMMA OnlyLeaveRemoves ==
  ASSUME [IdNext]_allVars
  PROVE  \/ rows \subseteq rows'
         \/ \E w \in Workers, c \in Clients : Leave(w, c)
<1>1. ASSUME NEW w \in Workers, Mint(w) \/ CountOut(w) PROVE rows' = rows
  BY <1>1 DEF Mint, MintLoad, MintSwap, Minted, CountOut, idVars, rowVars
<1>2. ASSUME NEW w \in Workers, NEW c \in Users,
             IdentifyHigh(w, c) \/ IdentifyLow(w, c) \/ Publish(w, c)
      PROVE  rows \subseteq rows'
  BY <1>2 DEF IdentifyHigh, IdentifyLow, Publish, Share, rowVars
<1> QED
  BY <1>1, <1>2 DEF IdNext, AcceptGoesOn, idVars, rowVars, allVars

(* A client that leaves takes rows with its identity only. *)
LEMMA LeaveGoesWithId ==
  ASSUME RowsInv, TypeOK, LowIdsFarApart, HighIsAddr,
         NEW w \in Workers, NEW c \in Clients, Leave(w, c)
  PROVE  RowsGoWithId
<1> SUFFICES ASSUME NEW r \in rows, r \notin rows'
             PROVE  \E d \in Left' \ Left :
                      \/ d = r.owner
                      \/ /\ r.owner \in LowIds <=> d \in LowIds
                         /\ IF d \in LowIds THEN RoundApart(r.owner, d)
                                             ELSE Addr[r.owner] = Addr[d]
  BY DEF RowsGoWithId
<1>1. c \in counted /\ r.sid = sid[c]
  BY DEF Leave, Remove, SameSource
<1>2. c \in Users /\ c \in Left' \ Left
  BY <1>1 DEF Leave, DeleteStarts, RowsInv, RowTypes, TypeOK, Left
<1>3. /\ r.owner \in Users /\ sid[r.owner] = sid[c] /\ sid[c] # NoSid
  BY <1>1 DEF RowsInv, RowsSigned
<1>4. r.owner \in LowIds <=> c \in LowIds
  BY <1>2, <1>3 DEF LowIds
<1>5. CASE c \in LowIds /\ c # r.owner
  BY <1>2, <1>3, <1>4, <1>5 DEF LowIdsFarApart
<1>6. CASE c \notin LowIds
  <2>1. sid[c] = Addr[c] /\ sid[r.owner] = Addr[r.owner]
    BY <1>2, <1>3, <1>6 DEF LowIds, HighIsAddr
  <2> QED
    BY <2>1, <1>2, <1>3, <1>4, <1>6
<1> QED
  BY <1>2, <1>5, <1>6

(* A connected client loses rows to a client with its identity only: one   *)
(* with the same address and port, or a low id a round away, for every     *)
(* number of clients and workers and with every failure of the database.   *)
THEOREM RowsKeptHolds == IdSpec => RowsKept
<1>1. IdInit => HighIsAddr
  BY DEF IdInit, HighIsAddr
<1>2. MintInv => MintTypes /\ LowIdsFarApart
  BY DEF MintInv
<1>3. IdSpec => [](MintTypes /\ LowIdsFarApart)
  BY MintInitInv, MintStep, <1>2, PTL DEF IdSpec
<1>4. IdSpec => []HighIsAddr
  BY <1>1, <1>3, HighStep, PTL DEF IdSpec
<1>5. RowsInv /\ TypeOK /\ LowIdsFarApart /\ HighIsAddr /\ [IdNext]_allVars
        => [RowsGoWithId]_allVars
  <2> SUFFICES ASSUME RowsInv, TypeOK, LowIdsFarApart, HighIsAddr,
                      [IdNext]_allVars
               PROVE  RowsGoWithId
    OBVIOUS
  <2>1. CASE rows \subseteq rows'
    BY <2>1 DEF RowsGoWithId
  <2> QED
    BY <2>1, OnlyLeaveRemoves, LeaveGoesWithId
<1>6. Inv => TypeOK
  BY DEF Inv
<1>7. IdSpec => []TypeOK
  BY <1>6, InvHolds, IdSpecImplementsLimit, PTL
<1> QED
  BY <1>3, <1>4, <1>5, <1>7, RowsInvHolds, PTL DEF IdSpec, RowsKept

=============================================================================
