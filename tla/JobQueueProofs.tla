--------------------------- MODULE JobQueueProofs ---------------------------
(***************************************************************************)
(* Proofs about JobQueue for any number of clients, workers and events.    *)
(* The invariant is built in layers: each one is inductive once the ones   *)
(* before it hold.                                                         *)
(***************************************************************************)
EXTENDS JobQueue, FiniteSetTheorems, SequenceTheorems, TLAPS

Distinct(q) == \A i, k \in 1 .. Len(q) : q[i] = q[k] => i = k

(* What a removal from the middle of the queue leaves. *)
LEMMA RemoveAtFacts ==
  ASSUME NEW S, NEW q \in Seq(S), NEW i \in 1 .. Len(q)
  PROVE  /\ RemoveAt(q, i) \in Seq(S)
         /\ Len(RemoveAt(q, i)) = Len(q) - 1
         /\ \A k \in 1 .. Len(q) - 1 :
              RemoveAt(q, i)[k] = IF k < i THEN q[k] ELSE q[k + 1]
<1> DEFINE a == SubSeq(q, 1, i - 1)
           b == SubSeq(q, i + 1, Len(q))
<1>1. Len(q) \in Nat /\ \A k \in 1 .. Len(q) : q[k] \in S
  BY LenProperties, ElementOfSeq
<1>2. /\ a \in Seq(S) /\ Len(a) = i - 1
      /\ \A k \in 1 .. i - 1 : a[k] = q[k]
  <2>1. \A k \in 1 .. i - 1 : q[k] \in S BY <1>1
  <2>2. 1 \in Int /\ i - 1 \in Int BY <1>1
  <2> HIDE DEF a
  <2>3. /\ a \in Seq(S) /\ Len(a) = IF 1 <= i - 1 THEN (i - 1) - 1 + 1 ELSE 0
        /\ \A k \in 1 .. (i - 1) - 1 + 1 : a[k] = q[1 + k - 1]
    BY <2>1, <2>2, SubSeqProperties DEF a
  <2> QED BY <2>3, <1>1
<1>3. /\ b \in Seq(S) /\ Len(b) = Len(q) - i
      /\ \A k \in 1 .. Len(q) - i : b[k] = q[i + k]
  <2>1. \A k \in i + 1 .. Len(q) : q[k] \in S BY <1>1
  <2>2. i + 1 \in Int /\ Len(q) \in Int BY <1>1
  <2> HIDE DEF b
  <2>3. /\ b \in Seq(S)
        /\ Len(b) = IF i + 1 <= Len(q) THEN Len(q) - (i + 1) + 1 ELSE 0
        /\ \A k \in 1 .. Len(q) - (i + 1) + 1 : b[k] = q[i + 1 + k - 1]
    BY <2>1, <2>2, SubSeqProperties DEF b
  <2> QED BY <2>3, <1>1
<1>4. RemoveAt(q, i) = a \o b BY DEF RemoveAt
<1> HIDE DEF a, b
<1>5. /\ a \o b \in Seq(S) /\ Len(a \o b) = Len(a) + Len(b)
      /\ \A k \in 1 .. Len(a) + Len(b) :
           (a \o b)[k] = IF k <= Len(a) THEN a[k] ELSE b[k - Len(a)]
  BY <1>2, <1>3, ConcatProperties
<1>6. ASSUME NEW k \in 1 .. Len(q) - 1
      PROVE  (a \o b)[k] = IF k < i THEN q[k] ELSE q[k + 1]
  <2>1. CASE k < i
    <3>1. Len(q) \in Nat /\ Len(a) = i - 1 /\ Len(b) = Len(q) - i
      BY <1>1, <1>2, <1>3
    <3>2. k \in 1 .. Len(a) + Len(b) /\ k <= Len(a) /\ k \in 1 .. i - 1
      BY <2>1, <3>1
    <3>3. (a \o b)[k] = a[k] /\ a[k] = q[k] BY <3>2, <1>2, <1>5
    <3> QED BY <2>1, <3>3
  <2>2. CASE ~(k < i)
    <3>1. Len(q) \in Nat /\ Len(a) = i - 1 /\ Len(b) = Len(q) - i
      BY <1>1, <1>2, <1>3
    <3>2. /\ k - Len(a) \in 1 .. Len(q) - i /\ i + (k - Len(a)) = k + 1
          /\ k \in 1 .. Len(a) + Len(b) /\ ~(k <= Len(a))
      BY <2>2, <3>1
    <3>3. b[k - Len(a)] = q[i + (k - Len(a))] BY <3>2, <1>3
    <3>4. (a \o b)[k] = b[k - Len(a)] BY <3>2, <1>5
    <3> QED BY <2>2, <3>2, <3>3, <3>4
  <2> QED BY <2>1, <2>2
<1> QED BY <1>1, <1>2, <1>3, <1>4, <1>5, <1>6

(* Removing a job from a queue without duplicates removes just that job. *)
LEMMA RemoveAtDistinct ==
  ASSUME NEW S, NEW q \in Seq(S), NEW i \in 1 .. Len(q), Distinct(q)
  PROVE  /\ Distinct(RemoveAt(q, i))
         /\ ToSet(RemoveAt(q, i)) = ToSet(q) \ {q[i]}
<1> DEFINE r == RemoveAt(q, i)
<1>1. /\ r \in Seq(S) /\ Len(r) = Len(q) - 1
      /\ \A k \in 1 .. Len(q) - 1 : r[k] = IF k < i THEN q[k] ELSE q[k + 1]
  BY RemoveAtFacts
<1>2. /\ Len(q) \in Nat /\ DOMAIN q = 1 .. Len(q) /\ DOMAIN r = 1 .. Len(r)
  BY <1>1, LenProperties
<1> HIDE DEF r
<1>3. Distinct(r) BY <1>1, <1>2 DEF Distinct
<1>4. ASSUME NEW k \in 1 .. Len(r) PROVE r[k] \in ToSet(q) \ {q[i]}
  <2>1. PICK m \in 1 .. Len(q) : m # i /\ r[k] = q[m]
    <3>1. CASE k < i
      <4>1. k \in 1 .. Len(q) /\ k # i BY <3>1, <1>1, <1>2
      <4>2. r[k] = q[k] BY <3>1, <1>1
      <4> QED BY <4>1, <4>2
    <3>2. CASE ~(k < i)
      <4>1. k + 1 \in 1 .. Len(q) /\ k + 1 # i BY <3>2, <1>1, <1>2
      <4>2. r[k] = q[k + 1] BY <3>2, <1>1
      <4> QED BY <4>1, <4>2
    <3> QED BY <3>1, <3>2
  <2>2. q[m] # q[i] BY <2>1 DEF Distinct
  <2> QED BY <2>1, <2>2, <1>2 DEF ToSet
<1>5. ASSUME NEW k \in 1 .. Len(q), q[k] # q[i] PROVE q[k] \in ToSet(r)
  <2>1. CASE k < i
    <3>1. k \in 1 .. Len(r) /\ r[k] = q[k] BY <2>1, <1>1, <1>2
    <3> QED BY <3>1, <1>2 DEF ToSet
  <2>2. CASE k > i
    <3>1. k - 1 \in 1 .. Len(r) /\ ~(k - 1 < i) BY <2>2, <1>1, <1>2
    <3>2. r[k - 1] = q[(k - 1) + 1] BY <3>1, <1>1
    <3>3. r[k - 1] = q[k] BY <3>2, <1>2
    <3> QED BY <3>1, <3>3, <1>2 DEF ToSet
  <2> QED BY <2>1, <2>2, <1>2, <1>5
<1>6. ToSet(r) = ToSet(q) \ {q[i]}
  BY <1>2, <1>4, <1>5 DEF ToSet
<1> QED BY <1>3, <1>6 DEF r

(* Appending adds one element at the end. *)
LEMMA AppendToSet ==
  ASSUME NEW S, NEW q \in Seq(S), NEW e \in S
  PROVE  /\ ToSet(Append(q, e)) = ToSet(q) \cup {e}
         /\ Distinct(q) /\ e \notin ToSet(q) => Distinct(Append(q, e))
<1> DEFINE r == Append(q, e)
<1>1. /\ r \in Seq(S) /\ Len(r) = Len(q) + 1 /\ r[Len(q) + 1] = e
      /\ \A k \in 1 .. Len(q) : r[k] = q[k]
  BY AppendProperties
<1>2. /\ Len(q) \in Nat /\ DOMAIN q = 1 .. Len(q) /\ DOMAIN r = 1 .. Len(r)
  BY <1>1, LenProperties
<1> HIDE DEF r
<1>3. ToSet(r) = ToSet(q) \cup {e} BY <1>1, <1>2 DEF ToSet
<1>4. Distinct(q) /\ e \notin ToSet(q) => Distinct(r)
  BY <1>1, <1>2 DEF ToSet, Distinct
<1> QED BY <1>3, <1>4 DEF r

-----------------------------------------------------------------------------
(* Layer 1: types, the mutex and where jobs come from.                     *)

MutexInv == \A w \in Workers : pc[w] \in InMutex <=> job_mutex = w

HandInv == \A w \in Workers : pc[w] \in HasJob => cur[w] \in Jobs

TcpInv ==
  /\ tcp.pc \in {"add", "signal"} =>
       tcp.clnt \in accepted /\ events[tcp.clnt] \in 1 .. MaxEvents
  /\ tcp.pc \in {"idle", "stopped"} => tcp.clnt = NoClient

(* Jobs are numbered in the order of the events, so a new one is new. *)
QueueInv ==
  /\ Distinct(jqueue)
  /\ \A j \in ToSet(jqueue) :
       /\ j[1] \in accepted
       /\ j[2] <= events[j[1]]
       /\ tcp.pc = "add" /\ tcp.clnt = j[1] => j[2] < events[j[1]]

OriginInv ==
  /\ armed \subseteq accepted
  /\ \A w \in Workers : pc[w] \in HasJob => Clnt(w) \in accepted
  /\ \A c \in Clients : deleted[c] = 1 => c \in accepted

Basic ==
  TypeOK /\ MutexInv /\ HandInv /\ TcpInv /\ QueueInv /\ OriginInv

(* Sets of program points, for the provers. *)
LEMMA Points ==
  /\ InHandler \subseteq HoldsRef /\ HoldsRef \subseteq HasJob
  /\ HasJob \subseteq WorkerPc
  /\ HasJob \cap InMutex = {}
BY DEF InHandler, HoldsRef, HasJob, InMutex, WorkerPc

(* A job in hand points to a client. *)
LEMMA ClntType ==
  ASSUME Basic, NEW w \in Workers, pc[w] \in HasJob
  PROVE  Clnt(w) \in Clients
BY DEF Basic, HandInv, Clnt, Jobs

(* The initial state satisfies layer 1. *)
LEMMA InitBasic == Init => Basic
<1> SUFFICES ASSUME Init PROVE Basic OBVIOUS
<1> USE DEF Init
<1>1. TypeOK
  <2>1. jqueue \in Seq(Jobs) BY EmptySeq
  <2>2. 0 \in 0 .. MaxEvents BY MaxEventsNat
  <2>3. tcp \in [pc : {"idle", "add", "signal", "stopped"},
                clnt : Clients \cup {NoClient}]
    OBVIOUS
  <2>4. pos \in [Workers -> Nat \ {0}] OBVIOUS
  <2> QED BY <2>1, <2>2, <2>3, <2>4 DEF TypeOK, WorkerPc
<1>2. MutexInv BY SentinelsFresh DEF MutexInv, InMutex
<1>3. HandInv /\ TcpInv
  BY DEF HandInv, TcpInv, HasJob, HoldsRef, InHandler
<1>4. QueueInv
  <2>1. Len(jqueue) = 0 /\ ToSet(jqueue) = {} BY DEF ToSet
  <2> QED BY <2>1 DEF QueueInv, Distinct
<1>5. OriginInv BY DEF OriginInv, HasJob, HoldsRef, InHandler
<1> QED BY <1>1, <1>2, <1>3, <1>4, <1>5 DEF Basic

(* Steps of the main and the tcp thread, except for the append. *)
LEMMA EnvironmentBasic ==
  ASSUME Basic,
         \/ \E c \in Clients : Accept(c) \/ EventFires(c)
         \/ ServerStop \/ SignalJob \/ TcpStops
  PROVE  Basic'
<1> USE DEF Basic, clientVars, queueVars, tcpVars
<1>1. ASSUME NEW c \in Clients, Accept(c) PROVE Basic'
  BY <1>1 DEF Accept, TypeOK, MutexInv, HandInv, TcpInv, QueueInv,
     OriginInv, Clnt
<1>2. CASE ServerStop
  BY <1>2 DEF ServerStop, TypeOK, MutexInv, HandInv, TcpInv, QueueInv,
     OriginInv, Clnt
<1>3. ASSUME NEW c \in Clients, EventFires(c) PROVE Basic'
  <2> USE <1>3 DEF EventFires
  <2>1. events[c] \in 0 .. MaxEvents BY DEF TypeOK
  <2>2. TypeOK'
    <3>1. events[c] + 1 \in 0 .. MaxEvents BY <2>1, MaxEventsNat
    <3>2. events' \in [Clients -> 0 .. MaxEvents] BY <3>1 DEF TypeOK
    <3>3. tcp' \in [pc : {"idle", "add", "signal", "stopped"},
                    clnt : Clients \cup {NoClient}]
      OBVIOUS
    <3> QED BY <3>2, <3>3 DEF TypeOK
  <2>3. MutexInv' /\ HandInv' /\ OriginInv'
    BY DEF MutexInv, HandInv, OriginInv, Clnt
  <2>4. TcpInv' BY <2>1, MaxEventsNat DEF TcpInv, OriginInv, TypeOK
  <2>5. QueueInv'
    <3>1. ASSUME NEW j \in ToSet(jqueue)
          PROVE  j[1] \in Clients /\ j[2] \in Nat
      <4>1. j \in Jobs BY <3>1, LenProperties DEF TypeOK, ToSet
      <4> QED BY <4>1 DEF Jobs
    <3> QED BY <2>1, <3>1, MaxEventsNat DEF QueueInv, TypeOK
  <2> QED BY <2>2, <2>3, <2>4, <2>5
<1>4. CASE SignalJob
  <2> USE <1>4 DEF SignalJob
  <2>1. TypeOK' BY DEF TypeOK, Waiting, WorkerPc
  <2>2. MutexInv' BY DEF MutexInv, Waiting, TypeOK, InMutex
  <2>3. HandInv' /\ OriginInv'
    BY DEF HandInv, OriginInv, Clnt, Waiting, TypeOK, HasJob, HoldsRef,
       InHandler
  <2>4. TcpInv' /\ QueueInv' BY DEF TcpInv, QueueInv
  <2> QED BY <2>1, <2>2, <2>3, <2>4
<1>5. CASE TcpStops
  BY <1>5 DEF TcpStops, TypeOK, MutexInv, HandInv, TcpInv, QueueInv,
     OriginInv, Clnt
<1> QED BY <1>1, <1>2, <1>3, <1>4, <1>5

(* What the append does to the queue. *)
LEMMA AddJobFacts ==
  ASSUME Basic, AddJob
  PROVE  /\ tcp.clnt \in Clients
         /\ <<tcp.clnt, events[tcp.clnt]>> \in Jobs \ ToSet(jqueue)
         /\ ToSet(jqueue') = ToSet(jqueue) \cup {<<tcp.clnt, events[tcp.clnt]>>}
         /\ jqueue' \in Seq(Jobs) /\ Distinct(jqueue')
<1> USE DEF Basic
<1> DEFINE j == <<tcp.clnt, events[tcp.clnt]>>
<1>1. tcp.clnt \in Clients /\ events[tcp.clnt] \in 1 .. MaxEvents
  BY DEF AddJob, TcpInv, TypeOK
<1>2. j \in Jobs BY <1>1 DEF Jobs
<1>3. j \notin ToSet(jqueue)
  <2>1. j[1] = tcp.clnt /\ j[2] = events[tcp.clnt] OBVIOUS
  <2>2. ~(events[tcp.clnt] < events[tcp.clnt]) BY <1>1, MaxEventsNat
  <2> QED BY <2>1, <2>2 DEF QueueInv, AddJob
<1>4. jqueue \in Seq(Jobs) /\ Distinct(jqueue) /\ jqueue' = Append(jqueue, j)
  BY DEF TypeOK, QueueInv, AddJob
<1> HIDE DEF j
<1>5. /\ ToSet(Append(jqueue, j)) = ToSet(jqueue) \cup {j}
      /\ Distinct(Append(jqueue, j))
  BY <1>2, <1>3, <1>4, AppendToSet
<1>6. Append(jqueue, j) \in Seq(Jobs) BY <1>2, <1>4, AppendProperties
<1> QED BY <1>1, <1>2, <1>3, <1>4, <1>5, <1>6 DEF j

(* Appending a job. *)
LEMMA AddJobBasic == ASSUME Basic, AddJob PROVE Basic'
<1> USE DEF Basic
<1>1. TypeOK'
  <2>1. jqueue' \in Seq(Jobs) BY AddJobFacts
  <2>2. ref_cnt' \in [Clients -> Nat]
    <3>1. /\ ref_cnt \in [Clients -> Nat]
          /\ ref_cnt' = [ref_cnt EXCEPT ![tcp.clnt] = @ + 1]
      BY DEF AddJob, TypeOK
    <3>2. tcp.clnt \in Clients BY AddJobFacts
    <3> QED BY <3>1, <3>2
  <2>3. tcp' \in [pc : {"idle", "add", "signal", "stopped"},
                 clnt : Clients \cup {NoClient}]
    BY DEF AddJob, TypeOK
  <2> QED BY <2>1, <2>2, <2>3 DEF AddJob, TypeOK
<1>2. MutexInv' /\ HandInv' /\ OriginInv'
  BY DEF AddJob, MutexInv, HandInv, OriginInv, Clnt
<1>3. TcpInv' BY DEF AddJob, TcpInv, TypeOK
<1>4. QueueInv'
  <2>1. Distinct(jqueue') BY AddJobFacts
  <2>2. ASSUME NEW k \in ToSet(jqueue')
        PROVE  k[1] \in accepted' /\ k[2] <= events'[k[1]] /\ tcp'.pc # "add"
    <3>1. tcp'.pc # "add" BY DEF AddJob, TypeOK
    <3>2. CASE k \in ToSet(jqueue) BY <3>1, <3>2 DEF QueueInv, AddJob
    <3>3. CASE k = <<tcp.clnt, events[tcp.clnt]>>
      <4>1. k[1] = tcp.clnt /\ k[2] = events[tcp.clnt] BY <3>3
      <4>2. events[tcp.clnt] <= events[tcp.clnt]
        BY AddJobFacts, MaxEventsNat DEF TypeOK
      <4> QED BY <3>1, <4>1, <4>2 DEF AddJob, TcpInv
    <3> QED BY <2>2, <3>2, <3>3, AddJobFacts
  <2> QED BY <2>1, <2>2 DEF QueueInv
<1> QED BY <1>1, <1>2, <1>3, <1>4

(* A worker's step that leaves the queue, the counters and the mutex alone *)
(* and moves it between program points outside of the mutex.               *)
LEMMA PlainStepBasic ==
  ASSUME Basic, NEW w \in Workers,
         CheckDeleted(w) \/ HandlerReturns(w) \/ HandlerDeletes(w)
           \/ Disarm(w) \/ HandlerProbes(w) \/ UnlockClient(w)
           \/ SeesDeleted(w) \/ ProbeRef(w) \/ FreeClient(w) \/ FreeJob(w)
           \/ SpuriousWakeup(w)
  PROVE  Basic'
<1> USE DEF Basic, clientVars, queueVars, tcpVars, Goto
<1>0. ASSUME UNCHANGED <<jqueue, events, tcp, accepted>>
      PROVE  TcpInv' /\ QueueInv'
  BY <1>0 DEF TcpInv, QueueInv
<1>1. CASE CheckDeleted(w)
  BY <1>0, <1>1 DEF CheckDeleted, TypeOK, MutexInv, HandInv, OriginInv,
     Clnt, WorkerPc, InMutex, HasJob, HoldsRef, InHandler
<1>2. CASE HandlerReturns(w)
  BY <1>0, <1>2 DEF HandlerReturns, TypeOK, MutexInv, HandInv, OriginInv,
     Clnt, WorkerPc, InMutex, HasJob, HoldsRef, InHandler
<1>3. CASE HandlerDeletes(w)
  BY <1>0, <1>3 DEF HandlerDeletes, TypeOK, MutexInv, HandInv, OriginInv,
     Clnt, WorkerPc, InMutex, HasJob, HoldsRef, InHandler
<1>4. CASE Disarm(w)
  BY <1>0, <1>4 DEF Disarm, TypeOK, MutexInv, HandInv, OriginInv,
     Clnt, WorkerPc, InMutex, HasJob, HoldsRef, InHandler
<1>5. CASE HandlerProbes(w)
  <2>1. freed' \in [Clients -> Nat]
    <3>1. /\ freed \in [Clients -> Nat]
          /\ freed' = freed \/ freed' = [freed EXCEPT ![Clnt(w)] = @ + 1]
      BY <1>5 DEF HandlerProbes, TypeOK
    <3>2. Clnt(w) \in Clients
      BY <1>5, ClntType DEF HandlerProbes, HasJob, HoldsRef, InHandler
    <3> HIDE DEF Basic
    <3> QED BY <3>1, <3>2
  <2> QED
    BY <1>0, <1>5, <2>1 DEF HandlerProbes, TypeOK, MutexInv, HandInv,
       OriginInv, Clnt, WorkerPc, InMutex, HasJob, HoldsRef, InHandler
<1>6. CASE UnlockClient(w)
  BY <1>0, <1>6 DEF UnlockClient, TypeOK, MutexInv, HandInv, OriginInv,
     Clnt, WorkerPc, InMutex, HasJob, HoldsRef, InHandler
<1>7. CASE SeesDeleted(w)
  BY <1>0, <1>7 DEF SeesDeleted, TypeOK, MutexInv, HandInv, OriginInv,
     Clnt, WorkerPc, InMutex, HasJob, HoldsRef, InHandler
<1>8. CASE ProbeRef(w)
  BY <1>0, <1>8 DEF ProbeRef, TypeOK, MutexInv, HandInv, OriginInv,
     Clnt, WorkerPc, InMutex, HasJob, HoldsRef, InHandler
<1>9. CASE FreeClient(w)
  <2>1. freed' \in [Clients -> Nat]
    <3>1. /\ freed \in [Clients -> Nat]
          /\ freed' = [freed EXCEPT ![Clnt(w)] = @ + 1]
      BY <1>9 DEF FreeClient, TypeOK
    <3>2. Clnt(w) \in Clients
      BY <1>9, ClntType DEF FreeClient, HasJob
    <3> HIDE DEF Basic
    <3> QED BY <3>1, <3>2
  <2>2. TypeOK'
    BY <1>9, <2>1 DEF FreeClient, TypeOK, WorkerPc
  <2>3. MutexInv' /\ HandInv'
    BY <1>9 DEF FreeClient, TypeOK, MutexInv, HandInv, InMutex, HasJob,
       HoldsRef, InHandler
  <2>4. OriginInv'
    BY <1>9 DEF FreeClient, TypeOK, OriginInv, Clnt, HasJob, HoldsRef,
       InHandler
  <2> QED BY <1>0, <1>9, <2>2, <2>3, <2>4 DEF FreeClient
<1>10. CASE FreeJob(w)
  BY <1>0, <1>10 DEF FreeJob, TypeOK, MutexInv, HandInv, OriginInv,
     Clnt, WorkerPc, InMutex, HasJob, HoldsRef, InHandler
<1>11. CASE SpuriousWakeup(w)
  BY <1>0, <1>11 DEF SpuriousWakeup, TypeOK, MutexInv, HandInv, OriginInv,
     Clnt, WorkerPc, InMutex, HasJob, HoldsRef, InHandler
<1> QED
  BY <1>1, <1>2, <1>3, <1>4, <1>5, <1>6, <1>7, <1>8, <1>9, <1>10, <1>11

(* A worker's steps under the mutex, except for the removal. *)
LEMMA MutexStepBasic ==
  ASSUME Basic, NEW w \in Workers,
         LockMutex(w) \/ WorkerExits(w) \/ StartScan(w) \/ SkipJob(w)
           \/ WaitForJob(w)
  PROVE  Basic'
<1> USE DEF Basic, clientVars, queueVars, tcpVars, Goto
<1>0. ASSUME UNCHANGED <<jqueue, events, tcp, accepted>>
      PROVE  TcpInv' /\ QueueInv'
  BY <1>0 DEF TcpInv, QueueInv
<1>1. CASE LockMutex(w)
  BY <1>0, <1>1, SentinelsFresh DEF LockMutex, TypeOK, MutexInv, HandInv,
     OriginInv, Clnt, WorkerPc, InMutex, HasJob, HoldsRef, InHandler
<1>2. CASE WorkerExits(w)
  BY <1>0, <1>2, SentinelsFresh DEF WorkerExits, TypeOK, MutexInv, HandInv,
     OriginInv, Clnt, WorkerPc, InMutex, HasJob, HoldsRef, InHandler
<1>3. CASE StartScan(w)
  <2>1. TypeOK'
    BY <1>3 DEF StartScan, TypeOK, WorkerPc
  <2>2. MutexInv'
    BY <1>3 DEF StartScan, TypeOK, MutexInv, InMutex
  <2>3. HandInv' /\ OriginInv'
    BY <1>3 DEF StartScan, TypeOK, HandInv, OriginInv, Clnt, HasJob, HoldsRef,
       InHandler
  <2> QED BY <1>0, <1>3, <2>1, <2>2, <2>3 DEF StartScan
<1>4. CASE SkipJob(w)
  <2>1. TypeOK'
    BY <1>4 DEF SkipJob, TypeOK, WorkerPc
  <2>2. MutexInv'
    BY <1>4 DEF SkipJob, TypeOK, MutexInv, InMutex
  <2>3. HandInv' /\ OriginInv'
    BY <1>4 DEF SkipJob, TypeOK, HandInv, OriginInv, Clnt, HasJob, HoldsRef,
       InHandler
  <2> QED BY <1>0, <1>4, <2>1, <2>2, <2>3 DEF SkipJob
<1>5. CASE WaitForJob(w)
  BY <1>0, <1>5, SentinelsFresh DEF WaitForJob, TypeOK, MutexInv, HandInv,
     OriginInv, Clnt, WorkerPc, InMutex, HasJob, HoldsRef, InHandler
<1> QED BY <1>1, <1>2, <1>3, <1>4, <1>5

(* What taking a job does to the queue. *)
LEMMA TakeJobFacts ==
  ASSUME Basic, NEW w \in Workers, TakeJob(w)
  PROVE  /\ cur'[w] = jqueue[pos[w]]
         /\ cur'[w] \in Jobs /\ cur'[w] \in ToSet(jqueue)
         /\ cur'[w][1] \in Clients
         /\ ToSet(jqueue') = ToSet(jqueue) \ {cur'[w]}
         /\ jqueue' \in Seq(Jobs) /\ Distinct(jqueue')
<1> USE DEF Basic
<1>1. jqueue \in Seq(Jobs) /\ Distinct(jqueue) BY DEF TypeOK, QueueInv
<1>2. pos[w] \in 1 .. Len(jqueue)
  BY <1>1, LenProperties DEF TypeOK, TakeJob
<1>3. jqueue' = RemoveAt(jqueue, pos[w]) /\ cur'[w] = jqueue[pos[w]]
  BY DEF TakeJob, TypeOK
<1>4. cur'[w] \in Jobs BY <1>1, <1>2, <1>3, ElementOfSeq
<1>5. cur'[w] \in ToSet(jqueue)
  BY <1>1, <1>2, <1>3, LenProperties DEF ToSet
<1>6. cur'[w][1] \in Clients BY <1>4 DEF Jobs
<1>7. /\ RemoveAt(jqueue, pos[w]) \in Seq(Jobs)
      /\ Distinct(RemoveAt(jqueue, pos[w]))
      /\ ToSet(RemoveAt(jqueue, pos[w])) = ToSet(jqueue) \ {jqueue[pos[w]]}
  BY <1>1, <1>2, RemoveAtFacts, RemoveAtDistinct
<1> QED BY <1>3, <1>4, <1>5, <1>6, <1>7

(* Taking a job. *)
LEMMA TakeJobBasic ==
  ASSUME Basic, NEW w \in Workers, TakeJob(w)
  PROVE  Basic'
<1> USE DEF Basic, tcpVars, Goto
<1>1. TypeOK'
  <2>1. jqueue' \in Seq(Jobs) BY TakeJobFacts
  <2>2. cur' \in [Workers -> Jobs \cup {NoJob}]
    BY TakeJobFacts DEF TakeJob, TypeOK
  <2>3. locked' \in [Clients -> {0, 1}] BY DEF TakeJob, TypeOK
  <2> QED BY <2>1, <2>2, <2>3 DEF TakeJob, TypeOK, WorkerPc
<1>2. MutexInv' BY SentinelsFresh DEF TakeJob, MutexInv, TypeOK, InMutex
<1>3. HandInv'
  BY TakeJobFacts DEF TakeJob, HandInv, TypeOK, HasJob, HoldsRef, InHandler
<1>4. TcpInv' BY DEF TakeJob, TcpInv
<1>5. QueueInv'
  <2>1. ToSet(jqueue') \subseteq ToSet(jqueue) /\ Distinct(jqueue')
    BY TakeJobFacts
  <2> QED BY <2>1 DEF TakeJob, QueueInv
<1>6. OriginInv'
  <2>1. cur'[w][1] \in accepted BY TakeJobFacts DEF QueueInv
  <2>2. \A v \in Workers : v # w => pc'[v] = pc[v] /\ cur'[v] = cur[v]
    BY DEF TakeJob, TypeOK
  <2> QED BY <2>1, <2>2 DEF TakeJob, OriginInv, Clnt
<1> QED BY <1>1, <1>2, <1>3, <1>4, <1>5, <1>6

-----------------------------------------------------------------------------
(* Layer 2: the reference counter.  It goes together with layer 1, since   *)
(* only its exactness keeps the decrement from going below zero.           *)

(* The sets that the counter counts are finite. *)
LEMMA FiniteRefs ==
  ASSUME Basic, NEW c \in Clients
  PROVE  /\ IsFiniteSet(Queued(c)) /\ Cardinality(Queued(c)) \in Nat
         /\ IsFiniteSet(InHand(c)) /\ Cardinality(InHand(c)) \in Nat
<1>1. Queued(c) \subseteq Jobs
  BY LenProperties DEF Queued, ToSet, Basic, TypeOK
<1>2. IsFiniteSet(Jobs)
  <2>1. 1 \in Int /\ MaxEvents \in Int BY MaxEventsNat
  <2>2. IsFiniteSet(1 .. MaxEvents) BY <2>1, FS_Interval
  <2> QED BY <2>2, ClientsFinite, FS_Product DEF Jobs
<1>3. InHand(c) \subseteq Workers BY DEF InHand
<1> QED
  BY <1>1, <1>2, <1>3, WorkersFinite, FS_Subset, FS_CardinalityType

(* A worker that has not given its reference back keeps the counter up. *)
LEMMA RefPositive ==
  ASSUME Basic, RefCountExact, NEW w \in Workers, pc[w] \in HoldsRef
  PROVE  Clnt(w) \in Clients /\ ref_cnt[Clnt(w)] \in Nat \ {0}
<1>1. Clnt(w) \in Clients BY ClntType, Points
<1>2. w \in InHand(Clnt(w)) BY DEF InHand, Clnt
<1>3. Cardinality(InHand(Clnt(w))) # 0
  BY <1>1, <1>2, FiniteRefs, FS_EmptySet
<1> QED BY <1>1, <1>3, FiniteRefs DEF RefCountExact

(* Steps that leave all references where they are. *)
LEMMA RefsUnchanged ==
  ASSUME RefCountExact, UNCHANGED <<jqueue, ref_cnt>>,
         \A c \in Clients : InHand(c)' = InHand(c)
  PROVE  RefCountExact'
BY DEF RefCountExact, Queued

(* The append counts the new job. *)
LEMMA AddJobRef ==
  ASSUME Basic, RefCountExact, AddJob
  PROVE  RefCountExact'
<1> DEFINE j == <<tcp.clnt, events[tcp.clnt]>>
<1> SUFFICES ASSUME NEW c \in Clients
             PROVE  ref_cnt'[c] = Cardinality(Queued(c)')
                                    + Cardinality(InHand(c)')
  BY DEF RefCountExact
<1>1. InHand(c)' = InHand(c) BY DEF InHand, AddJob
<1>2. /\ ToSet(jqueue') = ToSet(jqueue) \cup {j} /\ j \notin ToSet(jqueue)
      /\ tcp.clnt \in Clients /\ j[1] = tcp.clnt
  BY AddJobFacts
<1>3. ref_cnt[c] = Cardinality(Queued(c)) + Cardinality(InHand(c))
  BY DEF RefCountExact
<1> HIDE DEF j
<1>4. CASE c = tcp.clnt
  <2>1. Queued(c)' = Queued(c) \cup {j} /\ j \notin Queued(c)
    BY <1>2, <1>4 DEF Queued
  <2>2. Cardinality(Queued(c)') = Cardinality(Queued(c)) + 1
    BY <2>1, FiniteRefs, FS_AddElement
  <2>3. ref_cnt'[c] = ref_cnt[c] + 1 BY <1>4 DEF AddJob, Basic, TypeOK
  <2> QED BY <1>1, <1>3, <2>2, <2>3, FiniteRefs
<1>5. CASE c # tcp.clnt
  <2>1. Queued(c)' = Queued(c) BY <1>2, <1>5 DEF Queued
  <2>2. ref_cnt'[c] = ref_cnt[c] BY <1>5 DEF AddJob, Basic, TypeOK
  <2> QED BY <1>1, <1>3, <2>1, <2>2
<1> QED BY <1>4, <1>5

(* Taking a job moves a reference from the queue to a worker. *)
LEMMA TakeJobRef ==
  ASSUME Basic, RefCountExact, NEW w \in Workers, TakeJob(w)
  PROVE  RefCountExact'
<1> DEFINE j == cur'[w]
<1> SUFFICES ASSUME NEW c \in Clients
             PROVE  ref_cnt'[c] = Cardinality(Queued(c)')
                                    + Cardinality(InHand(c)')
  BY DEF RefCountExact
<1>1. /\ ToSet(jqueue') = ToSet(jqueue) \ {j} /\ j \in ToSet(jqueue)
      /\ j[1] \in Clients
  BY TakeJobFacts
<1>2. /\ pc[w] \notin HoldsRef /\ pc'[w] \in HoldsRef
      /\ \A v \in Workers : v # w => pc'[v] = pc[v] /\ cur'[v] = cur[v]
      /\ ref_cnt' = ref_cnt
  BY DEF TakeJob, Goto, Basic, TypeOK, HoldsRef, InHandler
<1>3. ref_cnt[c] = Cardinality(Queued(c)) + Cardinality(InHand(c))
  BY DEF RefCountExact
<1> HIDE DEF j
<1>4. CASE c = j[1]
  <2>1. /\ Queued(c)' = Queued(c) \ {j} /\ j \in Queued(c)
        /\ InHand(c)' = InHand(c) \cup {w} /\ w \notin InHand(c)
    BY <1>1, <1>2, <1>4 DEF Queued, InHand, j
  <2>2. Cardinality(Queued(c)') = Cardinality(Queued(c)) - 1
    BY <2>1, FiniteRefs, FS_RemoveElement
  <2>3. Cardinality(InHand(c)') = Cardinality(InHand(c)) + 1
    BY <2>1, FiniteRefs, FS_AddElement
  <2> QED BY <1>2, <1>3, <2>2, <2>3, FiniteRefs
<1>5. CASE c # j[1]
  <2>1. Queued(c)' = Queued(c) /\ InHand(c)' = InHand(c)
    BY <1>1, <1>2, <1>5 DEF Queued, InHand, j
  <2> QED BY <1>2, <1>3, <2>1
<1> QED BY <1>4, <1>5

(* client_decref gives back one reference, and there is one to give back. *)
LEMMA DecRefInv ==
  ASSUME Basic, RefCountExact, NEW w \in Workers, DecRef(w)
  PROVE  Basic' /\ RefCountExact'
<1>1. pc[w] = "decref" /\ pc[w] \in HoldsRef
  BY DEF DecRef, Goto, HoldsRef
<1>2. Clnt(w) \in Clients /\ ref_cnt[Clnt(w)] \in Nat \ {0}
  BY <1>1, RefPositive
<1>3. ref_cnt' \in [Clients -> Nat]
  <2>1. /\ ref_cnt \in [Clients -> Nat]
        /\ ref_cnt' = [ref_cnt EXCEPT ![Clnt(w)] = @ - 1]
    BY DEF DecRef, Basic, TypeOK
  <2> QED BY <1>2, <2>1
<1>4. pc' = [pc EXCEPT ![w] = "seen"]
  BY <1>2 DEF DecRef, Goto
<1>5. Basic'
  <2> USE <1>1, <1>3, <1>4 DEF DecRef, Basic, queueVars, tcpVars
  <2>1. TypeOK' BY DEF TypeOK, WorkerPc
  <2>2. MutexInv' BY DEF MutexInv, TypeOK, InMutex
  <2>3. HandInv' /\ OriginInv'
    BY DEF HandInv, OriginInv, TypeOK, Clnt, HasJob, HoldsRef, InHandler
  <2>4. TcpInv' /\ QueueInv' BY DEF TcpInv, QueueInv
  <2> QED BY <2>1, <2>2, <2>3, <2>4
<1>6. ASSUME NEW c \in Clients
      PROVE  ref_cnt'[c] = Cardinality(Queued(c)') + Cardinality(InHand(c)')
  <2>1. Queued(c)' = Queued(c) BY DEF Queued, DecRef, queueVars
  <2>2. ref_cnt[c] = Cardinality(Queued(c)) + Cardinality(InHand(c))
    BY DEF RefCountExact
  <2>3. CASE c = Clnt(w)
    <3>1. InHand(c)' = InHand(c) \ {w} /\ w \in InHand(c)
      BY <1>1, <1>4, <2>3
      DEF InHand, Clnt, DecRef, Basic, TypeOK, HoldsRef, InHandler
    <3>2. Cardinality(InHand(c)') = Cardinality(InHand(c)) - 1
      BY <3>1, FiniteRefs, FS_RemoveElement
    <3>3. ref_cnt'[c] = ref_cnt[c] - 1 BY <2>3 DEF DecRef, Basic, TypeOK
    <3> QED BY <2>1, <2>2, <3>2, <3>3, FiniteRefs
  <2>4. CASE c # Clnt(w)
    <3>1. InHand(c)' = InHand(c)
      BY <1>1, <1>4, <2>4
      DEF InHand, Clnt, DecRef, Basic, TypeOK, HoldsRef, InHandler
    <3>2. ref_cnt'[c] = ref_cnt[c] BY <2>4 DEF DecRef, Basic, TypeOK
    <3> QED BY <2>1, <2>2, <3>1, <3>2
  <2> QED BY <2>3, <2>4
<1> QED BY <1>5, <1>6 DEF RefCountExact

Inv1 == Basic /\ RefCountExact

(* Moves that change neither a reference nor who holds one. *)
LEMMA SameHands ==
  ASSUME NEW w \in Workers, pc \in [Workers -> WorkerPc], NEW to,
         pc' = [pc EXCEPT ![w] = to],
         cur' = cur \/ (pc[w] \notin HoldsRef /\ to \notin HoldsRef
                          /\ \A v \in Workers : v # w => cur'[v] = cur[v]),
         pc[w] \in HoldsRef <=> to \in HoldsRef,
         NEW c \in Clients
  PROVE  InHand(c)' = InHand(c)
BY DEF InHand

(* Every step of the system preserves layers 1 and 2. *)
LEMMA NextInv1 == Inv1 /\ [Next]_vars => Inv1'
<1> SUFFICES ASSUME Inv1, [Next]_vars PROVE Inv1' OBVIOUS
<1> USE DEF Inv1
<1>1. CASE \/ \E c \in Clients : Accept(c) \/ EventFires(c)
           \/ ServerStop \/ SignalJob \/ TcpStops
  <2>1. Basic' BY <1>1, EnvironmentBasic
  <2>2. UNCHANGED <<jqueue, ref_cnt, cur>>
    BY <1>1 DEF Accept, ServerStop, EventFires, SignalJob, TcpStops,
       clientVars, queueVars
  <2>3. \A k \in Clients : InHand(k)' = InHand(k)
    BY <1>1, <2>2 DEF Accept, ServerStop, EventFires, SignalJob, TcpStops,
       Waiting, InHand, HoldsRef, InHandler, Basic, TypeOK
  <2> QED BY <2>1, <2>2, <2>3, RefsUnchanged
<1>2. CASE AddJob BY <1>2, AddJobBasic, AddJobRef
<1>3. ASSUME NEW w \in Workers, TakeJob(w) PROVE Inv1'
  BY <1>3, TakeJobBasic, TakeJobRef
<1>4. ASSUME NEW w \in Workers, DecRef(w) PROVE Inv1' BY <1>4, DecRefInv
<1>5. ASSUME NEW w \in Workers,
             LockMutex(w) \/ WorkerExits(w) \/ StartScan(w) \/ SkipJob(w)
               \/ WaitForJob(w)
      PROVE  Inv1'
  <2>1. Basic' BY <1>5, MutexStepBasic
  <2>2. UNCHANGED <<jqueue, ref_cnt, cur>>
    BY <1>5 DEF LockMutex, WorkerExits, StartScan, SkipJob, WaitForJob,
       clientVars, queueVars
  <2>3. \A k \in Clients : InHand(k)' = InHand(k)
    BY <1>5, <2>2 DEF LockMutex, WorkerExits, StartScan, SkipJob,
       WaitForJob, Goto, InHand, HoldsRef, InHandler, Basic, TypeOK
  <2> QED BY <2>1, <2>2, <2>3, RefsUnchanged
<1>6. ASSUME NEW w \in Workers,
             CheckDeleted(w) \/ HandlerReturns(w) \/ HandlerDeletes(w)
               \/ Disarm(w) \/ HandlerProbes(w) \/ UnlockClient(w)
               \/ SeesDeleted(w) \/ ProbeRef(w) \/ FreeClient(w)
               \/ FreeJob(w) \/ SpuriousWakeup(w)
      PROVE  Inv1'
  <2>1. Basic' BY <1>6, PlainStepBasic
  <2>2. UNCHANGED <<jqueue, ref_cnt>>
    BY <1>6 DEF CheckDeleted, HandlerReturns, HandlerDeletes, Disarm,
       HandlerProbes, UnlockClient, SeesDeleted, ProbeRef, FreeClient,
       FreeJob, SpuriousWakeup, clientVars, queueVars
  <2>3. PICK to : /\ pc' = [pc EXCEPT ![w] = to]
                  /\ pc[w] \in HoldsRef <=> to \in HoldsRef
                  /\ cur' = cur \/ (pc[w] = "free_job" /\ to = "lock")
    BY <1>6 DEF CheckDeleted, HandlerReturns, HandlerDeletes, Disarm,
       HandlerProbes, UnlockClient, SeesDeleted, ProbeRef, FreeClient,
       FreeJob, SpuriousWakeup, Goto, HoldsRef, InHandler
  <2>4. cur' = cur \/ \A v \in Workers : v # w => cur'[v] = cur[v]
    BY <1>6 DEF CheckDeleted, HandlerReturns, HandlerDeletes, Disarm,
       HandlerProbes, UnlockClient, SeesDeleted, ProbeRef, FreeClient,
       FreeJob, SpuriousWakeup, Basic, TypeOK
  <2>5. \A k \in Clients : InHand(k)' = InHand(k)
    BY <2>3, <2>4, SameHands DEF Basic, TypeOK, HoldsRef, InHandler
  <2> QED BY <2>1, <2>2, <2>5, RefsUnchanged
<1>7. CASE UNCHANGED vars
  <2> USE <1>7 DEF vars, Basic
  <2>1. TypeOK' /\ MutexInv' BY DEF TypeOK, MutexInv
  <2>2. HandInv' /\ TcpInv' BY DEF HandInv, TcpInv
  <2>3. QueueInv' /\ OriginInv' BY DEF QueueInv, OriginInv, Clnt
  <2>4. RefCountExact' BY DEF RefCountExact, Queued, InHand
  <2> QED BY <2>1, <2>2, <2>3, <2>4
<1> QED
  BY <1>1, <1>2, <1>3, <1>4, <1>5, <1>6, <1>7
  DEF Next, Serve, Worker

(* Layers 1 and 2 hold in every reachable state. *)
LEMMA Inv1Holds == Spec => []Inv1
<1>1. Init => RefCountExact
  <2> SUFFICES ASSUME Init, NEW c \in Clients
               PROVE  ref_cnt[c] = Cardinality(Queued(c))
                                     + Cardinality(InHand(c))
    BY DEF RefCountExact
  <2>1. Queued(c) = {} /\ InHand(c) = {} /\ ref_cnt[c] = 0
    BY DEF Init, Queued, ToSet, InHand, HoldsRef, InHandler
  <2> QED BY <2>1, FS_EmptySet
<1> QED BY <1>1, InitBasic, NextInv1, PTL DEF Spec, Inv1

-----------------------------------------------------------------------------
(* Layer 3: the lock flag of a client.                                     *)

LockInv ==
  /\ \A w \in Workers : pc[w] \in InHandler => locked[Clnt(w)] = 1
  /\ \A c \in Clients :
       locked[c] = 1 => \E w \in Workers : pc[w] \in InHandler /\ Clnt(w) = c
  /\ MutualExclusion

(* Who is inside a handler does not change. *)
SameHandlers ==
  /\ locked' = locked
  /\ \A w \in Workers :
       /\ pc'[w] \in InHandler <=> pc[w] \in InHandler
       /\ pc[w] \in InHandler => cur'[w] = cur[w]

(* Such a step preserves the layer. *)
LEMMA SameHandlersLock == LockInv /\ SameHandlers => LockInv'
BY DEF LockInv, SameHandlers, MutualExclusion, Clnt

(* Most steps are of that kind. *)
LEMMA OtherStepsSameHandlers ==
  ASSUME Inv1, Next,
         \A w \in Workers : ~TakeJob(w) /\ ~UnlockClient(w)
  PROVE  SameHandlers
<1> USE DEF clientVars, queueVars, tcpVars, InHandler, SameHandlers
<1>0. pc \in [Workers -> WorkerPc] /\ cur \in [Workers -> Jobs \cup {NoJob}]
  BY DEF Inv1, Basic, TypeOK
<1>1. CASE \/ \E c \in Clients : Accept(c) \/ EventFires(c)
           \/ AddJob \/ TcpStops \/ ServerStop
  BY <1>1 DEF Accept, EventFires, AddJob, TcpStops, ServerStop
<1>2. CASE SignalJob BY <1>0, <1>2 DEF SignalJob, Waiting
<1>3. ASSUME NEW w \in Workers,
             LockMutex(w) \/ WorkerExits(w) \/ StartScan(w) \/ SkipJob(w)
               \/ WaitForJob(w) \/ SpuriousWakeup(w)
      PROVE  SameHandlers
  BY <1>0, <1>3 DEF LockMutex, WorkerExits, StartScan, SkipJob, WaitForJob,
     SpuriousWakeup, Goto
<1>4. ASSUME NEW w \in Workers,
             CheckDeleted(w) \/ HandlerReturns(w) \/ HandlerDeletes(w)
               \/ Disarm(w) \/ HandlerProbes(w)
      PROVE  SameHandlers
  BY <1>0, <1>4 DEF CheckDeleted, HandlerReturns, HandlerDeletes, Disarm,
     HandlerProbes, Goto
<1>5. ASSUME NEW w \in Workers,
             DecRef(w) \/ SeesDeleted(w) \/ ProbeRef(w) \/ FreeClient(w)
               \/ FreeJob(w)
      PROVE  SameHandlers
  BY <1>0, <1>5 DEF DecRef, SeesDeleted, ProbeRef, FreeClient, FreeJob, Goto
<1> HIDE DEF SameHandlers
<1> QED BY <1>1, <1>2, <1>3, <1>4, <1>5 DEF Next, Serve, Worker

(* Every step preserves the layer. *)
LEMMA NextLock == Inv1 /\ LockInv /\ [Next]_vars => LockInv'
<1> SUFFICES ASSUME Inv1, LockInv, [Next]_vars PROVE LockInv' OBVIOUS
<1>0. /\ pc \in [Workers -> WorkerPc] /\ locked \in [Clients -> {0, 1}]
      /\ cur \in [Workers -> Jobs \cup {NoJob}]
  BY DEF Inv1, Basic, TypeOK
<1>1. ASSUME NEW w \in Workers, TakeJob(w) PROVE LockInv'
  <2> DEFINE c == cur'[w][1]
  <2>1. /\ c \in Clients /\ locked[c] = 0
        /\ locked' = [locked EXCEPT ![c] = 1]
    BY <1>1, TakeJobFacts DEF TakeJob, Inv1
  <2>2. /\ pc'[w] \in InHandler /\ pc[w] \notin InHandler
        /\ \A v \in Workers : v # w => pc'[v] = pc[v] /\ cur'[v] = cur[v]
    BY <1>0, <1>1 DEF TakeJob, Goto, InHandler
  <2>3. \A v \in Workers : pc[v] \in InHandler => Clnt(v) \in Clients
    BY ClntType, Points DEF Inv1
  <2>4. \A v \in Workers : pc[v] \in InHandler => Clnt(v) # c
    BY <2>1 DEF LockInv
  <2>5. \A v \in Workers :
          (pc'[v] \in InHandler /\ v # w) =>
             pc[v] \in InHandler /\ Clnt(v)' = Clnt(v)
    BY <2>2 DEF Clnt
  <2>6. Clnt(w)' = c BY DEF Clnt
  <2> HIDE DEF c
  <2>7. MutualExclusion'
    BY <2>2, <2>4, <2>5, <2>6 DEF LockInv, MutualExclusion
  <2>8. \A v \in Workers : pc'[v] \in InHandler => locked'[Clnt(v)'] = 1
    BY <1>0, <2>1, <2>3, <2>5, <2>6 DEF LockInv
  <2>9. ASSUME NEW k \in Clients, locked'[k] = 1
        PROVE  \E v \in Workers : pc'[v] \in InHandler /\ Clnt(v)' = k
    <3>1. CASE k = c BY <3>1, <2>2, <2>6
    <3>2. CASE k # c
      <4>1. PICK v \in Workers : pc[v] \in InHandler /\ Clnt(v) = k
        BY <1>0, <2>1, <2>9, <3>2 DEF LockInv
      <4>2. v # w BY <4>1, <2>2
      <4> QED BY <4>1, <4>2, <2>2 DEF Clnt
    <3> QED BY <3>1, <3>2
  <2> QED BY <2>7, <2>8, <2>9 DEF LockInv
<1>2. ASSUME NEW w \in Workers, UnlockClient(w) PROVE LockInv'
  <2> DEFINE c == Clnt(w)
  <2>1. /\ pc[w] \in InHandler /\ pc'[w] \notin InHandler
        /\ \A v \in Workers : v # w => pc'[v] = pc[v]
        /\ cur' = cur /\ locked' = [locked EXCEPT ![c] = 0]
    BY <1>0, <1>2 DEF UnlockClient, Goto, InHandler
  <2>2. \A v \in Workers : pc[v] \in InHandler => Clnt(v) \in Clients
    BY ClntType, Points DEF Inv1
  <2>3. \A v \in Workers : pc[v] \in InHandler /\ v # w => Clnt(v) # c
    BY <2>1 DEF LockInv, MutualExclusion
  <2>4. \A v \in Workers : Clnt(v)' = Clnt(v) BY <2>1 DEF Clnt
  <2> HIDE DEF c
  <2>5. MutualExclusion'
    BY <2>1, <2>4 DEF LockInv, MutualExclusion
  <2>6. \A v \in Workers : pc'[v] \in InHandler => locked'[Clnt(v)'] = 1
    BY <1>0, <2>1, <2>2, <2>3, <2>4 DEF LockInv
  <2>7. ASSUME NEW k \in Clients, locked'[k] = 1
        PROVE  \E v \in Workers : pc'[v] \in InHandler /\ Clnt(v)' = k
    <3>1. k # c /\ locked[k] = 1 BY <1>0, <2>1, <2>7
    <3>2. PICK v \in Workers : pc[v] \in InHandler /\ Clnt(v) = k
      BY <3>1 DEF LockInv
    <3>3. v # w BY <3>1, <3>2 DEF c
    <3> QED BY <2>1, <2>4, <3>2, <3>3
  <2> QED BY <2>5, <2>6, <2>7 DEF LockInv
<1>3. CASE Next /\ \A w \in Workers : ~TakeJob(w) /\ ~UnlockClient(w)
  BY <1>3, OtherStepsSameHandlers, SameHandlersLock
<1>4. CASE UNCHANGED vars
  BY <1>4, SameHandlersLock DEF vars, SameHandlers
<1> QED BY <1>1, <1>2, <1>3, <1>4

(* Layer 3 holds in every reachable state. *)
LEMMA LockHolds == Spec => []LockInv
<1>1. Init => LockInv
  BY DEF Init, LockInv, MutualExclusion, InHandler
<1> QED BY <1>1, Inv1Holds, NextLock, PTL DEF Spec

-----------------------------------------------------------------------------
(* Layer 4: when the memory of a client goes.                              *)

(* A deleted client is silent unless its deletion is still under way. *)
SilentInv ==
  \A c \in Clients :
    deleted[c] = 1 =>
      \/ \E w \in Workers : pc[w] = "disarm" /\ Clnt(w) = c
      \/ c \notin armed /\ tcp.clnt # c

(* Memory goes only after the mark is set and at a counter of zero. *)
FreeInv ==
  /\ \A w \in Workers :
       /\ pc[w] \in {"probe", "free"} => deleted[Clnt(w)] = 1
       /\ pc[w] = "free" => ref_cnt[Clnt(w)] = 0
  /\ \A c \in Clients : freed[c] > 0 => deleted[c] = 1 /\ ref_cnt[c] = 0

LifeInv == SilentInv /\ FreeInv

(* A deleted client without references is silent: nobody can add a job. *)
LEMMA UnreferencedIsSilent ==
  ASSUME Inv1, LifeInv, NEW c \in Clients, deleted[c] = 1, ref_cnt[c] = 0
  PROVE  c \notin armed /\ tcp.clnt # c
<1>1. ASSUME NEW w \in Workers, pc[w] = "disarm", Clnt(w) = c PROVE FALSE
  BY <1>1, RefPositive DEF Inv1, HoldsRef, InHandler
<1> QED BY <1>1 DEF LifeInv, SilentInv

(* What the steps of this layer may rely on. *)
Typed ==
  /\ pc \in [Workers -> WorkerPc]
  /\ cur \in [Workers -> Jobs \cup {NoJob}]
  /\ deleted \in [Clients -> {0, 1}]
  /\ ref_cnt \in [Clients -> Nat]
  /\ freed \in [Clients -> Nat]
  /\ \A w \in Workers : pc[w] \in HasJob => Clnt(w) \in Clients

(* Those facts come from layer 1. *)
LEMMA TypedHolds == Inv1 => Typed
BY ClntType DEF Inv1, Basic, TypeOK, Typed

(* Steps of the main thread and the tcp thread. *)
LEMMA EnvironmentLife ==
  ASSUME Inv1, LifeInv,
         \/ \E c \in Clients : Accept(c) \/ EventFires(c)
         \/ ServerStop \/ SignalJob \/ TcpStops \/ AddJob
  PROVE  LifeInv'
<1> USE TypedHolds DEF clientVars, queueVars, tcpVars
<1>1. ASSUME NEW c \in Clients, Accept(c) PROVE LifeInv'
  <2>1. deleted[c] # 1 BY <1>1 DEF Inv1, Basic, OriginInv, Accept
  <2>2. SilentInv' BY <1>1, <2>1 DEF LifeInv, SilentInv, Accept, Clnt
  <2>3. FreeInv' BY <1>1 DEF LifeInv, FreeInv, Accept, Clnt
  <2> QED BY <2>2, <2>3 DEF LifeInv
<1>2. ASSUME NEW c \in Clients, EventFires(c) PROVE LifeInv'
  <2>1. SilentInv' BY <1>2 DEF LifeInv, SilentInv, EventFires, Clnt
  <2>2. FreeInv' BY <1>2 DEF LifeInv, FreeInv, EventFires, Clnt
  <2> QED BY <2>1, <2>2 DEF LifeInv
<1>3. CASE ServerStop
  BY <1>3 DEF ServerStop, LifeInv, SilentInv, FreeInv, Clnt
<1>4. CASE SignalJob
  <2>1. \A w \in Workers :
          /\ pc'[w] = pc[w] \/ (pc[w] = "wait" /\ pc'[w] = "lock")
          /\ Clnt(w)' = Clnt(w)
    BY <1>4 DEF SignalJob, Waiting, Typed, Clnt
  <2>2. tcp'.clnt \notin Clients BY <1>4, SentinelsFresh DEF SignalJob
  <2>3. SilentInv'
    BY <1>4, <2>1, <2>2 DEF LifeInv, SilentInv, SignalJob
  <2>4. FreeInv' BY <1>4, <2>1 DEF LifeInv, FreeInv, SignalJob
  <2> QED BY <2>3, <2>4 DEF LifeInv
<1>5. CASE TcpStops
  <2>1. tcp'.clnt = tcp.clnt BY <1>5 DEF TcpStops, Inv1, Basic, TypeOK
  <2> QED BY <1>5, <2>1 DEF TcpStops, LifeInv, SilentInv, FreeInv, Clnt
<1>6. CASE AddJob
  <2>1. tcp'.clnt = tcp.clnt BY <1>6 DEF AddJob, Inv1, Basic, TypeOK
  <2>2. SilentInv' BY <1>6, <2>1 DEF AddJob, LifeInv, SilentInv, Clnt
  <2>3. \A c \in Clients : deleted[c] = 1 /\ ref_cnt[c] = 0 => tcp.clnt # c
    BY UnreferencedIsSilent
  <2>4. \A c \in Clients :
          deleted[c] = 1 /\ ref_cnt[c] = 0 => ref_cnt'[c] = 0
    BY <1>6, <2>3 DEF AddJob, Typed
  <2>5. FreeInv'
    BY <1>6, <2>4 DEF AddJob, LifeInv, FreeInv, Clnt, Typed, HasJob
  <2> QED BY <2>2, <2>5 DEF LifeInv
<1> QED BY <1>1, <1>2, <1>3, <1>4, <1>5, <1>6

(* Steps of a worker that leave marks, counters and memory alone and do    *)
(* not bring it closer to freeing.                                         *)
LEMMA NeutralLife ==
  ASSUME Inv1, LifeInv, NEW w \in Workers,
         \A v \in Workers : v # w => pc'[v] = pc[v] /\ cur'[v] = cur[v],
         UNCHANGED <<deleted, ref_cnt, freed, armed, tcp>>,
         pc[w] # "disarm", pc'[w] \notin {"disarm", "probe", "free"}
  PROVE  LifeInv'
<1>1. \A v \in Workers : v # w => pc'[v] = pc[v] /\ Clnt(v)' = Clnt(v)
  BY DEF Clnt
<1>2. SilentInv' BY <1>1 DEF LifeInv, SilentInv
<1>3. FreeInv' BY <1>1 DEF LifeInv, FreeInv
<1> QED BY <1>2, <1>3 DEF LifeInv

(* The steps of client_delete and client_decref. *)
LEMMA DeletionLife ==
  ASSUME Inv1, LifeInv, NEW w \in Workers,
         \/ HandlerDeletes(w) \/ Disarm(w) \/ HandlerProbes(w) \/ DecRef(w)
         \/ SeesDeleted(w) \/ ProbeRef(w) \/ FreeClient(w)
  PROVE  LifeInv'
<1> DEFINE c == Clnt(w)
<1>0. /\ Typed /\ c \in Clients
      /\ \A v \in Workers : v # w => pc'[v] = pc[v]
      /\ \A v \in Workers : Clnt(v)' = Clnt(v)
  BY TypedHolds DEF Typed, HandlerDeletes, Disarm, HandlerProbes, DecRef,
     SeesDeleted, ProbeRef, FreeClient, Goto, Clnt, HasJob, HoldsRef,
     InHandler
<1>01. pc[w] \in HoldsRef => ref_cnt[c] # 0
  BY RefPositive DEF Inv1
<1> HIDE DEF c
<1>1. CASE HandlerDeletes(w)
  <2>1. /\ deleted' = [deleted EXCEPT ![c] = 1] /\ pc[w] = "handle"
        /\ pc'[w] = IF deleted[c] = 0 THEN "disarm" ELSE "probe_h"
        /\ UNCHANGED <<ref_cnt, freed, armed, tcp>>
    BY <1>0, <1>1 DEF HandlerDeletes, Goto, Typed, c, tcpVars
  <2>2. SilentInv'
    <3> SUFFICES ASSUME NEW k \in Clients, deleted'[k] = 1
                 PROVE  \/ \E v \in Workers : pc'[v] = "disarm" /\ Clnt(v)' = k
                        \/ k \notin armed' /\ tcp'.clnt # k
      BY DEF SilentInv
    <3>1. CASE k = c /\ deleted[c] = 0 BY <1>0, <2>1, <3>1 DEF c
    <3>2. CASE deleted[k] = 1
      BY <1>0, <2>1, <3>2 DEF LifeInv, SilentInv
    <3> QED BY <1>0, <2>1, <3>1, <3>2 DEF Typed
  <2>3. FreeInv' BY <1>0, <2>1 DEF LifeInv, FreeInv, Typed, HasJob
  <2> QED BY <2>2, <2>3 DEF LifeInv
<1>2. CASE Disarm(w)
  <2>1. /\ armed' = armed \ {c} /\ tcp.clnt # c /\ pc'[w] = "probe_h"
        /\ UNCHANGED <<deleted, ref_cnt, freed, tcp>>
    BY <1>0, <1>2 DEF Disarm, Goto, Typed, c, tcpVars, clientVars
  <2>2. SilentInv' BY <1>0, <2>1 DEF LifeInv, SilentInv, c
  <2>3. FreeInv' BY <1>0, <2>1 DEF LifeInv, FreeInv
  <2> QED BY <2>2, <2>3 DEF LifeInv
<1>3. CASE HandlerProbes(w)
  <2>1. /\ pc[w] = "probe_h" /\ pc' = [pc EXCEPT ![w] = "unlock"]
        /\ UNCHANGED <<deleted, ref_cnt, armed, tcp, cur>>
    BY <1>3 DEF HandlerProbes, Goto, tcpVars
  <2>2. freed' = freed
    BY <1>01, <1>3, <2>1 DEF HandlerProbes, HoldsRef, InHandler, c
  <2>3. /\ \A v \in Workers : v # w => pc'[v] = pc[v] /\ cur'[v] = cur[v]
        /\ pc'[w] = "unlock"
    BY <1>0, <2>1 DEF Typed
  <2> QED BY <2>1, <2>2, <2>3, NeutralLife
<1>4. CASE DecRef(w)
  <2>1. /\ ref_cnt' = [ref_cnt EXCEPT ![c] = @ - 1] /\ pc[w] = "decref"
        /\ pc'[w] \in {"seen", "free_job"}
        /\ UNCHANGED <<deleted, freed, armed, tcp>>
    BY <1>0, <1>4 DEF DecRef, Goto, Typed, c, tcpVars
  <2>2. ref_cnt[c] # 0 BY <1>01, <2>1 DEF HoldsRef
  <2>3. \A k \in Clients : ref_cnt[k] = 0 => ref_cnt'[k] = 0
    BY <1>0, <2>1, <2>2 DEF Typed
  <2>4. SilentInv' BY <1>0, <2>1 DEF LifeInv, SilentInv
  <2>5. FreeInv'
    BY <1>0, <2>1, <2>3 DEF LifeInv, FreeInv, Typed, HasJob
  <2> QED BY <2>4, <2>5 DEF LifeInv
<1>5. CASE SeesDeleted(w)
  <2>1. /\ pc[w] = "seen"
        /\ pc'[w] = IF deleted[c] = 1 THEN "probe" ELSE "free_job"
        /\ UNCHANGED <<deleted, ref_cnt, freed, armed, tcp>>
    BY <1>0, <1>5 DEF SeesDeleted, Goto, Typed, c, tcpVars, clientVars
  <2>2. SilentInv' BY <1>0, <2>1 DEF LifeInv, SilentInv
  <2>3. FreeInv' BY <1>0, <2>1 DEF LifeInv, FreeInv, c
  <2> QED BY <2>2, <2>3 DEF LifeInv
<1>6. CASE ProbeRef(w)
  <2>1. /\ pc[w] = "probe"
        /\ pc'[w] = IF ref_cnt[c] = 0 THEN "free" ELSE "free_job"
        /\ UNCHANGED <<deleted, ref_cnt, freed, armed, tcp>>
    BY <1>0, <1>6 DEF ProbeRef, Goto, Typed, c, tcpVars, clientVars
  <2>2. SilentInv' BY <1>0, <2>1 DEF LifeInv, SilentInv
  <2>3. FreeInv' BY <1>0, <2>1 DEF LifeInv, FreeInv, c
  <2> QED BY <2>2, <2>3 DEF LifeInv
<1>7. CASE FreeClient(w)
  <2>1. /\ pc[w] = "free" /\ pc'[w] = "free_job"
        /\ freed' = [freed EXCEPT ![c] = @ + 1]
        /\ UNCHANGED <<deleted, ref_cnt, armed, tcp>>
    BY <1>0, <1>7 DEF FreeClient, Goto, Typed, c, tcpVars
  <2>2. deleted[c] = 1 /\ ref_cnt[c] = 0
    BY <2>1 DEF LifeInv, FreeInv, c
  <2>3. SilentInv' BY <1>0, <2>1 DEF LifeInv, SilentInv
  <2>4. FreeInv' BY <1>0, <2>1, <2>2 DEF LifeInv, FreeInv, Typed
  <2> QED BY <2>3, <2>4 DEF LifeInv
<1> QED BY <1>1, <1>2, <1>3, <1>4, <1>5, <1>6, <1>7

(* Every step preserves the layer. *)
LEMMA NextLife == Inv1 /\ LifeInv /\ [Next]_vars => LifeInv'
<1> SUFFICES ASSUME Inv1, LifeInv, [Next]_vars PROVE LifeInv' OBVIOUS
<1>1. ASSUME NEW w \in Workers,
             LockMutex(w) \/ WorkerExits(w) \/ StartScan(w) \/ SkipJob(w)
               \/ WaitForJob(w) \/ SpuriousWakeup(w) \/ CheckDeleted(w)
               \/ HandlerReturns(w) \/ UnlockClient(w) \/ FreeJob(w)
               \/ TakeJob(w)
      PROVE  LifeInv'
  <2>0. pc \in [Workers -> WorkerPc] /\ cur \in [Workers -> Jobs \cup {NoJob}]
    BY TypedHolds DEF Typed
  <2>1. /\ \A v \in Workers : v # w => pc'[v] = pc[v] /\ cur'[v] = cur[v]
        /\ UNCHANGED <<deleted, ref_cnt, freed, armed, tcp>>
        /\ pc[w] # "disarm" /\ pc'[w] \notin {"disarm", "probe", "free"}
    <3> USE <2>0 DEF Goto, clientVars, tcpVars
    <3>1. CASE LockMutex(w) BY <3>1 DEF LockMutex
    <3>2. CASE WorkerExits(w) BY <3>2 DEF WorkerExits
    <3>3. CASE StartScan(w) BY <3>3 DEF StartScan
    <3>4. CASE SkipJob(w) BY <3>4 DEF SkipJob
    <3>5. CASE WaitForJob(w) BY <3>5 DEF WaitForJob
    <3>6. CASE SpuriousWakeup(w) BY <3>6 DEF SpuriousWakeup
    <3>7. CASE CheckDeleted(w) BY <3>7 DEF CheckDeleted
    <3>8. CASE HandlerReturns(w) BY <3>8 DEF HandlerReturns
    <3>9. CASE UnlockClient(w) BY <3>9 DEF UnlockClient
    <3>10. CASE FreeJob(w) BY <3>10 DEF FreeJob
    <3>11. CASE TakeJob(w) BY <3>11 DEF TakeJob
    <3> QED
      BY <1>1, <3>1, <3>2, <3>3, <3>4, <3>5, <3>6, <3>7, <3>8, <3>9,
         <3>10, <3>11
  <2> QED BY <2>1, NeutralLife
<1>2. CASE UNCHANGED vars
  BY <1>2 DEF vars, LifeInv, SilentInv, FreeInv, Clnt
<1> QED
  BY <1>1, <1>2, EnvironmentLife, DeletionLife DEF Next, Serve, Worker

(* Layer 4 holds in every reachable state. *)
LEMMA LifeHolds == Spec => []LifeInv
<1>1. Init => LifeInv BY DEF Init, LifeInv, SilentInv, FreeInv
<1> QED BY <1>1, Inv1Holds, NextLife, PTL DEF Spec

-----------------------------------------------------------------------------
(* Layer 5: what a handler finds.                                          *)

AttendInv ==
  /\ HandlerSeesLive
  /\ \A c \in accepted : deleted[c] = 0 => c \in armed
  /\ \A w \in Workers : pc[w] = "disarm" => deleted[Clnt(w)] = 1

(* Steps that bring no worker into a handler or to the release of the      *)
(* connection, mark no client and disarm none.                             *)
LEMMA NeutralAttend ==
  ASSUME AttendInv, deleted' = deleted,
         armed \subseteq armed', accepted' \ accepted \subseteq armed',
         \A v \in Workers : pc'[v] \in {"handle", "disarm"} =>
                            pc'[v] = pc[v] /\ cur'[v] = cur[v]
  PROVE  AttendInv'
BY DEF AttendInv, HandlerSeesLive, Clnt

(* Marking and disarming a client concern no other handler. *)
LEMMA DeletionAttend ==
  ASSUME Inv1, LockInv, AttendInv, NEW w \in Workers,
         CheckDeleted(w) \/ HandlerDeletes(w) \/ Disarm(w)
  PROVE  AttendInv'
<1>0. Typed BY TypedHolds
<1>1. /\ pc[w] \in InHandler /\ Clnt(w) \in Clients
      /\ UNCHANGED <<cur, accepted>>
      /\ \A v \in Workers : v # w => pc'[v] = pc[v]
  BY <1>0 DEF CheckDeleted, HandlerDeletes, Disarm, Goto, InHandler, HoldsRef,
     HasJob, Typed, tcpVars
<1>2. \A v \in Workers : Clnt(v)' = Clnt(v) BY <1>1 DEF Clnt
<1>3. \A v \in Workers :
        v # w /\ pc[v] \in {"handle", "disarm"} =>
          Clnt(v) # Clnt(w) /\ Clnt(v) \in Clients
  BY <1>0, <1>1 DEF LockInv, MutualExclusion, InHandler, HoldsRef, HasJob,
     Typed
<1>4. CASE CheckDeleted(w)
  <2>1. Clnt(w) \in accepted
    BY <1>1, Points DEF Inv1, Basic, OriginInv
  <2>2. /\ UNCHANGED <<deleted, armed>>
        /\ pc'[w] = IF deleted[Clnt(w)] = 1 THEN "unlock" ELSE "handle"
    BY <1>0, <1>4 DEF CheckDeleted, Goto, clientVars, Typed
  <2>3. deleted[Clnt(w)] \in {0, 1} BY <1>0, <1>1 DEF Typed
  <2>4. \A v \in Workers :
          pc'[v] \in {"handle", "disarm"} =>
            \/ v = w /\ pc'[v] = "handle" /\ deleted[Clnt(v)] = 0
            \/ pc'[v] = pc[v]
    BY <1>1, <2>2, <2>3
  <2>5. HandlerSeesLive'
    BY <1>2, <2>1, <2>2, <2>4 DEF AttendInv, HandlerSeesLive
  <2>6. \A v \in Workers : pc'[v] = "disarm" => deleted'[Clnt(v)'] = 1
    BY <1>2, <2>2, <2>4 DEF AttendInv
  <2> QED
    BY <1>1, <2>2, <2>5, <2>6 DEF AttendInv
<1>5. CASE HandlerDeletes(w)
  <2>1. /\ pc[w] = "handle" /\ armed' = armed
        /\ deleted' = [deleted EXCEPT ![Clnt(w)] = 1]
        /\ pc'[w] \in {"disarm", "probe_h"}
    BY <1>0, <1>5 DEF HandlerDeletes, Goto, Typed
  <2>2. \A c \in Clients :
          deleted'[c] = IF c = Clnt(w) THEN 1 ELSE deleted[c]
    BY <1>0, <2>1 DEF Typed
  <2>3. accepted \subseteq Clients BY DEF Inv1, Basic, TypeOK
  <2>4. \A v \in Workers :
          pc'[v] \in {"handle", "disarm"} =>
            \/ v = w /\ pc'[v] = "disarm"
            \/ /\ pc'[v] = pc[v] /\ Clnt(v) # Clnt(w)
               /\ Clnt(v) \in Clients
    BY <1>1, <1>3, <2>1
  <2>5. HandlerSeesLive'
    BY <1>2, <2>1, <2>2, <2>4 DEF AttendInv, HandlerSeesLive
  <2>6. \A c \in accepted' : deleted'[c] = 0 => c \in armed'
    BY <1>1, <2>1, <2>2, <2>3 DEF AttendInv
  <2>7. \A v \in Workers : pc'[v] = "disarm" => deleted'[Clnt(v)'] = 1
    BY <1>1, <1>2, <2>2, <2>4 DEF AttendInv
  <2> QED
    BY <2>5, <2>6, <2>7 DEF AttendInv
<1>6. CASE Disarm(w)
  <2>1. /\ pc[w] = "disarm" /\ pc'[w] = "probe_h"
        /\ deleted' = deleted /\ armed' = armed \ {Clnt(w)}
    BY <1>0, <1>6 DEF Disarm, Goto, clientVars, Typed
  <2>2. \A v \in Workers :
          pc'[v] \in {"handle", "disarm"} =>
            v # w /\ pc'[v] = pc[v] /\ Clnt(v) # Clnt(w)
    BY <1>1, <1>3, <2>1
  <2>3. HandlerSeesLive'
    BY <1>2, <2>1, <2>2 DEF AttendInv, HandlerSeesLive
  <2>4. \A c \in accepted' : deleted'[c] = 0 => c \in armed'
    BY <1>1, <2>1 DEF AttendInv
  <2>5. \A v \in Workers : pc'[v] = "disarm" => deleted'[Clnt(v)'] = 1
    BY <1>2, <2>1, <2>2 DEF AttendInv
  <2> QED
    BY <2>3, <2>4, <2>5 DEF AttendInv
<1> QED BY <1>4, <1>5, <1>6

(* Every step preserves the layer. *)
LEMMA NextAttend == Inv1 /\ LockInv /\ AttendInv /\ [Next]_vars => AttendInv'
<1> SUFFICES ASSUME Inv1, LockInv, AttendInv, [Next]_vars PROVE AttendInv'
  OBVIOUS
<1>0. Typed BY TypedHolds
<1> DEFINE Neutral ==
      /\ deleted' = deleted
      /\ armed \subseteq armed' /\ accepted' \ accepted \subseteq armed'
      /\ \A v \in Workers : pc'[v] \in {"handle", "disarm"} =>
                             pc'[v] = pc[v] /\ cur'[v] = cur[v]
<1> USE DEF clientVars, tcpVars, Typed
<1>1. CASE \/ \E c \in Clients : Accept(c) \/ EventFires(c)
           \/ AddJob \/ TcpStops \/ ServerStop \/ UNCHANGED vars
  <2>1. Neutral
    BY <1>1 DEF Accept, EventFires, AddJob, TcpStops, ServerStop, vars
  <2> QED BY <2>1, NeutralAttend
<1>2. CASE SignalJob
  <2>1. Neutral BY <1>0, <1>2 DEF SignalJob, Waiting
  <2> QED BY <2>1, NeutralAttend
<1>3. ASSUME NEW w \in Workers,
             LockMutex(w) \/ WorkerExits(w) \/ StartScan(w) \/ SkipJob(w)
               \/ WaitForJob(w) \/ SpuriousWakeup(w) \/ TakeJob(w)
      PROVE  AttendInv'
  <2>1. Neutral
    BY <1>0, <1>3 DEF LockMutex, WorkerExits, StartScan, SkipJob, WaitForJob,
       SpuriousWakeup, TakeJob, Goto
  <2> QED BY <2>1, NeutralAttend
<1>4. ASSUME NEW w \in Workers,
             HandlerReturns(w) \/ HandlerProbes(w) \/ UnlockClient(w)
               \/ DecRef(w) \/ SeesDeleted(w) \/ ProbeRef(w)
               \/ FreeClient(w) \/ FreeJob(w)
      PROVE  AttendInv'
  <2>1. Neutral
    BY <1>0, <1>4 DEF HandlerReturns, HandlerProbes, UnlockClient, DecRef,
       SeesDeleted, ProbeRef, FreeClient, FreeJob, Goto
  <2> QED BY <2>1, NeutralAttend
<1> QED
  BY <1>1, <1>2, <1>3, <1>4, DeletionAttend DEF Next, Serve, Worker

(* Layer 5 holds in every reachable state. *)
LEMMA AttendHolds == Spec => []AttendInv
<1>1. Init => AttendInv BY DEF Init, AttendInv, HandlerSeesLive
<1> QED BY <1>1, Inv1Holds, LockHolds, NextAttend, PTL DEF Spec

-----------------------------------------------------------------------------
(* Layer 6: wakeups.                                                       *)

(* A worker that has skipped a job is not the only one awake: the job's    *)
(* client is locked by somebody, who cannot fall asleep without the mutex. *)
ScanInv ==
  \A w \in Workers :
    pc[w] = "scan" /\ pos[w] > 1 =>
      \E v \in Workers : v # w /\ pc[v] # "wait"

WakeInv == ScanInv /\ NoLostWakeup

(* Steps after which nobody sleeps who did not sleep before. *)
LEMMA NobodyFallsAsleep ==
  ASSUME WakeInv,
         \A v \in Workers : pc'[v] = "wait" => pc[v] = "wait",
         \A v \in Workers :
           pc'[v] = "scan" /\ pos'[v] > 1 => pc[v] = "scan" /\ pos[v] > 1,
         (\A v \in Workers : pc'[v] = "wait")
           => UNCHANGED jqueue /\ (tcp.pc = "signal" => tcp'.pc = "signal")
  PROVE  WakeInv'
<1>1. ScanInv' BY DEF WakeInv, ScanInv
<1>2. NoLostWakeup' BY DEF WakeInv, NoLostWakeup
<1> QED BY <1>1, <1>2 DEF WakeInv

(* Every step preserves the layer. *)
LEMMA NextWake == Inv1 /\ LockInv /\ WakeInv /\ [Next]_vars => WakeInv'
<1> SUFFICES ASSUME Inv1, LockInv, WakeInv, [Next]_vars PROVE WakeInv'
  OBVIOUS
<1>0. /\ pc \in [Workers -> WorkerPc] /\ pos \in [Workers -> Nat \ {0}]
      /\ jqueue \in Seq(Jobs) /\ MutexInv
      /\ tcp \in [pc : {"idle", "add", "signal", "stopped"},
                  clnt : Clients \cup {NoClient}]
  BY DEF Inv1, Basic, TypeOK
<1>1. CASE \/ \E c \in Clients : Accept(c) \/ EventFires(c)
           \/ ServerStop \/ TcpStops
  BY <1>0, <1>1, NobodyFallsAsleep
  DEF Accept, EventFires, ServerStop, TcpStops, queueVars, tcpVars
<1>2. CASE AddJob
  <2>1. tcp'.pc = "signal" /\ UNCHANGED <<pc, pos>>
    BY <1>0, <1>2 DEF AddJob
  <2> QED BY <2>1 DEF WakeInv, ScanInv, NoLostWakeup
<1>3. CASE SignalJob
  <2>1. /\ \A v \in Workers :
             pc'[v] = pc[v] \/ (pc[v] = "wait" /\ pc'[v] = "lock")
        /\ pos' = pos
        /\ ~\A v \in Workers : pc'[v] = "wait"
    BY <1>0, <1>3, WorkersFinite DEF SignalJob, Waiting
  <2> QED BY <2>1, NobodyFallsAsleep
<1>4. ASSUME NEW w \in Workers, SkipJob(w) PROVE WakeInv'
  <2>1. pos[w] \in 1 .. Len(jqueue)
    BY <1>0, <1>4, LenProperties DEF SkipJob
  <2>2. jqueue[pos[w]][1] \in Clients
    BY <1>0, <2>1, ElementOfSeq DEF Jobs
  <2>3. PICK v \in Workers : pc[v] \in InHandler
    BY <1>4, <2>2 DEF SkipJob, LockInv
  <2>4. v # w /\ pc[v] # "wait" BY <1>4, <2>3 DEF SkipJob, InHandler
  <2>5. pc' = pc /\ pos' = [pos EXCEPT ![w] = @ + 1]
        /\ UNCHANGED <<jqueue, tcp>>
    BY <1>4 DEF SkipJob, queueVars, tcpVars
  <2>6. ScanInv' BY <1>0, <2>4, <2>5 DEF WakeInv, ScanInv
  <2>7. NoLostWakeup' BY <2>5 DEF WakeInv, NoLostWakeup
  <2> QED BY <2>6, <2>7 DEF WakeInv
<1>5. ASSUME NEW w \in Workers, WaitForJob(w) PROVE WakeInv'
  <2>1. /\ pc[w] = "scan" /\ pos[w] > Len(jqueue)
        /\ pc' = [pc EXCEPT ![w] = "wait"] /\ UNCHANGED <<pos, jqueue, tcp>>
    BY <1>5 DEF WaitForJob, Goto, tcpVars
  <2>2. \A v \in Workers : v # w => pc[v] # "scan"
    BY <1>0, <2>1 DEF MutexInv, InMutex
  <2>3. ScanInv' BY <1>0, <2>1, <2>2 DEF ScanInv
  <2>4. ASSUME \A v \in Workers : pc'[v] = "wait", jqueue # <<>>
        PROVE  FALSE
    <3>1. Len(jqueue) \in Nat \ {0} BY <1>0, <2>4, EmptySeq
    <3>2. pos[w] > 1 BY <1>0, <2>1, <3>1
    <3>3. PICK v \in Workers : v # w /\ pc[v] # "wait"
      BY <2>1, <3>2 DEF WakeInv, ScanInv
    <3> QED BY <1>0, <2>1, <2>4, <3>3
  <2>5. NoLostWakeup' BY <2>1, <2>4 DEF NoLostWakeup
  <2> QED BY <2>3, <2>5 DEF WakeInv
<1>6. ASSUME NEW w \in Workers,
             LockMutex(w) \/ WorkerExits(w) \/ StartScan(w) \/ TakeJob(w)
               \/ SpuriousWakeup(w) \/ CheckDeleted(w) \/ HandlerReturns(w)
               \/ HandlerDeletes(w) \/ Disarm(w) \/ HandlerProbes(w)
               \/ UnlockClient(w) \/ DecRef(w) \/ SeesDeleted(w)
               \/ ProbeRef(w) \/ FreeClient(w) \/ FreeJob(w)
      PROVE  WakeInv'
  <2>1. PICK to : /\ pc' = [pc EXCEPT ![w] = to] /\ to # "wait"
                  /\ to = "scan" => pos' = [pos EXCEPT ![w] = 1]
                  /\ to # "scan" => pos' = pos
    BY <1>6 DEF LockMutex, WorkerExits, StartScan, TakeJob, SpuriousWakeup,
       CheckDeleted, HandlerReturns, HandlerDeletes, Disarm, HandlerProbes,
       UnlockClient, DecRef, SeesDeleted, ProbeRef, FreeClient, FreeJob,
       Goto
  <2>2. pc'[w] # "wait" /\ \A v \in Workers : v # w => pc'[v] = pc[v]
    BY <1>0, <2>1
  <2>3. \A v \in Workers :
          pc'[v] = "scan" /\ pos'[v] > 1 => pc[v] = "scan" /\ pos[v] > 1
    BY <1>0, <2>1
  <2> QED BY <2>2, <2>3, NobodyFallsAsleep
<1>7. CASE UNCHANGED vars
  BY <1>7 DEF vars, WakeInv, ScanInv, NoLostWakeup
<1> QED
  BY <1>1, <1>2, <1>3, <1>4, <1>5, <1>6, <1>7 DEF Next, Serve, Worker

(* Layer 6 holds in every reachable state. *)
LEMMA WakeHolds == Spec => []WakeInv
<1>1. Init => WakeInv
  BY WorkersFinite DEF Init, WakeInv, ScanInv, NoLostWakeup
<1> QED BY <1>1, Inv1Holds, LockHolds, NextWake, PTL DEF Spec

-----------------------------------------------------------------------------
(* Every variable keeps its type; the counters never go below zero. *)
THEOREM TypeCorrect == Spec => []TypeOK
<1>1. Inv1 => TypeOK BY DEF Inv1, Basic
<1> QED BY <1>1, Inv1Holds, PTL

(* Handlers of one client never overlap. *)
THEOREM MutualExclusionHolds == Spec => []MutualExclusion
<1>1. LockInv => MutualExclusion BY DEF LockInv
<1> QED BY <1>1, LockHolds, PTL

(* A handler runs for a client that is not deleted and is connected, and   *)
(* stays so until the handler itself deletes it.                           *)
THEOREM HandlerSeesLiveHolds == Spec => []HandlerSeesLive
<1>1. AttendInv => HandlerSeesLive BY DEF AttendInv
<1> QED BY <1>1, AttendHolds, PTL

(* The counter is the number of jobs that point to the client. *)
THEOREM RefCountExactHolds == Spec => []RefCountExact
<1>1. Inv1 => RefCountExact BY DEF Inv1
<1> QED BY <1>1, Inv1Holds, PTL

(* Nothing that a job points to is freed before the job is done with it. *)
THEOREM LiveWhileReferencedHolds == Spec => []LiveWhileReferenced
<1>1. Inv1 /\ LifeInv => LiveWhileReferenced
  <2> SUFFICES ASSUME Inv1, LifeInv, NEW c \in Clients, freed[c] > 0
               PROVE  Queued(c) = {} /\ InHand(c) = {}
    BY DEF LiveWhileReferenced
  <2>1. ref_cnt[c] = 0 BY DEF LifeInv, FreeInv
  <2>2. Cardinality(Queued(c)) = 0 /\ Cardinality(InHand(c)) = 0
    BY <2>1, FiniteRefs DEF Inv1, RefCountExact
  <2> QED BY <2>2, FiniteRefs, FS_EmptySet DEF Inv1
<1> QED BY <1>1, Inv1Holds, LifeHolds, PTL

(* A freed client has no event source and no callback under way. *)
THEOREM QuietWhenFreedHolds == Spec => []QuietWhenFreed
<1>1. Inv1 /\ LifeInv => QuietWhenFreed
  BY UnreferencedIsSilent DEF QuietWhenFreed, LifeInv, FreeInv
<1> QED BY <1>1, Inv1Holds, LifeHolds, PTL

(* The pool never sleeps over a job. *)
THEOREM NoLostWakeupHolds == Spec => []NoLostWakeup
<1>1. WakeInv => NoLostWakeup BY DEF WakeInv
<1> QED BY <1>1, WakeHolds, PTL

=============================================================================
