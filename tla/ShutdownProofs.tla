--------------------------- MODULE ShutdownProofs ---------------------------
(***************************************************************************)
(* Proofs about main() with its threads, for any number of clients,        *)
(* workers and events.  The layers of JobQueueProofs carry over: main and  *)
(* the opening of the database move only workers that hold nothing.  On    *)
(* top of them comes what main knows after each join.                      *)
(***************************************************************************)
EXTENDS Shutdown, JobQueueProofs

PoolInv == Inv1 /\ LockInv /\ LifeInv

(* What main may rely on, step by step. *)
MainInv ==
  /\ \A w \in unopened : w \in Workers /\ pc[w] = "lock"
  /\ \A w \in Workers : pc[w] \notin HasJob => cur[w] = NoJob
  /\ tcp.pc = "stopped" => terminate
  /\ main \notin {"listen", "dispatch", "join_tcp"} => tcp.pc = "stopped"
  /\ main \in CondGone =>
       \A w \in Workers : pc[w] \in {"scan", "wait"} => w \in racing
  /\ main \in {"release", "done", "crashed"} =>
       \A w \in Workers : pc[w] = "exit"

AllInv == PoolInv /\ MainInv

-----------------------------------------------------------------------------
(* Steps of the pool that JobQueue does not have: workers outside of the   *)
(* mutex, without a job, move to the lock or leave.                        *)

Idle == {"lock", "wait", "exit"}

IdleMoves ==
  /\ pc' \in [Workers -> WorkerPc]
  /\ \A w \in Workers : pc'[w] = pc[w] \/ (pc[w] \in Idle /\ pc'[w] \in Idle)
  /\ UNCHANGED <<jqueue, job_mutex, terminate, accepted, armed, locked,
                 ref_cnt, deleted, freed, events, tcp, cur, pos>>

(* A failed db_open and the broadcast in main are such steps. *)
LEMMA IdleSteps ==
  ASSUME AllInv, Opens \/ DestroyCond
  PROVE  IdleMoves
<1>0. pc \in [Workers -> WorkerPc] BY DEF AllInv, PoolInv, Inv1, Basic, TypeOK
<1>1. ASSUME NEW w \in Workers, NEW ok \in BOOLEAN, DbOpen(w, ok)
      PROVE  IdleMoves
  <2>1. pc[w] = "lock" BY <1>1 DEF DbOpen, AllInv, MainInv
  <2>2. pc' = pc \/ pc' = [pc EXCEPT ![w] = "exit"] BY <1>1 DEF DbOpen
  <2> QED
    BY <1>0, <1>1, <2>1, <2>2 DEF DbOpen, IdleMoves, Idle, WorkerPc, clientVars
<1>2. CASE DestroyCond
  BY <1>0, <1>2 DEF DestroyCond, IdleMoves, Idle, Waiting, WorkerPc
<1> QED BY <1>1, <1>2 DEF Opens

(* They leave the layers of the queue alone. *)
LEMMA IdleKeepsPool ==
  ASSUME PoolInv, IdleMoves
  PROVE  PoolInv'
<1> USE DEF PoolInv
<1>0. /\ \A w \in Workers :
           /\ pc'[w] \in HasJob \cup InMutex <=> pc[w] \in HasJob \cup InMutex
           /\ pc[w] \in HasJob \cup InMutex => pc'[w] = pc[w]
      /\ UNCHANGED <<jqueue, job_mutex, cur>>
  BY DEF IdleMoves, Idle, HasJob, HoldsRef, InHandler, InMutex
<1>1. Basic'
  <2> USE DEF Inv1, Basic
  <2>1. TypeOK' BY DEF TypeOK, IdleMoves
  <2>2. MutexInv' BY <1>0 DEF MutexInv
  <2>3. HandInv' BY <1>0 DEF HandInv
  <2>4. TcpInv' /\ QueueInv' BY DEF TcpInv, QueueInv, IdleMoves
  <2>5. OriginInv' BY <1>0 DEF OriginInv, Clnt, IdleMoves
  <2> QED BY <2>1, <2>2, <2>3, <2>4, <2>5
<1>2. RefCountExact'
  <2>1. \A c \in Clients : InHand(c)' = InHand(c)
    BY <1>0 DEF InHand, HasJob
  <2> QED BY <2>1, RefsUnchanged DEF Inv1, IdleMoves
<1>3. LockInv'
  <2>1. SameHandlers BY <1>0 DEF SameHandlers, IdleMoves, HasJob, HoldsRef
  <2> QED BY <2>1, SameHandlersLock
<1>4. LifeInv'
  <2>1. \A w \in Workers :
          /\ Clnt(w)' = Clnt(w)
          /\ pc[w] = "disarm" => pc'[w] = "disarm"
          /\ pc'[w] \in {"probe", "free"} => pc'[w] = pc[w]
    BY <1>0 DEF Clnt, HasJob, HoldsRef, InHandler
  <2>2. UNCHANGED <<deleted, ref_cnt, freed, armed, tcp>> BY DEF IdleMoves
  <2>3. SilentInv' BY <2>1, <2>2 DEF LifeInv, SilentInv
  <2>4. FreeInv' BY <2>1, <2>2 DEF LifeInv, FreeInv
  <2> QED BY <2>3, <2>4 DEF LifeInv
<1> QED BY <1>1, <1>2, <1>3, <1>4 DEF Inv1

-----------------------------------------------------------------------------
(* A step of the threads around main.  A worker that has left stays away,  *)
(* none begins a scan once terminate is set, a stopped tcp thread stays    *)
(* stopped, and a worker has a job exactly from the scan until it has      *)
(* freed it.                                                               *)
LEMMA ServeKeepsMain ==
  ASSUME PoolInv, MainInv, Threads
  PROVE  MainInv'
<1>0. /\ pc \in [Workers -> WorkerPc]
      /\ cur \in [Workers -> Jobs \cup {NoJob}]
  BY DEF PoolInv, Inv1, Basic, TypeOK
<1>1. /\ UNCHANGED <<main, unopened, racing>>
      /\ \A w \in unopened : pc'[w] = pc[w]
  BY DEF Threads, Started, startVars
<1>2. /\ \A w \in Workers : pc[w] = "exit" => pc'[w] = "exit"
      /\ \A w \in Workers : pc'[w] \notin HasJob => cur'[w] = NoJob
      /\ \A w \in Workers :
           terminate /\ pc'[w] \in {"scan", "wait"} => pc[w] \in {"scan", "wait"}
      /\ tcp.pc = "stopped" => tcp'.pc = "stopped"
      /\ tcp'.pc = "stopped" => tcp.pc = "stopped" \/ terminate
      /\ terminate' = terminate
  <2> USE <1>0 DEF Goto, clientVars, queueVars, tcpVars, MainInv, HasJob,
                   HoldsRef, InHandler
  <2>1. CASE \/ \E c \in Clients : Accept(c) \/ EventFires(c)
             \/ AddJob \/ TcpStops
    <3>1. tcp \in [pc : {"idle", "add", "signal", "stopped"},
                   clnt : Clients \cup {NoClient}]
      BY DEF PoolInv, Inv1, Basic, TypeOK
    <3>2. ASSUME NEW c \in Clients, Accept(c) \/ EventFires(c)
          PROVE  <1>2!:
      BY <3>2 DEF Accept, EventFires
    <3>3. CASE AddJob BY <3>1, <3>3 DEF AddJob
    <3>4. CASE TcpStops BY <3>1, <3>4 DEF TcpStops
    <3> QED BY <2>1, <3>2, <3>3, <3>4
  <2>2. CASE SignalJob BY <2>2 DEF SignalJob, Waiting
  <2>3. ASSUME NEW w \in Workers,
               LockMutex(w) \/ WorkerExits(w) \/ StartScan(w) \/ SkipJob(w)
                 \/ WaitForJob(w) \/ SpuriousWakeup(w)
        PROVE  <1>2!:
    BY <2>3 DEF LockMutex, WorkerExits, StartScan, SkipJob, WaitForJob,
       SpuriousWakeup
  <2>4. ASSUME NEW w \in Workers, TakeJob(w) PROVE <1>2!:
    BY <2>4 DEF TakeJob
  <2>5. ASSUME NEW w \in Workers,
               CheckDeleted(w) \/ HandlerReturns(w) \/ HandlerDeletes(w)
                 \/ Disarm(w) \/ HandlerProbes(w) \/ UnlockClient(w)
        PROVE  <1>2!:
    BY <2>5 DEF CheckDeleted, HandlerReturns, HandlerDeletes, Disarm,
       HandlerProbes, UnlockClient
  <2>6. ASSUME NEW w \in Workers,
               DecRef(w) \/ SeesDeleted(w) \/ ProbeRef(w) \/ FreeClient(w)
                 \/ FreeJob(w)
        PROVE  <1>2!:
    BY <2>6 DEF DecRef, SeesDeleted, ProbeRef, FreeClient, FreeJob
  <2> QED
    BY <2>1, <2>2, <2>3, <2>4, <2>5, <2>6 DEF Threads, Serve, Worker
<1>3. main \in CondGone => terminate
  BY DEF MainInv, CondGone
<1> QED BY <1>1, <1>2, <1>3 DEF MainInv

(* The invariant holds at the start and is kept by every step. *)
LEMMA AllInvHolds == SafeAll => []AllInv
<1>1. InitAll => AllInv
  <2> SUFFICES ASSUME InitAll PROVE AllInv OBVIOUS
  <2>1. Inv1
    <3>1. \A c \in Clients :
            Queued(c) = {} /\ InHand(c) = {} /\ ref_cnt[c] = 0
      BY DEF InitAll, Init, Queued, ToSet, InHand, HoldsRef, InHandler
    <3> QED BY <3>1, InitBasic, FS_EmptySet DEF InitAll, Inv1, RefCountExact
  <2>2. LockInv
    BY DEF InitAll, Init, LockInv, MutualExclusion, InHandler
  <2>3. LifeInv BY DEF InitAll, Init, LifeInv, SilentInv, FreeInv
  <2>4. MainInv BY DEF InitAll, Init, MainInv, CondGone
  <2> QED BY <2>1, <2>2, <2>3, <2>4 DEF AllInv, PoolInv
<1>2. AllInv /\ [NextAll]_allVars => AllInv'
  <2> SUFFICES ASSUME AllInv, [NextAll]_allVars PROVE AllInv' OBVIOUS
  <2>1. ASSUME [Next]_vars PROVE PoolInv'
    BY <2>1, NextInv1, NextLock, NextLife DEF AllInv, PoolInv
  <2>2. CASE Threads
    BY <2>1, <2>2, ServeKeepsMain DEF AllInv, Threads, Next
  <2>3. CASE StopServer
    BY <2>1, <2>3 DEF AllInv, StopServer, MainInv, Next, ServerStop, tcpVars,
       CondGone
  <2>4. CASE Opens \/ DestroyCond
    <3>1. IdleMoves BY <2>4, IdleSteps
    <3>2. PoolInv' BY <3>1, IdleKeepsPool DEF AllInv
    <3>3. MainInv'
      <4>1. \A w \in Workers :
              /\ pc[w] \in HasJob <=> pc'[w] \in HasJob
              /\ cur'[w] = cur[w]
        BY <3>1 DEF IdleMoves, Idle, HasJob, HoldsRef, InHandler
      <4>2. CASE DestroyCond
        <5>1. pc \in [Workers -> WorkerPc]
          BY DEF AllInv, PoolInv, Inv1, Basic, TypeOK
        <5>2. /\ UNCHANGED <<unopened, tcp, terminate>>
              /\ \A w \in unopened : w \in Workers /\ pc'[w] = "lock"
              /\ main' \notin {"release", "done", "crashed"}
          BY <4>2, <5>1 DEF AllInv, MainInv, DestroyCond, Waiting, startVars
        <5>3. main' \in CondGone =>
                \A w \in Workers : pc'[w] \in {"scan", "wait"} => w \in racing'
          BY <4>2, <5>1 DEF DestroyCond, Waiting, Scanning, CondGone
        <5>4. main = "destroy_cond" BY <4>2 DEF DestroyCond
        <5> QED BY <4>1, <5>2, <5>3, <5>4 DEF AllInv, MainInv
      <4>3. ASSUME NEW w \in Workers, NEW ok \in BOOLEAN, DbOpen(w, ok)
            PROVE  MainInv'
        <5>1. pc \in [Workers -> WorkerPc]
          BY DEF AllInv, PoolInv, Inv1, Basic, TypeOK
        <5> QED BY <4>1, <4>3, <5>1 DEF AllInv, MainInv, DbOpen, CondGone
      <4> QED BY <2>4, <4>2, <4>3 DEF Opens
    <3> QED BY <3>2, <3>3 DEF AllInv
  <2>5. CASE Listen \/ DispatchFails \/ JoinTcp \/ DestroyMutex
               \/ JoinWorkers \/ Release \/ TcpEnters \/ UNCHANGED allVars
    <3>1. UNCHANGED <<vars, unopened, racing>>
      BY <2>5 DEF Listen, DispatchFails, JoinTcp, DestroyMutex, JoinWorkers,
         Release, TcpEnters, allVars, startVars
    <3>2. MainInv'
      BY <2>5, <3>1 DEF AllInv, MainInv, CondGone, vars, Listen,
         DispatchFails, JoinTcp, DestroyMutex, JoinWorkers, Release,
         TcpEnters, allVars
    <3> QED BY <2>1, <3>1, <3>2 DEF AllInv
  <2> QED BY <2>2, <2>3, <2>4, <2>5 DEF NextAll, Main
<1> QED BY <1>1, <1>2, PTL DEF SafeAll

-----------------------------------------------------------------------------
(* What main() releases is no longer used: the condition variable and the *)
(* mutex, which go before the join, only by workers that were about to     *)
(* wait when they went, the rest by nobody, however start-up and stop      *)
(* interleave with the jobs.                                               *)
THEOREM ReleasedUnusedHolds == SafeAll => []ReleasedUnused
<1>1. AllInv => ReleasedUnused
  <2> SUFFICES ASSUME AllInv PROVE ReleasedUnused OBVIOUS
  <2>1. ASSUME main \in CondGone
        PROVE  /\ terminate /\ tcp.pc = "stopped"
               /\ Scanning \cup Waiting \subseteq racing
    BY <2>1 DEF AllInv, MainInv, CondGone, Scanning, Waiting
  <2>2. ASSUME main \in {"release", "done", "crashed"}
        PROVE  /\ job_mutex = NoOwner
               /\ \A c \in Clients : locked[c] = 0
               /\ \A w \in Workers : cur[w] = NoJob
    <3>1. \A w \in Workers : pc[w] = "exit"
      BY <2>2 DEF AllInv, MainInv
    <3>2. job_mutex = NoOwner
      BY <3>1 DEF AllInv, PoolInv, Inv1, Basic, TypeOK, MutexInv, InMutex
    <3>3. \A w \in Workers : cur[w] = NoJob
      BY <3>1 DEF AllInv, MainInv, HasJob, HoldsRef, InHandler
    <3>4. \A c \in Clients : locked[c] = 0
      <4>1. locked \in [Clients -> {0, 1}]
        BY DEF AllInv, PoolInv, Inv1, Basic, TypeOK
      <4>2. \A c \in Clients : locked[c] # 1
        BY <3>1 DEF AllInv, PoolInv, LockInv, InHandler
      <4> QED BY <4>1, <4>2
    <3> QED BY <3>2, <3>3, <3>4
  <2> QED BY <2>1, <2>2 DEF ReleasedUnused
<1> QED BY <1>1, AllInvHolds, PTL

(* The guarantees of the queue also hold while the server starts with a    *)
(* part of its workers and while main() takes the queue apart: handlers of *)
(* a client exclude each other, and the counter counts its jobs.           *)
THEOREM PoolSafeThroughout == SafeAll => [](MutualExclusion /\ RefCountExact)
<1>1. AllInv => MutualExclusion /\ RefCountExact
  BY DEF AllInv, PoolInv, LockInv, Inv1
<1> QED BY <1>1, AllInvHolds, PTL

=============================================================================
