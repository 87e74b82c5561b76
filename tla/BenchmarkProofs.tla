--------------------------- MODULE BenchmarkProofs --------------------------
(***************************************************************************)
(* Proofs about Benchmark for any number of clients and actions: the count *)
(* of running clients is exact up to the connects that failed, timers      *)
(* belong to running clients, the budget is shared, and the loop is broken *)
(* by the last client only.                                                *)
(***************************************************************************)
EXTENDS Benchmark, FiniteSetTheorems, TLAPS

(* Clients are spawned in the order of their numbers, each once. *)
Spawns ==
  /\ spawned + client_cnt <= MaxClients
  /\ \A i \in Ids : clnt[i] # "none" => i <= spawned
  /\ \A i \in unreached : i <= spawned

(* Only what was selected is drawn and performed; without a selection the  *)
(* budget is 0 once the loop runs, and clients end when it is used up.     *)
Budget ==
  /\ actions \in Seq(selected) /\ done \in Seq(selected)
  /\ loop = "off" => done = <<>> /\ repeat_cnt = total
  /\ loop # "usage" /\ actions # <<>> => Len(done) + repeat_cnt = total
  /\ loop \in {"on", "break", "ended"} /\ actions = <<>> =>
       done = <<>> /\ repeat_cnt = 0
  /\ finished # {} => repeat_cnt = 0

BenchInv ==
  /\ BenchTypeOK /\ RunningCounted /\ TimersOwned
  /\ Spawns /\ Budget /\ EndsComplete

-----------------------------------------------------------------------------
(* Sets of clients are finite. *)
LEMMA ClientsFinite ==
  ASSUME NEW S, S \subseteq Ids
  PROVE  IsFiniteSet(S) /\ Cardinality(S) \in Nat
<1>1. IsFiniteSet(Ids)
  BY FS_Interval, BenchBoundsNat DEF Ids
<1> QED
  BY <1>1, FS_Subset, FS_CardinalityType

(* The prepared actions are the selected ones, without ACTION_SOURCE. *)
LEMMA PreparedSelected == Prepared \in Seq(selected)
<1>1. One("offer") \in Seq(selected)
  BY DEF One
<1>2. One("query") \in Seq(selected)
  BY DEF One
<1> QED
  BY <1>1, <1>2 DEF Prepared

(* client_free counts out a client that is running. *)
LEMMA FreeCounts ==
  ASSUME BenchInv, loop = "on", NEW i \in Running, client_free(i),
         UNCHANGED <<client_cnt, unreached>>
  PROVE  /\ RunningCounted' /\ TimersOwned'
         /\ running_cnt' \in Nat
         /\ clnt' \in [Ids -> Stages]
         /\ clnt' = [clnt EXCEPT ![i] = "free"]
         /\ ev_action' \subseteq Ids
         /\ loop' \in {"on", "break"}
         /\ loop' = "break" => Running' = {} /\ client_cnt' = 0
<1>1. clnt' \in [Ids -> Stages] /\ clnt' = [clnt EXCEPT ![i] = "free"]
  BY DEF BenchInv, BenchTypeOK, client_free, Stages, Running
<1>2. Running' = Running \ {i}
  BY <1>1 DEF BenchInv, BenchTypeOK, Running
<1>3. /\ IsFiniteSet(Running) /\ Cardinality(Running) \in Nat
      /\ IsFiniteSet(unreached) /\ Cardinality(unreached) \in Nat
      /\ IsFiniteSet(Running') /\ Cardinality(Running') \in Nat
  BY <1>2, ClientsFinite DEF BenchInv, BenchTypeOK, Running
<1>4. Cardinality(Running') = Cardinality(Running) - 1
  BY <1>2, <1>3, FS_RemoveElement
<1>5. running_cnt' = Cardinality(Running') + Cardinality(unreached)
  BY <1>3, <1>4 DEF BenchInv, RunningCounted, client_free
<1>6. ev_action' \subseteq Running'
  BY <1>2 DEF BenchInv, TimersOwned, client_free
<1>7. ASSUME loop' = "break" PROVE Running' = {} /\ client_cnt' = 0
  <2>1. running_cnt' = 0 /\ client_cnt' = 0
    BY <1>7 DEF client_free
  <2>2. Cardinality(Running') = 0
    BY <1>3, <1>5, <2>1
  <2> QED
    BY <1>3, <2>1, <2>2, FS_EmptySet
<1>8. loop' \in {"on", "break"}
  BY DEF client_free
<1> QED
  BY <1>1, <1>3, <1>5, <1>6, <1>7, <1>8
     DEF RunningCounted, TimersOwned, Running

(* At the start nobody is spawned. *)
LEMMA BenchInitInv == Init => BenchInv
<1> SUFFICES ASSUME Init PROVE BenchInv
  OBVIOUS
<1>1. BenchTypeOK
  <2>1. /\ total \in Int /\ spawned \in Nat
        /\ {client_cnt, repeat_cnt, running_cnt} \subseteq Nat
    BY BenchBoundsNat DEF Init
  <2>2. /\ selected \subseteq Actions
        /\ actions \in Seq(Actions) /\ done \in Seq(Actions)
        /\ clnt \in [Ids -> Stages]
        /\ unreached \subseteq Ids /\ finished \subseteq Ids
        /\ ev_action \subseteq Ids
    BY DEF Init, Stages
  <2>3. {ev_spawn, interrupted} \subseteq BOOLEAN
    BY DEF Init
  <2>4. loop \in {"off", "on", "break", "ended", "usage"}
    BY DEF Init
  <2> QED
    BY <2>1, <2>2, <2>3, <2>4 DEF BenchTypeOK
<1>2. Running = {} /\ Cardinality(Running) = 0 /\ Cardinality(unreached) = 0
  BY FS_EmptySet DEF Init, Running
<1>3. RunningCounted /\ TimersOwned
  BY <1>2 DEF Init, RunningCounted, TimersOwned
<1>4. Spawns
  BY BenchBoundsNat DEF Init, Spawns, Ids
<1>5. Budget
  BY DEF Init, Budget
<1>6. EndsComplete
  BY DEF Init, EndsComplete
<1> QED
  BY <1>1, <1>3, <1>4, <1>5, <1>6 DEF BenchInv

(* What the conjuncts say of the running clients, from state to state. *)
runVars == <<running_cnt, clnt, ev_action, unreached>>

(* Steps that leave the clients alone keep their count and their timers. *)
LEMMA RunKept ==
  ASSUME BenchInv, UNCHANGED runVars
  PROVE  Running' = Running /\ RunningCounted' /\ TimersOwned'
  BY DEF BenchInv, runVars, Running, RunningCounted, TimersOwned

(* Nothing is started. *)
LEMMA UsageKeeps ==
  ASSUME BenchInv, Usage PROVE BenchInv'
<1>1. BenchTypeOK'
  BY DEF BenchInv, BenchTypeOK, Usage
<1>2. RunningCounted' /\ TimersOwned'
  BY RunKept DEF Usage, runVars
<1>3. Spawns' /\ Budget' /\ EndsComplete'
  BY DEF BenchInv, Spawns, Budget, EndsComplete, Usage
<1> QED
  BY <1>1, <1>2, <1>3 DEF BenchInv

(* The loop starts with the prepared actions. *)
LEMMA DispatchKeeps ==
  ASSUME BenchInv, Dispatch PROVE BenchInv'
<1>1. /\ Prepared \in Seq(selected) /\ Prepared \in Seq(Actions)
  BY PreparedSelected DEF BenchInv, BenchTypeOK
<1>2. BenchTypeOK'
  BY <1>1 DEF BenchInv, BenchTypeOK, Dispatch
<1>3. RunningCounted' /\ TimersOwned'
  BY RunKept DEF Dispatch, runVars
<1>4. finished = {} \/ repeat_cnt = 0
  BY DEF BenchInv, Budget
<1>5. Spawns'
  BY DEF BenchInv, Spawns, Dispatch
<1>6. Budget'
  <2>1. done = <<>> /\ repeat_cnt = total /\ finished = {} /\ total \in Nat
    BY <1>4 DEF BenchInv, BenchTypeOK, Budget, Dispatch
  <2>2. Len(done) = 0
    BY <2>1
  <2> QED
    BY <1>1, <2>1, <2>2 DEF BenchInv, Budget, Dispatch
<1>7. EndsComplete'
  BY DEF Dispatch, EndsComplete
<1> QED
  BY <1>2, <1>3, <1>5, <1>6, <1>7 DEF BenchInv

(* The spawn timer adds a client that was not there before. *)
LEMMA SpawnKeeps ==
  ASSUME BenchInv, NEW b \in BOOLEAN, spawn_cb(b) PROVE BenchInv'
<1> DEFINE i == spawned + 1
<1>1. CASE client_cnt <= 0
  <2>1. UNCHANGED <<spawned, clnt, unreached, running_cnt, client_cnt>>
    BY <1>1 DEF spawn_cb, BenchInv, BenchTypeOK
  <2>2. BenchTypeOK'
    BY <1>1, <2>1 DEF BenchInv, BenchTypeOK, spawn_cb
  <2>3. RunningCounted' /\ TimersOwned'
    BY <2>1, RunKept DEF spawn_cb, runVars
  <2>4. Spawns' /\ Budget' /\ EndsComplete'
    BY <2>1 DEF BenchInv, Spawns, Budget, EndsComplete, spawn_cb
  <2> QED
    BY <2>2, <2>3, <2>4 DEF BenchInv
<1>2. CASE client_cnt > 0
  <2>1. i \in Ids /\ clnt[i] = "none" /\ i \notin unreached
    <3>1. i \in Ids
      BY <1>2, BenchBoundsNat DEF BenchInv, BenchTypeOK, Spawns, Ids
    <3>2. ~(i <= spawned)
      BY DEF BenchInv, BenchTypeOK
    <3> QED
      BY <3>1, <3>2 DEF BenchInv, Spawns
  <2>2. /\ spawned' = i
        /\ clnt' = [clnt EXCEPT ![i] = IF b THEN "connecting" ELSE "free"]
        /\ unreached' = IF b THEN unreached ELSE unreached \cup {i}
        /\ running_cnt' = running_cnt + 1
        /\ client_cnt' = client_cnt - 1
        /\ ev_spawn' = (client_cnt - 1 # 0)
        /\ UNCHANGED <<selected, total, loop, repeat_cnt, actions, ev_action,
                       done, finished, interrupted>>
    BY <1>2 DEF spawn_cb
  <2>3. BenchTypeOK'
    <3>1. /\ client_cnt' \in Nat /\ repeat_cnt' \in Nat /\ spawned' \in Nat
          /\ running_cnt' \in Nat
      BY <1>2, <2>2 DEF BenchInv, BenchTypeOK
    <3>2. clnt' \in [Ids -> Stages] /\ unreached' \subseteq Ids
      BY <2>1, <2>2 DEF BenchInv, BenchTypeOK, Stages
    <3>3. {ev_spawn', interrupted'} \subseteq BOOLEAN
      BY <2>2 DEF BenchInv, BenchTypeOK
    <3> QED
      BY <2>2, <3>1, <3>2, <3>3 DEF BenchInv, BenchTypeOK
  <2>4. RunningCounted' /\ TimersOwned'
    <3>1. /\ IsFiniteSet(Running) /\ Cardinality(Running) \in Nat
          /\ IsFiniteSet(unreached) /\ Cardinality(unreached) \in Nat
      BY ClientsFinite DEF BenchInv, BenchTypeOK, Running
    <3>2. i \notin Running
      BY <2>1 DEF Running
    <3>3. CASE b
      <4>1. Running' = Running \cup {i} /\ unreached' = unreached
        BY <2>1, <2>2, <3>3 DEF BenchInv, BenchTypeOK, Running
      <4>2. Cardinality(Running') = Cardinality(Running) + 1
        BY <3>1, <3>2, <4>1, FS_AddElement
      <4> QED
        BY <2>2, <3>1, <4>1, <4>2
           DEF BenchInv, RunningCounted, TimersOwned
    <3>4. CASE ~b
      <4>1. Running' = Running /\ unreached' = unreached \cup {i}
        BY <2>1, <2>2, <3>4 DEF BenchInv, BenchTypeOK, Running
      <4>2. Cardinality(unreached') = Cardinality(unreached) + 1
        BY <2>1, <3>1, <4>1, FS_AddElement
      <4> QED
        BY <2>2, <3>1, <4>1, <4>2
           DEF BenchInv, RunningCounted, TimersOwned
    <3> QED
      BY <3>3, <3>4
  <2>5. Spawns'
    <3>1. spawned' + client_cnt' <= MaxClients
      BY <2>2, BenchBoundsNat DEF BenchInv, BenchTypeOK, Spawns
    <3>2. ASSUME NEW j \in Ids, clnt'[j] # "none" PROVE j <= spawned'
      <4>1. CASE j = i
        BY <2>2, <4>1 DEF BenchInv, BenchTypeOK
      <4>2. CASE j # i
        <5>1. clnt'[j] = clnt[j]
          BY <2>2, <4>2 DEF BenchInv, BenchTypeOK
        <5> QED
          BY <2>2, <3>2, <5>1 DEF BenchInv, BenchTypeOK, Spawns, Ids
      <4> QED
        BY <4>1, <4>2
    <3>3. ASSUME NEW j \in unreached' PROVE j <= spawned'
      BY <2>2, <3>3 DEF BenchInv, BenchTypeOK, Spawns, Ids
    <3> QED
      BY <3>1, <3>2, <3>3 DEF Spawns
  <2>6. Budget'
    BY <2>2 DEF BenchInv, Budget
  <2>7. EndsComplete'
    BY <2>2 DEF spawn_cb, EndsComplete
  <2> QED
    BY <2>3, <2>4, <2>5, <2>6, <2>7 DEF BenchInv
<1> QED
  BY <1>1, <1>2 DEF BenchInv, BenchTypeOK

(* A client that goes from one running stage to the next. *)
LEMMA StageKept ==
  ASSUME BenchInv, NEW i \in Running, NEW st \in {"login", "id"},
         clnt' = [clnt EXCEPT ![i] = st], UNCHANGED unreached
  PROVE  clnt' \in [Ids -> Stages] /\ Running' = Running
  BY DEF BenchInv, BenchTypeOK, Running, Stages

(* The login is sent. *)
LEMMA ConnectedKeeps ==
  ASSUME BenchInv, NEW i \in Ids, Connected(i) PROVE BenchInv'
<1>1. i \in Running /\ clnt' = [clnt EXCEPT ![i] = "login"]
  BY DEF Connected, Running
<1>2. clnt' \in [Ids -> Stages] /\ Running' = Running
  BY <1>1, StageKept DEF Connected
<1>3. BenchTypeOK'
  BY <1>2 DEF BenchInv, BenchTypeOK, Connected
<1>4. RunningCounted' /\ TimersOwned'
  BY <1>2 DEF BenchInv, RunningCounted, TimersOwned, Connected
<1>5. Spawns'
  BY <1>1 DEF BenchInv, BenchTypeOK, Spawns, Running, Connected
<1>6. Budget' /\ EndsComplete'
  BY DEF BenchInv, Budget, EndsComplete, Connected
<1> QED
  BY <1>3, <1>4, <1>5, <1>6 DEF BenchInv

(* OP_IDCHANGE gives a running client its timer. *)
LEMMA IdChangeKeeps ==
  ASSUME BenchInv, NEW i \in Ids, NEW good \in BOOLEAN, IdChange(i, good)
  PROVE  BenchInv'
<1>1. i \in Running /\ clnt' = [clnt EXCEPT ![i] = "id"]
  BY DEF IdChange, Running
<1>2. clnt' \in [Ids -> Stages] /\ Running' = Running
  BY <1>1, StageKept DEF IdChange
<1>3. ev_action' \subseteq Running
  BY <1>1 DEF IdChange, BenchInv, TimersOwned
<1>4. BenchTypeOK'
  BY <1>2, <1>3 DEF BenchInv, BenchTypeOK, IdChange, Running
<1>5. RunningCounted' /\ TimersOwned'
  BY <1>2, <1>3 DEF BenchInv, RunningCounted, TimersOwned, IdChange
<1>6. Spawns'
  BY <1>1 DEF BenchInv, BenchTypeOK, Spawns, Running, IdChange
<1>7. Budget' /\ EndsComplete'
  BY DEF BenchInv, Budget, EndsComplete, IdChange
<1> QED
  BY <1>4, <1>5, <1>6, <1>7 DEF BenchInv

(* A client is freed when its connection ends. *)
LEMMA ClosedKeeps ==
  ASSUME BenchInv, NEW i \in Ids, Closed(i) PROVE BenchInv'
<1>1. i \in Running
  BY DEF Closed, Running
<1>2. /\ RunningCounted' /\ TimersOwned' /\ running_cnt' \in Nat
      /\ clnt' \in [Ids -> Stages] /\ clnt' = [clnt EXCEPT ![i] = "free"]
      /\ ev_action' \subseteq Ids /\ loop' \in {"on", "break"}
      /\ loop' = "break" => Running' = {} /\ client_cnt' = 0
  BY <1>1, FreeCounts DEF Closed
<1>3. BenchTypeOK'
  BY <1>2 DEF BenchInv, BenchTypeOK, Closed
<1>4. Spawns'
  BY <1>1, <1>2 DEF BenchInv, BenchTypeOK, Spawns, Running, Closed
<1>5. Budget'
  BY <1>2 DEF BenchInv, Budget, Closed
<1>6. EndsComplete'
  BY <1>2 DEF BenchInv, Budget, EndsComplete, Closed
<1> QED
  BY <1>2, <1>3, <1>4, <1>5, <1>6 DEF BenchInv

(* The action timer performs one action of the budget, or the client ends. *)
LEMMA TimerKeeps ==
  ASSUME BenchInv, NEW i \in Ids, timer_cb(i) PROVE BenchInv'
<1>1. i \in Running
  BY DEF timer_cb, BenchInv, TimersOwned
<1>2. CASE actions # <<>> /\ repeat_cnt # 0
  <2>1. PICK k \in 1 .. Len(actions) : Perform(i, actions[k])
    BY <1>2 DEF timer_cb
  <2>2. actions[k] \in selected /\ selected \subseteq Actions
    BY <2>1 DEF BenchInv, BenchTypeOK, Budget
  <2>3. /\ repeat_cnt' = repeat_cnt - 1 /\ repeat_cnt' \in Nat
        /\ done' = Append(done, actions[k])
        /\ done' \in Seq(selected) /\ Len(done') = Len(done) + 1
    BY <1>2, <2>1, <2>2 DEF BenchInv, BenchTypeOK, Budget, Perform
  <2>4. BenchTypeOK'
    <3>1. done' \in Seq(Actions)
      BY <2>2, <2>3 DEF BenchInv, BenchTypeOK
    <3> QED
      BY <2>1, <2>3, <3>1 DEF BenchInv, BenchTypeOK, Perform, timer_cb
  <2>5. RunningCounted' /\ TimersOwned'
    BY <2>1, RunKept DEF Perform, timer_cb, runVars
  <2>6. Spawns'
    BY <2>1 DEF BenchInv, Spawns, Perform, timer_cb
  <2>7. Budget'
    <3>1. finished' = {}
      BY <1>2, <2>1 DEF BenchInv, Budget, Perform
    <3>2. Len(done') + repeat_cnt' = total
      BY <1>2, <2>3 DEF BenchInv, BenchTypeOK, Budget, timer_cb
    <3> QED
      BY <1>2, <2>1, <2>3, <3>1, <3>2
         DEF BenchInv, Budget, Perform, timer_cb
  <2>8. EndsComplete'
    BY <2>1 DEF EndsComplete, Perform, timer_cb
  <2> QED
    BY <2>4, <2>5, <2>6, <2>7, <2>8 DEF BenchInv
<1>3. CASE ~(actions # <<>> /\ repeat_cnt # 0)
  <2>1. /\ client_free(i) /\ finished' = finished \cup {i}
        /\ UNCHANGED <<repeat_cnt, done, selected, total, client_cnt, actions,
                       spawned, ev_spawn, unreached, interrupted>>
        /\ loop = "on"
    BY <1>3 DEF timer_cb
  <2>2. /\ RunningCounted' /\ TimersOwned' /\ running_cnt' \in Nat
        /\ clnt' \in [Ids -> Stages] /\ clnt' = [clnt EXCEPT ![i] = "free"]
        /\ ev_action' \subseteq Ids /\ loop' \in {"on", "break"}
        /\ loop' = "break" => Running' = {} /\ client_cnt' = 0
    BY <1>1, <2>1, FreeCounts
  <2>3. repeat_cnt = 0
    BY <1>3, <2>1 DEF BenchInv, Budget
  <2>4. BenchTypeOK'
    BY <2>1, <2>2 DEF BenchInv, BenchTypeOK
  <2>5. Spawns'
    BY <1>1, <2>1, <2>2 DEF BenchInv, BenchTypeOK, Spawns, Running
  <2>6. Budget' /\ EndsComplete'
    BY <2>1, <2>2, <2>3 DEF BenchInv, Budget, EndsComplete
  <2> QED
    BY <2>2, <2>4, <2>5, <2>6 DEF BenchInv
<1> QED
  BY <1>2, <1>3

(* SIGINT, and the end of the loop, which only a break or SIGINT brings. *)
LEMMA EndKeeps ==
  ASSUME BenchInv, signal_cb \/ LoopEnds PROVE BenchInv'
<1>1. BenchTypeOK'
  <2>1. {ev_spawn', interrupted'} \subseteq BOOLEAN
    BY DEF BenchInv, BenchTypeOK, signal_cb, LoopEnds
  <2> QED
    BY <2>1 DEF BenchInv, BenchTypeOK, signal_cb, LoopEnds
<1>2. Running' = Running /\ RunningCounted' /\ TimersOwned'
  BY RunKept DEF signal_cb, LoopEnds, runVars
<1>3. Spawns'
  BY DEF BenchInv, Spawns, signal_cb, LoopEnds
<1>4. Budget'
  BY DEF BenchInv, Budget, signal_cb, LoopEnds
<1>5. EndsComplete'
  BY <1>2 DEF BenchInv, EndsComplete, signal_cb, LoopEnds
<1> QED
  BY <1>1, <1>2, <1>3, <1>4, <1>5 DEF BenchInv

(* The invariant is inductive. *)
LEMMA BenchInductive == BenchSpec => []BenchInv
<1>1. BenchInv /\ [Next]_vars => BenchInv'
  <2> SUFFICES ASSUME BenchInv, [Next]_vars PROVE BenchInv'
    OBVIOUS
  <2>1. CASE Main
    BY <2>1, UsageKeeps, DispatchKeeps, EndKeeps DEF Main
  <2>2. CASE Spawn
    BY <2>2, SpawnKeeps DEF Spawn
  <2>3. CASE signal_cb
    BY <2>3, EndKeeps
  <2>4. CASE \E i \in Ids : Answer(i)
    BY <2>4, ConnectedKeeps, ClosedKeeps, IdChangeKeeps DEF Answer
  <2>5. CASE \E i \in Ids : timer_cb(i)
    BY <2>5, TimerKeeps
  <2>6. CASE UNCHANGED vars
    <3>1. Running' = Running /\ RunningCounted' /\ TimersOwned'
      BY <2>6, RunKept DEF vars, runVars
    <3> QED
      BY <2>6, <3>1
         DEF BenchInv, BenchTypeOK, Spawns, Budget, EndsComplete, vars
  <2> QED
    BY <2>1, <2>2, <2>3, <2>4, <2>5, <2>6 DEF Next
<1> QED
  BY <1>1, BenchInitInv, PTL DEF BenchSpec

-----------------------------------------------------------------------------
(* The counter that decides when the loop is broken is off by exactly the  *)
(* connects that failed in spawn_cb, for any number of clients.            *)
THEOREM RunningCountedHolds == BenchSpec => []RunningCounted
<1>1. BenchInv => RunningCounted
  BY DEF BenchInv
<1> QED
  BY <1>1, BenchInductive, PTL

(* timer_cb never runs for a client that client_free has released. *)
THEOREM TimersOwnedHolds == BenchSpec => []TimersOwned
<1>1. BenchInv => TimersOwned
  BY DEF BenchInv
<1> QED
  BY <1>1, BenchInductive, PTL

(* --repeat counts the actions of all clients together. *)
THEOREM BudgetSharedHolds == BenchSpec => []BudgetShared
<1>1. BenchInv => BudgetShared
  BY DEF BenchInv, Budget, BudgetShared
<1> QED
  BY <1>1, BenchInductive, PTL

(* client_free breaks the loop for the last of all clients only. *)
THEOREM EndsCompleteHolds == BenchSpec => []EndsComplete
<1>1. BenchInv => EndsComplete
  BY DEF BenchInv
<1> QED
  BY <1>1, BenchInductive, PTL

=============================================================================
