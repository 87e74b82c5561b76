----------------------------- MODULE Benchmark ------------------------------
(***************************************************************************)
(* eb, the load generator that comes with the server: one event loop that  *)
(* spawns clients, lets each log in and perform actions from a common      *)
(* budget, and ends when the last client is done.  The server sends        *)
(* OP_IDCHANGE once on a connection (Session!ImplementsClientLife), and    *)
(* may close a connection at any time.                                     *)
(***************************************************************************)
EXTENDS Integers, FiniteSets, Sequences

CONSTANTS
  MaxClients,  \* bound: --concurrency
  MaxRepeat    \* bound: --repeat

ASSUME BenchBoundsNat == MaxClients \in Nat /\ MaxRepeat \in Nat

Actions == {"offer", "query", "source"}

(* clnt->idx *)
Ids == 1 .. MaxClients

VARIABLES
  selected,     \* the action flags of the command line
  total,        \* --repeat
  loop,         \* "off", "on", "break": a break is asked for, "ended", "usage"
  client_cnt,   \* g_eb.client_cnt
  repeat_cnt,   \* g_eb.repeat_cnt
  running_cnt,  \* g_eb.running_cnt
  actions,      \* g_eb.actions up to action_cnt
  spawned,      \* the static variable idx of spawn_cb
  ev_spawn,     \* the spawn timer is pending
  clnt,         \* stage of every client
  ev_action,    \* clients with a pending action timer
  done,         \* history: actions performed, in order
  unreached,    \* history: connects that failed at once
  finished,     \* history: clients freed by their action timer
  interrupted   \* history: SIGINT

vars == <<selected, total, loop, client_cnt, repeat_cnt, running_cnt, actions,
          spawned, ev_spawn, clnt, ev_action, done, unreached, finished,
          interrupted>>

(* "login": logged in; "id": OP_IDCHANGE was read *)
Stages == {"none", "connecting", "login", "id", "free"}

BenchTypeOK ==
  /\ selected \subseteq Actions
  /\ total \in Int
  /\ loop \in {"off", "on", "break", "ended", "usage"}
  /\ {client_cnt, repeat_cnt, running_cnt} \subseteq Nat
  /\ actions \in Seq(Actions)
  /\ spawned \in Nat
  /\ {ev_spawn, interrupted} \subseteq BOOLEAN
  /\ clnt \in [Ids -> Stages]
  /\ ev_action \subseteq Ids
  /\ done \in Seq(Actions)
  /\ unreached \subseteq Ids /\ finished \subseteq Ids

Init ==
  /\ selected \in SUBSET Actions
  /\ total \in 0 .. MaxRepeat
  /\ loop = "off"
  /\ client_cnt \in 0 .. MaxClients
  /\ repeat_cnt = total
  /\ running_cnt = 0
  /\ actions = <<>>
  /\ spawned = 0
  /\ ev_spawn = FALSE
  /\ clnt = [i \in Ids |-> "none"]
  /\ ev_action = {}
  /\ done = <<>>
  /\ unreached = {} /\ finished = {}
  /\ interrupted = FALSE

-----------------------------------------------------------------------------
One(a) == IF a \in selected THEN <<a>> ELSE <<>>

(* The array of actions.  ACTION_SOURCE is stored without being counted,   *)
(* so it is never drawn.                                                   *)
Prepared == One("offer") \o One("query")

Usage ==
  /\ loop = "off"
  /\ repeat_cnt <= 0 \/ client_cnt <= 0
  /\ loop' = "usage"
  /\ UNCHANGED <<selected, total, client_cnt, repeat_cnt, running_cnt,
                 actions, spawned, ev_spawn, clnt, ev_action, done,
                 unreached, finished, interrupted>>

(* main, up to event_base_dispatch *)
Dispatch ==
  /\ loop = "off"
  /\ repeat_cnt > 0 /\ client_cnt > 0
  /\ loop' = "on"
  /\ actions' = Prepared
  /\ repeat_cnt' = IF Prepared = <<>> THEN 0 ELSE repeat_cnt
  /\ ev_spawn' = TRUE
  /\ UNCHANGED <<selected, total, client_cnt, running_cnt, spawned, clnt,
                 ev_action, done, unreached, finished, interrupted>>

(* Faulty variant of spawn_cb: the timer is not added again. *)
spawn_cb_once(connecting) ==
  LET i == spawned + 1
  IN  /\ loop = "on" /\ ev_spawn
      /\ spawned' = i
      /\ clnt' = [clnt EXCEPT
                    ![i] = IF connecting THEN "connecting" ELSE "free"]
      /\ unreached' = IF connecting THEN unreached ELSE unreached \cup {i}
      /\ running_cnt' = running_cnt + 1
      /\ client_cnt' = client_cnt - 1
      /\ ev_spawn' = FALSE
      /\ UNCHANGED <<selected, total, loop, repeat_cnt, actions, ev_action,
                     done, finished, interrupted>>

(* The spawn timer fires.  A connect that fails at once is not taken out   *)
(* of running_cnt again.                                                   *)
spawn_cb(connecting) ==
  LET i == spawned + 1
  IN  /\ loop = "on" /\ ev_spawn
      /\ IF client_cnt > 0
         THEN /\ spawned' = i
              /\ clnt' = [clnt EXCEPT
                            ![i] = IF connecting THEN "connecting" ELSE "free"]
              /\ unreached' = IF connecting THEN unreached
                                            ELSE unreached \cup {i}
              /\ running_cnt' = running_cnt + 1
              /\ client_cnt' = client_cnt - 1
              /\ ev_spawn' = (client_cnt - 1 # 0)
         ELSE /\ ev_spawn' = FALSE
              /\ UNCHANGED <<spawned, clnt, unreached, running_cnt,
                             client_cnt>>
      /\ UNCHANGED <<selected, total, loop, repeat_cnt, actions, ev_action,
                     done, finished, interrupted>>

(* Faulty variant of client_free: clients still to be spawned are forgotten. *)
client_free_early(i) ==
  /\ clnt' = [clnt EXCEPT ![i] = "free"]
  /\ ev_action' = ev_action \ {i}
  /\ running_cnt' = running_cnt - 1
  /\ loop' = IF running_cnt - 1 = 0 THEN "break" ELSE loop

client_free(i) ==
  /\ clnt' = [clnt EXCEPT ![i] = "free"]
  /\ ev_action' = ev_action \ {i}
  /\ running_cnt' = running_cnt - 1
  /\ loop' = IF running_cnt - 1 = 0 /\ client_cnt = 0 THEN "break" ELSE loop

(* event_cb: connected, and the login request is sent *)
Connected(i) ==
  /\ loop = "on" /\ clnt[i] = "connecting"
  /\ clnt' = [clnt EXCEPT ![i] = "login"]
  /\ UNCHANGED <<selected, total, loop, client_cnt, repeat_cnt, running_cnt,
                 actions, spawned, ev_spawn, ev_action, done, unreached,
                 finished, interrupted>>

(* event_cb: the connect failed, or the server has closed the connection *)
Closed(i) ==
  /\ loop = "on" /\ clnt[i] \in {"connecting", "login", "id"}
  /\ client_free(i)
  /\ UNCHANGED <<selected, total, client_cnt, repeat_cnt, actions, spawned,
                 ev_spawn, done, unreached, finished, interrupted>>

(* read_cb with a complete OP_IDCHANGE.  A malformed one is only reported; *)
(* all other packets are skipped and change nothing.                       *)
IdChange(i, good) ==
  /\ loop = "on" /\ clnt[i] = "login"
  /\ clnt' = [clnt EXCEPT ![i] = "id"]
  /\ ev_action' = IF good THEN ev_action \cup {i} ELSE ev_action
  /\ UNCHANGED <<selected, total, loop, client_cnt, repeat_cnt, running_cnt,
                 actions, spawned, ev_spawn, done, unreached, finished,
                 interrupted>>

(* timer_cb while the budget lasts: the timer is added again. *)
Perform(i, a) ==
  /\ done' = Append(done, a)
  /\ repeat_cnt' = repeat_cnt - 1
  /\ UNCHANGED <<loop, running_cnt, clnt, ev_action, finished>>

(* The action timer of a client fires: one more action, or its end. *)
timer_cb(i) ==
  /\ loop = "on" /\ i \in ev_action
  /\ IF actions # <<>> /\ repeat_cnt # 0
     THEN \E k \in 1 .. Len(actions) : Perform(i, actions[k])
     ELSE /\ client_free(i)
          /\ finished' = finished \cup {i}
          /\ UNCHANGED <<repeat_cnt, done>>
  /\ UNCHANGED <<selected, total, client_cnt, actions, spawned, ev_spawn,
                 unreached, interrupted>>

(* event_base_loopexit; callbacks that are active already still run. *)
signal_cb ==
  /\ loop = "on"
  /\ interrupted' = TRUE
  /\ UNCHANGED <<selected, total, loop, client_cnt, repeat_cnt, running_cnt,
                 actions, spawned, ev_spawn, clnt, ev_action, done,
                 unreached, finished>>

(* event_base_dispatch returns, and main frees what is its own. *)
LoopEnds ==
  /\ loop = "break" \/ (loop = "on" /\ interrupted)
  /\ loop' = "ended"
  /\ ev_spawn' = FALSE
  /\ UNCHANGED <<selected, total, client_cnt, repeat_cnt, running_cnt,
                 actions, spawned, clnt, ev_action, done, unreached,
                 finished, interrupted>>

Spawn == spawn_cb(TRUE) \/ spawn_cb(FALSE)

Main == Usage \/ Dispatch \/ LoopEnds

(* The server answers a connection in one way or another. *)
Answer(i) ==
  \/ Connected(i) \/ Closed(i)
  \/ \E good \in BOOLEAN : IdChange(i, good)

Next ==
  \/ Main \/ Spawn \/ signal_cb
  \/ \E i \in Ids : Answer(i) \/ timer_cb(i)

(* A client that the server has given its id, without an action timer. *)
Mute(i) == clnt[i] = "id" /\ i \notin ev_action

(* Timers fire, and the server answers a login or closes the connection. *)
Fairness ==
  /\ WF_vars(Main) /\ WF_vars(Spawn)
  /\ \A i \in Ids :
       /\ WF_vars(timer_cb(i))
       /\ WF_vars(clnt[i] \in {"connecting", "login"} /\ Answer(i))

BenchSpec == Init /\ [][Next]_vars

FairBench == BenchSpec /\ Fairness

-----------------------------------------------------------------------------
Running == {i \in Ids : clnt[i] \in {"connecting", "login", "id"}}

(* running_cnt says how many clients are running, and counts for ever the  *)
(* ones whose connect failed at once.                                      *)
RunningCounted ==
  running_cnt = Cardinality(Running) + Cardinality(unreached)

(* No timer is pending for a client that is freed. *)
TimersOwned == ev_action \subseteq Running

(* The budget is common: over all clients, what was performed and what is  *)
(* left are what --repeat says, and only selected actions are performed.   *)
BudgetShared ==
  loop \in {"on", "break", "ended"} =>
    IF actions = <<>> THEN done = <<>>
    ELSE /\ Len(done) + repeat_cnt = total
         /\ \A k \in 1 .. Len(done) : done[k] \in selected

(* The loop is broken by the last client and not before: unless it is      *)
(* interrupted, everybody was spawned, nobody is left, and the budget is   *)
(* used up when some client had come to the end of its work.               *)
EndsComplete ==
  (loop \in {"break", "ended"} /\ ~interrupted) =>
    /\ Running = {} /\ client_cnt = 0
    /\ finished # {} => repeat_cnt = 0

(* The benchmark ends by itself when the server answers, unless a connect  *)
(* has failed at once, so that running_cnt never comes back to 0, or a     *)
(* client without a timer is left to the server's mercy.                   *)
Ends ==
  loop = "on" ~> \/ loop = "ended"
                 \/ unreached # {}
                 \/ \E i \in Ids : Mute(i)

=============================================================================
