------------------------------ MODULE Shutdown ------------------------------
(***************************************************************************)
(* main() around the job queue: the threads start, the listener is bound   *)
(* or not, SIGINT or a failure stops both event loops and sets             *)
(* g_srv.terminate; then main joins the tcp thread, destroys the condition *)
(* variable and the mutex, joins the workers and releases the rest.        *)
(*                                                                         *)
(* event_base_dispatch forgets a break that was asked for before it.       *)
(* pthread_cond_destroy is used for its result EBUSY: it reports threads   *)
(* that wait, which are then woken.  A thread that waits on the condition  *)
(* variable after that is never woken by anybody.  The main loop may end   *)
(* with an error; that of the tcp thread is taken not to.                  *)
(***************************************************************************)
EXTENDS JobQueue

VARIABLES
  main,          \* where the main thread is
  unopened,      \* workers that have not returned from db_open
  tcp_loop,      \* evbase_tcp: "out", dispatched, asked to break
  tcp_listener,  \* g_srv.tcp_listener is not NULL
  early,         \* history: server_stop came before the tcp loop
  racing         \* history: workers that were about to wait on the
                 \* condition variable when it was destroyed

MainPc == {"listen", "dispatch", "join_tcp", "destroy_cond", "destroy_mutex",
           "join_workers", "release", "done", "crashed"}

startVars == <<unopened, tcp_loop, tcp_listener, early>>
allVars == <<vars, main, startVars, racing>>

MainTypeOK ==
  /\ TypeOK
  /\ main \in MainPc
  /\ unopened \subseteq Workers
  /\ tcp_loop \in {"out", "in", "asked"}
  /\ tcp_listener \in BOOLEAN
  /\ early \in BOOLEAN
  /\ racing \subseteq Workers

(* All threads are created; none has run yet. *)
InitAll ==
  /\ Init
  /\ main = "listen"
  /\ unopened = Workers
  /\ tcp_loop = "out"
  /\ tcp_listener = FALSE
  /\ early = FALSE
  /\ racing = {}

-----------------------------------------------------------------------------
(* The first steps of the other threads.                                   *)

(* A worker whose db_open fails is gone, and nobody is told. *)
DbOpen(w, ok) ==
  /\ w \in unopened
  /\ unopened' = unopened \ {w}
  /\ pc' = IF ok THEN pc ELSE [pc EXCEPT ![w] = "exit"]
  /\ UNCHANGED <<jqueue, job_mutex, terminate, accepted, armed, clientVars,
                 events, tcp, cur, pos, main, tcp_loop, tcp_listener, early,
                 racing>>

(* server_base_worker dispatches evbase_tcp. *)
TcpEnters ==
  /\ tcp_loop = "out"
  /\ tcp_loop' = "in"
  /\ UNCHANGED <<vars, main, unopened, tcp_listener, early, racing>>

-----------------------------------------------------------------------------
(* The main thread.                                                        *)

Listen ==
  /\ main = "listen"
  /\ main' = "dispatch"
  /\ tcp_listener' = TRUE
  /\ UNCHANGED <<vars, unopened, tcp_loop, early, racing>>

(* Faulty variant of BreakTcp: the tcp loop is not asked to break. *)
BreakNothing ==
  /\ early' = (tcp_loop = "out")
  /\ tcp_loop' = tcp_loop

(* event_base_loopbreak(evbase_tcp) *)
BreakTcp ==
  /\ early' = (tcp_loop = "out")
  /\ tcp_loop' = IF tcp_loop = "in" THEN "asked" ELSE tcp_loop

(* server_listen returns 0, or sigint_cb or accept_error_cb ends the main  *)
(* loop: server_stop.                                                      *)
StopServer ==
  /\ main \in {"listen", "dispatch"}
  /\ ServerStop
  /\ BreakTcp
  /\ main' = "join_tcp"
  /\ UNCHANGED <<unopened, tcp_listener, racing>>

(* event_base_dispatch of the main loop fails: server_listen returns 1 all *)
(* the same, and nobody calls server_stop.                                 *)
DispatchFails ==
  /\ main = "dispatch"
  /\ main' = "join_tcp"
  /\ UNCHANGED <<vars, startVars, racing>>

JoinTcp ==
  /\ main = "join_tcp"
  /\ tcp.pc = "stopped"
  /\ main' = "destroy_cond"
  /\ UNCHANGED <<vars, startVars, racing>>

Scanning == {w \in Workers : pc[w] = "scan"}

(* Faulty variants of DestroyCond: no loop, and a loop that wakes nobody. *)
DestroyCondOnce ==
  /\ main = "destroy_cond"
  /\ main' = "destroy_mutex"
  /\ racing' = Scanning
  /\ UNCHANGED <<vars, startVars>>

DestroyCondSilently ==
  /\ main = "destroy_cond" /\ Waiting = {}
  /\ main' = "destroy_mutex"
  /\ racing' = Scanning
  /\ UNCHANGED <<vars, startVars>>

(* One turn of the loop: EBUSY and a broadcast, or the end of the loop. *)
DestroyCond ==
  /\ main = "destroy_cond"
  /\ main' = IF Waiting = {} THEN "destroy_mutex" ELSE "destroy_cond"
  /\ racing' = IF Waiting = {} THEN Scanning ELSE racing
  /\ pc' = [w \in Workers |-> IF w \in Waiting THEN "lock" ELSE pc[w]]
  /\ UNCHANGED <<jqueue, job_mutex, terminate, accepted, armed, locked,
                 ref_cnt, deleted, freed, events, tcp, cur, pos, startVars>>

(* Workers that are still on their way to the mutex find it unusable and   *)
(* go on without it; all they do with it then is read terminate and leave. *)
DestroyMutex ==
  /\ main = "destroy_mutex"
  /\ main' = "join_workers"
  /\ UNCHANGED <<vars, startVars, racing>>

JoinWorkers ==
  /\ main = "join_workers"
  /\ \A w \in Workers : pc[w] = "exit"
  /\ main' = "release"
  /\ UNCHANGED <<vars, startVars, racing>>

(* evconnlistener_free does not take NULL. *)
Release ==
  /\ main = "release"
  /\ main' = IF tcp_listener THEN "done" ELSE "crashed"
  /\ UNCHANGED <<vars, startVars, racing>>

Main ==
  \/ Listen \/ (main = "listen" /\ StopServer)
  \/ JoinTcp \/ DestroyCond \/ DestroyMutex \/ JoinWorkers \/ Release

Opens == \E w \in Workers, ok \in BOOLEAN : DbOpen(w, ok)

(* The other threads, once they are started; accept_cb runs in the main    *)
(* loop.                                                                   *)
Started ==
  /\ main # "dispatch" => accepted' = accepted
  /\ \A w \in unopened : pc'[w] = pc[w]
  /\ tcp_loop = "out" => tcp' = tcp
  /\ tcp_loop # "asked" => tcp'.pc # "stopped"
  /\ UNCHANGED <<main, startVars, racing>>

Threads == Serve /\ Started

NextAll ==
  StopServer \/ DispatchFails \/ Main \/ Opens \/ TcpEnters \/ Threads

SafeAll == InitAll /\ [][NextAll]_allVars

(* Every thread keeps running, and evbase_tcp acts on the loopbreak.  A    *)
(* thread that waits for job_mutex gets it in the end although others keep *)
(* taking it, hence strong fairness there.                                 *)
SpecAll ==
  /\ SafeAll
  /\ WF_allVars(Main) /\ WF_allVars(Opens) /\ WF_allVars(TcpEnters)
  /\ WF_allVars(TcpStops /\ Started)
  /\ WF_allVars(SignalJob /\ Started)
  /\ SF_allVars(AddJob /\ Started)
  /\ \A w \in Workers : /\ WF_allVars(Worker(w) /\ Started)
                        /\ SF_allVars(LockMutex(w) /\ Started)

-----------------------------------------------------------------------------
CondGone == {"destroy_mutex", "join_workers", "release", "done", "crashed"}

(* What main() releases is no longer used.  The condition variable and the *)
(* mutex go before the workers are joined: by then server_stop has been    *)
(* called, no callback signals any more, nobody waits, and no worker can   *)
(* come to wait that was not past its test of terminate at that moment.    *)
(* The listener, the event loops, the database and the configuration go    *)
(* after the join: no worker holds a job, a client or the mutex then.      *)
ReleasedUnused ==
  /\ main \in CondGone =>
       /\ terminate /\ tcp.pc = "stopped"
       /\ Scanning \cup Waiting \subseteq racing
  /\ main \in {"release", "done", "crashed"} =>
       /\ job_mutex = NoOwner
       /\ \A c \in Clients : locked[c] = 0
       /\ \A w \in Workers : cur[w] = NoJob

(* Every job that is appended is taken in the end, also when its client    *)
(* was locked at every scan so far and the pool was asleep in between, and *)
(* when the database could be opened by some of the workers only.          *)
JobServed ==
  \A j \in Jobs :
    j \in ToSet(jqueue) ~> \/ j \notin ToSet(jqueue) \/ terminate
                           \/ \A w \in Workers : pc[w] = "exit"

(* server_stop ends the tcp thread, in whatever callback it is, except     *)
(* when it comes before that thread is in its loop: then main waits.       *)
TcpJoined ==
  (main = "join_tcp" /\ terminate) ~> main # "join_tcp" \/ early

(* Once the tcp thread is joined the server comes to its end, unless a     *)
(* worker was between its test of terminate and pthread_cond_wait when the *)
(* condition variable went: workers that sleep are woken, workers in a     *)
(* handler finish it and leave.  Only a listener that was never bound      *)
(* makes main fall over at the last step.                                  *)
EndsUnlessRacing ==
  main = "destroy_cond"
    ~> main = (IF tcp_listener THEN "done" ELSE "crashed") \/ racing # {}

(* After SIGINT the server terminates, at least when it was fully started. *)
ShutdownCompletes ==
  (terminate /\ tcp_listener /\ ~early) ~> main = "done"

=============================================================================
