------------------------------ MODULE JobQueue ------------------------------
(***************************************************************************)
(* The job queue of ed2kd and the life of the client object its jobs point *)
(* to.                                                                     *)
(*                                                                         *)
(* Callbacks of the tcp event loop (one thread) turn socket and timer      *)
(* events into jobs and append them to g_srv.jqueue under g_srv.job_mutex. *)
(* A pool of workers takes the first job whose client it can lock with a   *)
(* compare-and-swap on client.locked, runs the handler, unlocks the client *)
(* and drops the job's reference.  A handler may call client_delete; the   *)
(* memory is freed by whoever finds client.ref_cnt at zero.                *)
(*                                                                         *)
(* One step is one access to shared memory, or one critical section of     *)
(* job_mutex in which only one access is visible outside of the mutex.     *)
(***************************************************************************)
EXTENDS Naturals, FiniteSets, Sequences, SequencesExt

CONSTANTS
  Clients,    \* connections; a freed client's memory is not reused here
  Workers,    \* server_job_worker threads whose db_open() succeeded
  MaxEvents   \* bound: events the tcp loop delivers for one client

ASSUME ClientsFinite == IsFiniteSet(Clients)
ASSUME WorkersFinite == IsFiniteSet(Workers) /\ Workers # {}
ASSUME MaxEventsNat == MaxEvents \in Nat

(* The n-th job of client c; job->clnt is its first component. *)
Jobs == Clients \X (1 .. MaxEvents)

NoJob == <<>>
NoOwner == "nobody"
NoClient == "none"

ASSUME SentinelsFresh == NoOwner \notin Workers /\ NoClient \notin Clients

VARIABLES
  jqueue,      \* g_srv.jqueue
  job_mutex,   \* the worker that holds g_srv.job_mutex between two steps
  terminate,   \* g_srv.terminate
  accepted,    \* clients that accept_cb has created
  armed,       \* clients with a live bufferevent or timer in evbase_tcp
  locked,      \* client.locked
  ref_cnt,     \* client.ref_cnt
  deleted,     \* client.deleted
  freed,       \* number of free(clnt) calls made for the client
  events,      \* number of events delivered so far
  tcp,         \* [pc, clnt]: the thread that runs evbase_tcp
  pc, cur, pos \* per worker: next step, job in hand, place in the scan

clientVars == <<locked, ref_cnt, deleted, freed>>
queueVars == <<jqueue, job_mutex>>
tcpVars == <<tcp, events, accepted>>
vars == <<jqueue, job_mutex, terminate, accepted, armed, locked, ref_cnt,
          deleted, freed, events, tcp, pc, cur, pos>>

WorkerPc == {"lock", "top", "scan", "wait", "check", "handle", "disarm",
             "probe_h", "unlock", "decref", "seen", "probe", "free",
             "free_job", "exit"}

(* Between the compare-and-swap on client.locked and the store of 0. *)
InHandler == {"check", "handle", "disarm", "probe_h", "unlock"}

(* The job in hand still counts in client.ref_cnt. *)
HoldsRef == InHandler \cup {"decref"}

(* Under job_mutex. *)
InMutex == {"top", "scan"}

HasJob == HoldsRef \cup {"seen", "probe", "free", "free_job"}

TypeOK ==
  /\ jqueue \in Seq(Jobs)
  /\ job_mutex \in Workers \cup {NoOwner}
  /\ terminate \in BOOLEAN
  /\ accepted \in SUBSET Clients
  /\ armed \in SUBSET Clients
  /\ locked \in [Clients -> {0, 1}]
  /\ ref_cnt \in [Clients -> Nat]
  /\ deleted \in [Clients -> {0, 1}]
  /\ freed \in [Clients -> Nat]
  /\ events \in [Clients -> 0 .. MaxEvents]
  /\ tcp \in [pc : {"idle", "add", "signal", "stopped"},
              clnt : Clients \cup {NoClient}]
  /\ pc \in [Workers -> WorkerPc]
  /\ cur \in [Workers -> Jobs \cup {NoJob}]
  /\ pos \in [Workers -> Nat \ {0}]

Init ==
  /\ jqueue = <<>>
  /\ job_mutex = NoOwner
  /\ terminate = FALSE
  /\ accepted = {}
  /\ armed = {}
  /\ locked = [c \in Clients |-> 0]
  /\ ref_cnt = [c \in Clients |-> 0]
  /\ deleted = [c \in Clients |-> 0]
  /\ freed = [c \in Clients |-> 0]
  /\ events = [c \in Clients |-> 0]
  /\ tcp = [pc |-> "idle", clnt |-> NoClient]
  /\ pc = [w \in Workers |-> "lock"]
  /\ cur = [w \in Workers |-> NoJob]
  /\ pos = [w \in Workers |-> 1]

-----------------------------------------------------------------------------
(* The main thread: accept_cb and server_stop.                             *)

(* A new connection; its callbacks can run from bufferevent_enable on. *)
Accept(c) ==
  /\ c \notin accepted
  /\ accepted' = accepted \cup {c}
  /\ armed' = armed \cup {c}
  /\ UNCHANGED <<clientVars, queueVars, terminate, tcp, events, pc, cur, pos>>

(* SIGINT or a listener error. *)
ServerStop ==
  /\ ~terminate
  /\ terminate' = TRUE
  /\ UNCHANGED <<clientVars, queueVars, tcpVars, armed, pc, cur, pos>>

-----------------------------------------------------------------------------
(* The tcp thread.  While a callback for c runs, libevent lets nobody free *)
(* the bufferevent or the timer it belongs to.                             *)

(* An event of an armed client fires: one of the callbacks of job.c. *)
EventFires(c) ==
  /\ tcp.pc = "idle"
  /\ c \in armed
  /\ events[c] < MaxEvents
  /\ tcp' = [pc |-> "add", clnt |-> c]
  /\ events' = [events EXCEPT ![c] = @ + 1]
  /\ UNCHANGED <<clientVars, queueVars, terminate, accepted, armed,
                 pc, cur, pos>>

(* Faulty variant of AddJob: client_addref is forgotten. *)
AddJobUncounted ==
  /\ tcp.pc = "add"
  /\ job_mutex = NoOwner
  /\ jqueue' = Append(jqueue, <<tcp.clnt, events[tcp.clnt]>>)
  /\ tcp' = [tcp EXCEPT !.pc = "signal"]
  /\ UNCHANGED <<clientVars, job_mutex, terminate, accepted, armed, events,
                 pc, cur, pos>>

(* server_add_job up to pthread_mutex_unlock. *)
AddJob ==
  /\ tcp.pc = "add"
  /\ job_mutex = NoOwner
  /\ ref_cnt' = [ref_cnt EXCEPT ![tcp.clnt] = @ + 1]
  /\ jqueue' = Append(jqueue, <<tcp.clnt, events[tcp.clnt]>>)
  /\ tcp' = [tcp EXCEPT !.pc = "signal"]
  /\ UNCHANGED <<job_mutex, terminate, accepted, armed, locked, deleted,
                 freed, events, pc, cur, pos>>

Waiting == {w \in Workers : pc[w] = "wait"}

(* Faulty variant of SignalJob: the signal is forgotten. *)
SignalNobody ==
  /\ tcp.pc = "signal"
  /\ tcp' = [pc |-> "idle", clnt |-> NoClient]
  /\ UNCHANGED <<clientVars, queueVars, terminate, accepted, armed, events,
                 pc, cur, pos>>

(* pthread_cond_signal: one waiter, if there is one, leaves the wait set.  *)
(* The callback returns.                                                   *)
SignalJob ==
  /\ tcp.pc = "signal"
  /\ tcp' = [pc |-> "idle", clnt |-> NoClient]
  /\ \/ Waiting = {} /\ pc' = pc
     \/ \E w \in Waiting : pc' = [pc EXCEPT ![w] = "lock"]
  /\ UNCHANGED <<clientVars, queueVars, terminate, accepted, armed, events,
                 cur, pos>>

(* event_base_loopbreak(evbase_tcp) takes effect between two callbacks. *)
TcpStops ==
  /\ terminate
  /\ tcp.pc = "idle"
  /\ tcp' = [tcp EXCEPT !.pc = "stopped"]
  /\ UNCHANGED <<clientVars, queueVars, terminate, accepted, armed, events,
                 pc, cur, pos>>

-----------------------------------------------------------------------------
(* A worker.                                                               *)

Goto(w, from, to) == pc[w] = from /\ pc' = [pc EXCEPT ![w] = to]

Clnt(w) == cur[w][1]   \* job->clnt

(* pthread_mutex_lock, also the one at the end of pthread_cond_wait. *)
LockMutex(w) ==
  /\ Goto(w, "lock", "top")
  /\ job_mutex = NoOwner
  /\ job_mutex' = w
  /\ UNCHANGED <<clientVars, jqueue, terminate, tcpVars, armed, cur, pos>>

(* The terminate flag is set: unlock and leave the thread. *)
WorkerExits(w) ==
  /\ Goto(w, "top", "exit")
  /\ terminate
  /\ job_mutex' = NoOwner
  /\ UNCHANGED <<clientVars, jqueue, terminate, tcpVars, armed, cur, pos>>

(* It is not: start the scan at the head of the queue. *)
StartScan(w) ==
  /\ Goto(w, "top", "scan")
  /\ ~terminate
  /\ pos' = [pos EXCEPT ![w] = 1]
  /\ UNCHANGED <<clientVars, queueVars, terminate, tcpVars, armed, cur>>

(* The client of the job at the scan position is locked: next job. *)
SkipJob(w) ==
  /\ pc[w] = "scan"
  /\ pos[w] <= Len(jqueue)
  /\ locked[jqueue[pos[w]][1]] = 1
  /\ pos' = [pos EXCEPT ![w] = @ + 1]
  /\ UNCHANGED <<clientVars, queueVars, terminate, tcpVars, armed, pc, cur>>

(* Faulty variant of TakeJob: the flag is tested and not set. *)
TakeJobUnlocked(w) ==
  /\ Goto(w, "scan", "check")
  /\ pos[w] <= Len(jqueue)
  /\ locked[jqueue[pos[w]][1]] = 0
  /\ jqueue' = RemoveAt(jqueue, pos[w])
  /\ cur' = [cur EXCEPT ![w] = jqueue[pos[w]]]
  /\ job_mutex' = NoOwner
  /\ UNCHANGED <<clientVars, terminate, tcpVars, armed, pos>>

(* The compare-and-swap succeeds: remove the job, unlock the mutex. *)
TakeJob(w) ==
  /\ Goto(w, "scan", "check")
  /\ pos[w] <= Len(jqueue)
  /\ locked[jqueue[pos[w]][1]] = 0
  /\ locked' = [locked EXCEPT ![jqueue[pos[w]][1]] = 1]
  /\ jqueue' = RemoveAt(jqueue, pos[w])
  /\ cur' = [cur EXCEPT ![w] = jqueue[pos[w]]]
  /\ job_mutex' = NoOwner
  /\ UNCHANGED <<ref_cnt, deleted, freed, terminate, tcpVars, armed, pos>>

(* No job could be taken: pthread_cond_wait. *)
WaitForJob(w) ==
  /\ Goto(w, "scan", "wait")
  /\ pos[w] > Len(jqueue)
  /\ job_mutex' = NoOwner
  /\ UNCHANGED <<clientVars, jqueue, terminate, tcpVars, armed, cur, pos>>

(* pthread_cond_wait may return without a signal. *)
SpuriousWakeup(w) ==
  /\ Goto(w, "wait", "lock")
  /\ UNCHANGED <<clientVars, queueVars, terminate, tcpVars, armed, cur, pos>>

(* Faulty variant of CheckDeleted: the mark is not looked at. *)
CheckNothing(w) ==
  /\ Goto(w, "check", "handle")
  /\ UNCHANGED <<clientVars, queueVars, terminate, tcpVars, armed, cur, pos>>

(* Run the handler unless the client is marked for removal. *)
CheckDeleted(w) ==
  /\ Goto(w, "check", IF deleted[Clnt(w)] = 1 THEN "unlock" ELSE "handle")
  /\ UNCHANGED <<clientVars, queueVars, terminate, tcpVars, armed, cur, pos>>

(* The handler returns without having called client_delete. *)
HandlerReturns(w) ==
  /\ Goto(w, "handle", "unlock")
  /\ UNCHANGED <<clientVars, queueVars, terminate, tcpVars, armed, cur, pos>>

(* The handler calls client_delete: the compare-and-swap on deleted. *)
HandlerDeletes(w) ==
  /\ Goto(w, "handle", IF deleted[Clnt(w)] = 0 THEN "disarm" ELSE "probe_h")
  /\ deleted' = [deleted EXCEPT ![Clnt(w)] = 1]
  /\ UNCHANGED <<locked, ref_cnt, freed, queueVars, terminate, tcpVars,
                 armed, cur, pos>>

(* Faulty variant of Disarm: an event source is left behind. *)
DisarmPartly(w) ==
  /\ Goto(w, "disarm", "probe_h")
  /\ UNCHANGED <<clientVars, queueVars, terminate, tcpVars, armed, cur, pos>>

(* Timers and bufferevents are freed; this waits for a running callback of *)
(* the same client.  The bookkeeping up to the listener follows.           *)
Disarm(w) ==
  /\ Goto(w, "disarm", "probe_h")
  /\ tcp.clnt # Clnt(w)
  /\ armed' = armed \ {Clnt(w)}
  /\ UNCHANGED <<clientVars, queueVars, terminate, tcpVars, cur, pos>>

(* The last lines of client_delete, called from the handler. *)
HandlerProbes(w) ==
  /\ Goto(w, "probe_h", "unlock")
  /\ freed' = IF ref_cnt[Clnt(w)] = 0
              THEN [freed EXCEPT ![Clnt(w)] = @ + 1] ELSE freed
  /\ UNCHANGED <<locked, ref_cnt, deleted, queueVars, terminate, tcpVars,
                 armed, cur, pos>>

(* Faulty variant of UnlockClient: a deleted client stays locked. *)
UnlockLive(w) ==
  /\ Goto(w, "unlock", "decref")
  /\ locked' = IF deleted[Clnt(w)] = 1 THEN locked
               ELSE [locked EXCEPT ![Clnt(w)] = 0]
  /\ UNCHANGED <<ref_cnt, deleted, freed, queueVars, terminate, tcpVars,
                 armed, cur, pos>>

(* atomic_store(&job->clnt->locked, 0) *)
UnlockClient(w) ==
  /\ Goto(w, "unlock", "decref")
  /\ locked' = [locked EXCEPT ![Clnt(w)] = 0]
  /\ UNCHANGED <<ref_cnt, deleted, freed, queueVars, terminate, tcpVars,
                 armed, cur, pos>>

(* client_decref: the test reads !old - 1, which is true for every old but *)
(* 0, so the deleted flag is looked at after every decrement.              *)
DecRef(w) ==
  /\ Goto(w, "decref", IF ref_cnt[Clnt(w)] # 0 THEN "seen" ELSE "free_job")
  /\ ref_cnt' = [ref_cnt EXCEPT ![Clnt(w)] = @ - 1]
  /\ UNCHANGED <<locked, deleted, freed, queueVars, terminate, tcpVars,
                 armed, cur, pos>>

(* The second half of the test; client_delete then fails its               *)
(* compare-and-swap, because deleted is set, and goes on to ref_cnt.       *)
SeesDeleted(w) ==
  /\ Goto(w, "seen", IF deleted[Clnt(w)] = 1 THEN "probe" ELSE "free_job")
  /\ UNCHANGED <<clientVars, queueVars, terminate, tcpVars, armed, cur, pos>>

(* Faulty variants of ProbeRef: no test, and a test against one. *)
ProbeNothing(w) ==
  /\ Goto(w, "probe", "free")
  /\ UNCHANGED <<clientVars, queueVars, terminate, tcpVars, armed, cur, pos>>

ProbeOne(w) ==
  /\ Goto(w, "probe", IF ref_cnt[Clnt(w)] = 1 THEN "free" ELSE "free_job")
  /\ UNCHANGED <<clientVars, queueVars, terminate, tcpVars, armed, cur, pos>>

(* if (0 == atomic_load(&clnt->ref_cnt)) *)
ProbeRef(w) ==
  /\ Goto(w, "probe", IF ref_cnt[Clnt(w)] = 0 THEN "free" ELSE "free_job")
  /\ UNCHANGED <<clientVars, queueVars, terminate, tcpVars, armed, cur, pos>>

(* free(clnt) *)
FreeClient(w) ==
  /\ Goto(w, "free", "free_job")
  /\ freed' = [freed EXCEPT ![Clnt(w)] = @ + 1]
  /\ UNCHANGED <<locked, ref_cnt, deleted, queueVars, terminate, tcpVars,
                 armed, cur, pos>>

(* free(job), back to the outer loop. *)
FreeJob(w) ==
  /\ Goto(w, "free_job", "lock")
  /\ cur' = [cur EXCEPT ![w] = NoJob]
  /\ UNCHANGED <<clientVars, queueVars, terminate, tcpVars, armed, pos>>

-----------------------------------------------------------------------------

Worker(w) ==
  \/ LockMutex(w) \/ WorkerExits(w) \/ StartScan(w) \/ SkipJob(w)
  \/ TakeJob(w) \/ WaitForJob(w) \/ CheckDeleted(w) \/ HandlerReturns(w)
  \/ HandlerDeletes(w) \/ Disarm(w) \/ HandlerProbes(w) \/ UnlockClient(w)
  \/ DecRef(w) \/ SeesDeleted(w) \/ ProbeRef(w) \/ FreeClient(w)
  \/ FreeJob(w)

Serve ==
  \/ \E c \in Clients : Accept(c) \/ EventFires(c)
  \/ AddJob \/ SignalJob \/ TcpStops
  \/ \E w \in Workers : Worker(w) \/ SpuriousWakeup(w)

Next == Serve \/ ServerStop

Spec == Init /\ [][Next]_vars

-----------------------------------------------------------------------------
Queued(c) == {j \in ToSet(jqueue) : j[1] = c}

InHand(c) == {w \in Workers : pc[w] \in HoldsRef /\ cur[w][1] = c}

(* Two workers never run handlers of the same client at the same time: the *)
(* flag client.locked is held from the scan in server_job_worker until the *)
(* store of 0, whatever the order in which jobs are taken and clients die. *)
MutualExclusion ==
  \A v, w \in Workers :
    (pc[v] \in InHandler /\ pc[w] \in InHandler /\ Clnt(v) = Clnt(w))
      => v = w

(* clnt->deleted is read once, before the handler, and is right until the  *)
(* handler itself calls client_delete: no other worker deletes the client  *)
(* meanwhile, its connection and timers are there, and client_delete       *)
(* releases them once, although jobs that are queued behind the deletion   *)
(* are taken all the same.                                                 *)
HandlerSeesLive ==
  \A w \in Workers :
    /\ pc[w] = "handle" => deleted[Clnt(w)] = 0
    /\ pc[w] \in {"handle", "disarm"} => Clnt(w) \in armed

(* client.ref_cnt is the number of jobs that point to the client: those in *)
(* g_srv.jqueue and those a worker holds and has not yet given back in     *)
(* client_decref.  In particular the decrement never wraps below zero.     *)
RefCountExact ==
  \A c \in Clients :
    ref_cnt[c] = Cardinality(Queued(c)) + Cardinality(InHand(c))

(* The client a job points to is not freed before the job has given its    *)
(* reference back: no handler, no scan of the queue and no store to locked *)
(* touches freed memory.                                                   *)
LiveWhileReferenced ==
  \A c \in Clients : freed[c] > 0 => Queued(c) = {} /\ InHand(c) = {}

(* client_delete has silenced the client's event sources before the memory *)
(* can go: no callback runs or can start with a freed client as context,   *)
(* even one that fired while the deletion was under way.                   *)
QuietWhenFreed ==
  \A c \in Clients : freed[c] > 0 => c \notin armed /\ tcp.clnt # c

(* No wakeup is lost although server_add_job signals after unlocking and   *)
(* only once per job: when every worker sleeps in pthread_cond_wait the    *)
(* queue is empty or the signal for its newest job is still to come.       *)
NoLostWakeup ==
  (\A w \in Workers : pc[w] = "wait") => jqueue = <<>> \/ tcp.pc = "signal"

(* A client that is marked for removal is freed in the end: whichever of   *)
(* its outstanding jobs ends last finds the counter at zero.               *)
DeletedIsFreed ==
  \A c \in Clients : deleted[c] = 1 ~> freed[c] > 0 \/ terminate

(* The references counter decides when the memory goes, so it goes once:   *)
(* client_decref calls client_delete for the last reference only.          *)
FreedOnce == \A c \in Clients : freed[c] <= 1

=============================================================================
