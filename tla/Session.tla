------------------------------ MODULE Session -------------------------------
(***************************************************************************)
(* One connection of a client: the packets it sends, its login with the    *)
(* port check behind it, the status timer, and its end.                    *)
(*                                                                         *)
(* The handlers of one client never overlap (JobQueue!MutualExclusion), so *)
(* a handler is one step, except server_read, which goes back to the input *)
(* buffer after every packet while the tcp thread keeps filling it.  Jobs  *)
(* of one client can overtake one another in the queue, because the client *)
(* may be unlocked while a scan is half way; the pending jobs are a bag.   *)
(***************************************************************************)
EXTENDS Naturals, Sequences, FiniteSets, SequencesExt

CONSTANTS
  MaxPackets,  \* bound: packets the client sends
  MaxLogins    \* bound: login requests among them

ASSUME BoundsPositive == MaxPackets \in Nat \ {0} /\ MaxLogins \in Nat \ {0}

(* A packet as process_packet tells them apart.  "corrupt" is a packed one *)
(* that does not unpack, "query" one that is answered without a change of  *)
(* state; each may turn out to be malformed.                               *)
Kinds == {"login", "offer", "query", "disconnect", "corrupt"}

(* The input may end with the first part of a packet. *)
Packets == Kinds \cup {"part"}

JobTypes == {"read", "event", "status", "pc_connected", "pc_failed",
             "pc_read", "pc_timeout"}

(* Port checks, numbered by the login that started them; 0 is NULL. *)
Checks == 1 .. MaxLogins
Null == 0

VARIABLES
  allow_lowid,  \* cfg.allow_lowid
  clnt,         \* struct client, with the state of its event sources
  answer,       \* what the peer of a port check has sent and is not drained
  input,        \* input buffer of clnt->bev
  seen,         \* whole packets in the input when its length was last read
  eof,          \* the client has closed its side
  sent,         \* packets sent so far
  jobs,         \* queued jobs of this client, by type
  busy          \* "no", "read": inside server_read, "crashed"

vars == <<allow_lowid, clnt, answer, input, seen, eof, sent, jobs, busy>>

Clnt == [bev : BOOLEAN,                     \* clnt->bev is not NULL
         bev_pc : Checks \cup {Null},
         evtimer_portcheck : Checks \cup {Null},
         evtimer_status_notify : {"none", "armed", "fired"},
         portcheck_finished : BOOLEAN,
         lowid : BOOLEAN,
         id : {"none", "high", "low"},
         port : Checks \cup {Null},
         deleted : BOOLEAN,
         published : SUBSET ({"none", "high", "low"} \X (Checks \cup {Null})),
         logins : 0 .. MaxLogins,
         conn : [Checks -> {"none", "connecting", "connected", "down",
                            "freed"}],
         reading : SUBSET Checks,           \* EV_READ is enabled
         timer : [Checks -> {"none", "armed", "fired", "freed"}],
         null : BOOLEAN]                    \* a NULL pointer was followed

TypeOK ==
  /\ allow_lowid \in BOOLEAN
  /\ clnt \in Clnt
  /\ answer \in [Checks -> {"none", "good", "bad", "other"}]
  /\ input \in Seq(Packets) /\ Len(input) <= MaxPackets
  /\ seen \in 0 .. MaxPackets
  /\ eof \in BOOLEAN
  /\ sent \in 0 .. MaxPackets
  /\ jobs \in [JobTypes -> Nat]
  /\ busy \in {"no", "read", "crashed"}

Init ==
  /\ allow_lowid \in BOOLEAN
  /\ clnt = [bev |-> TRUE, bev_pc |-> Null, evtimer_portcheck |-> Null,
             evtimer_status_notify |-> "none", portcheck_finished |-> FALSE,
             lowid |-> FALSE, id |-> "none", port |-> Null,
             deleted |-> FALSE, published |-> {}, logins |-> 0,
             conn |-> [n \in Checks |-> "none"], reading |-> {},
             timer |-> [n \in Checks |-> "none"], null |-> FALSE]
  /\ answer = [n \in Checks |-> "none"]
  /\ input = <<>>
  /\ seen = 0
  /\ eof = FALSE
  /\ sent = 0
  /\ jobs = [j \in JobTypes |-> 0]
  /\ busy = "no"

-----------------------------------------------------------------------------
(* The functions of client.c, as functions of the structure.               *)

(* A step that needs clnt->bev: send_server_message and its like. *)
UseBev(c) == [c EXCEPT !.null = @ \/ ~c.bev]

FreeBevPc(c) ==
  IF c.bev_pc = Null THEN c
  ELSE [c EXCEPT !.conn[c.bev_pc] = "freed", !.bev_pc = Null]

FreePortcheckTimer(c) ==
  IF c.evtimer_portcheck = Null THEN c
  ELSE [c EXCEPT !.timer[c.evtimer_portcheck] = "freed",
                 !.evtimer_portcheck = Null]

(* Faulty variant of client_delete: the port check timer is forgotten. *)
DeleteKeepsTimer(c) ==
  IF c.deleted THEN c
  ELSE [FreeBevPc(c) EXCEPT
          !.deleted = TRUE, !.bev = FALSE, !.evtimer_portcheck = Null,
          !.evtimer_status_notify = "none", !.published = {}]

client_delete(c) ==
  IF c.deleted THEN c
  ELSE [FreeBevPc(FreePortcheckTimer(c)) EXCEPT
          !.deleted = TRUE, !.bev = FALSE,
          !.evtimer_status_notify = "none", !.published = {}]

(* The id is announced and the status timer starts. *)
Identify(c, id) ==
  [UseBev(c) EXCEPT !.id = id, !.evtimer_status_notify = "armed"]

client_portcheck_finish(c, success) ==
  LET d == [FreePortcheckTimer(FreeBevPc(c)) EXCEPT
              !.portcheck_finished = TRUE, !.lowid = ~success]
  IN  CASE success -> Identify(d, "high")
        [] ~success /\ allow_lowid ->
             Identify([UseBev(d) EXCEPT !.port = Null], "low")
        [] OTHER -> client_delete(UseBev(d))

(* Faulty variant of client_portcheck_start: evtimer_add is forgotten. *)
StartUntimed(c, connecting) ==
  LET n == c.logins + 1
      d == [c EXCEPT !.logins = n, !.port = n]
  IN  IF connecting
      THEN [d EXCEPT !.bev_pc = n, !.conn[n] = "connecting",
                     !.evtimer_portcheck = n]
      ELSE client_portcheck_finish(
             [d EXCEPT !.bev_pc = Null, !.conn[n] = "freed"], FALSE)

(* The new bufferevent and timer replace the pointers to earlier ones.  An *)
(* immediate failure of the connect ends the check at once.                *)
client_portcheck_start(c, connecting) ==
  LET n == c.logins + 1
      d == [c EXCEPT !.logins = n, !.port = n]
  IN  IF connecting
      THEN [d EXCEPT !.bev_pc = n, !.conn[n] = "connecting",
                     !.evtimer_portcheck = n, !.timer[n] = "armed"]
      ELSE client_portcheck_finish(
             [d EXCEPT !.bev_pc = Null, !.conn[n] = "freed"], FALSE)

-----------------------------------------------------------------------------
(* The tcp thread: libevent and the callbacks of job.c, which only queue.  *)

(* A callback, in a process that is still there, queues a job. *)
Queue(j) == busy # "crashed" /\ jobs' = [jobs EXCEPT ![j] = @ + 1]

Whole(q) == Len(SelectSeq(q, LAMBDA p : p # "part"))

(* Bound: login requests that were handled or lie in the input. *)
LoginsLeft ==
  clnt.logins + Len(SelectSeq(input, LAMBDA p : p = "login")) < MaxLogins

(* Faulty variant of Receive: no job while a handler is reading. *)
ReceiveQuietly(p) ==
  /\ clnt.bev /\ ~eof
  /\ sent < MaxPackets
  /\ p = "login" => LoginsLeft
  /\ input # <<>> => Last(input) # "part"
  /\ input' = Append(input, p)
  /\ sent' = sent + 1
  /\ IF busy = "read" THEN jobs' = jobs ELSE Queue("read")
  /\ UNCHANGED <<allow_lowid, clnt, answer, seen, eof, busy>>

(* Some bytes of the client arrive: a packet, or the first part of one. *)
Receive(p) ==
  /\ clnt.bev /\ ~eof
  /\ sent < MaxPackets
  /\ p = "login" => LoginsLeft
  /\ input # <<>> => Last(input) # "part"
  /\ input' = Append(input, p)
  /\ sent' = sent + 1
  /\ Queue("read")
  /\ UNCHANGED <<allow_lowid, clnt, answer, seen, eof, busy>>

(* The rest of an incomplete packet arrives. *)
ReceiveRest(k) ==
  /\ clnt.bev /\ ~eof
  /\ input # <<>> /\ Last(input) = "part"
  /\ k = "login" => LoginsLeft
  /\ input' = [input EXCEPT ![Len(input)] = k]
  /\ Queue("read")
  /\ UNCHANGED <<allow_lowid, clnt, answer, seen, eof, sent, busy>>

PeerCloses ==
  /\ clnt.bev /\ ~eof
  /\ eof' = TRUE
  /\ Queue("event")
  /\ UNCHANGED <<allow_lowid, clnt, answer, input, seen, sent, busy>>

StatusTimerFires ==
  /\ clnt.evtimer_status_notify = "armed"
  /\ clnt' = [clnt EXCEPT !.evtimer_status_notify = "fired"]
  /\ Queue("status")
  /\ UNCHANGED <<allow_lowid, answer, input, seen, eof, sent, busy>>

CheckConnects(n) ==
  /\ clnt.conn[n] = "connecting"
  /\ clnt' = [clnt EXCEPT !.conn[n] = "connected"]
  /\ Queue("pc_connected")
  /\ UNCHANGED <<allow_lowid, answer, input, seen, eof, sent, busy>>

(* The connect fails, or a connection that is read from breaks. *)
CheckFails(n) ==
  /\ \/ clnt.conn[n] = "connecting"
     \/ clnt.conn[n] \in {"connected", "down"} /\ n \in clnt.reading
  /\ clnt' = [clnt EXCEPT !.conn[n] = "down", !.reading = @ \ {n}]
  /\ Queue("pc_failed")
  /\ UNCHANGED <<allow_lowid, answer, input, seen, eof, sent, busy>>

CheckAnswers(n, a) ==
  /\ clnt.conn[n] = "connected" /\ n \in clnt.reading
  /\ answer[n] = "none"
  /\ answer' = [answer EXCEPT ![n] = a]
  /\ Queue("pc_read")
  /\ UNCHANGED <<allow_lowid, clnt, input, seen, eof, sent, busy>>

CheckTimerFires(n) ==
  /\ clnt.timer[n] = "armed"
  /\ clnt' = [clnt EXCEPT !.timer[n] = "fired"]
  /\ Queue("pc_timeout")
  /\ UNCHANGED <<allow_lowid, answer, input, seen, eof, sent, busy>>

-----------------------------------------------------------------------------
(* The workers.                                                            *)

(* A worker takes a job of type j; no other handler of the client runs. *)
Take(j) ==
  /\ busy = "no"
  /\ jobs[j] > 0
  /\ jobs' = [jobs EXCEPT ![j] = @ - 1]

(* server_job_worker skips the handler of a client that is deleted. *)
SkipHandler(j) ==
  /\ Take(j)
  /\ clnt.deleted
  /\ UNCHANGED <<allow_lowid, clnt, answer, input, seen, eof, sent, busy>>

(* What peers of port checks have sent goes with the bufferevent. *)
Undrained(c) ==
  [n \in Checks |-> IF c.conn[n] = "freed" THEN "none" ELSE answer[n]]

(* The handler for j turns the client into c and returns. *)
HandleReading(j, c) ==
  /\ Take(j)
  /\ ~clnt.deleted
  /\ clnt' = c
  /\ busy' = IF c.null THEN "crashed" ELSE "no"
  /\ input' = IF c.deleted THEN <<>> ELSE input
  /\ UNCHANGED <<allow_lowid, seen, eof, sent>>

Handle(j, c) == HandleReading(j, c) /\ answer' = Undrained(c)

ServerEvent == Handle("event", client_delete(clnt))

(* Faulty variant of StatusNotify: the timer is not started again. *)
StatusNotifyOnce ==
  Handle("status", UseBev(clnt))

StatusNotify ==
  Handle("status", [UseBev(clnt) EXCEPT
                      !.null = @ \/ clnt.evtimer_status_notify = "none",
                      !.evtimer_status_notify = "armed"])

(* Faulty variant of PortcheckConnected: no test of portcheck_finished. *)
PortcheckConnectedLate ==
  Handle("pc_connected",
         [clnt EXCEPT !.null = @ \/ clnt.bev_pc = Null,
                      !.reading = @ \cup ({clnt.bev_pc} \ {Null})])

PortcheckConnected ==
  Handle("pc_connected",
         IF clnt.portcheck_finished THEN clnt
         ELSE [clnt EXCEPT !.null = @ \/ clnt.bev_pc = Null,
                           !.reading = @ \cup ({clnt.bev_pc} \ {Null})])

PortcheckFailed ==
  Handle("pc_failed",
         IF clnt.portcheck_finished THEN clnt
         ELSE client_portcheck_finish(clnt, FALSE))

(* Faulty variant of PortcheckTimeout: no test of portcheck_finished. *)
PortcheckTimeoutLate ==
  Handle("pc_timeout", client_portcheck_finish(clnt, FALSE))

PortcheckTimeout ==
  Handle("pc_timeout",
         IF clnt.portcheck_finished THEN clnt
         ELSE client_portcheck_finish(clnt, FALSE))

(* portcheck_read looks at the buffer of the current check, whichever      *)
(* connection the job came from.                                           *)
PortcheckRead ==
  LET n == clnt.bev_pc
      a == IF clnt.portcheck_finished \/ n = Null THEN "none" ELSE answer[n]
  IN  /\ HandleReading("pc_read",
           CASE a \in {"good", "bad"} ->
                  client_portcheck_finish(clnt, a = "good")
             [] OTHER -> [clnt EXCEPT !.null =
                  @ \/ (~clnt.portcheck_finished /\ n = Null)])
      /\ answer' = IF a = "other" THEN [answer EXCEPT ![n] = "none"]
                   ELSE Undrained(clnt')

(* server_read starts: the length of the input is read. *)
ReadStarts ==
  /\ Take("read")
  /\ ~clnt.deleted
  /\ busy' = "read"
  /\ seen' = Whole(input)
  /\ UNCHANGED <<allow_lowid, clnt, answer, input, eof, sent>>

(* What handling a packet may do to the client, with the value returned.   *)
(* The tags decide whether a packet is well formed, which is left open.    *)
Refused(c) == [clnt |-> client_delete(c), ret |-> 0]

process_login_request(c) ==
  {[clnt |-> client_portcheck_start(c, b), ret |-> 1] : b \in BOOLEAN}
    \cup {Refused(c)}

(* The files are published, or a limit or the database keeps them out. *)
process_offer_files(c) ==
  {[clnt |-> [c EXCEPT !.published = @ \cup {<<c.id, c.port>>}], ret |-> 1],
   [clnt |-> c, ret |-> 1], Refused(c)}

(* The limits on searches and offers refuse as well. *)
process_packet(kind, c) ==
  IF ~c.portcheck_finished /\ kind \notin {"login", "corrupt"}
  THEN {Refused(c)}
  ELSE CASE kind = "login" ->
              IF c.id # "none"
              THEN {[clnt |-> UseBev(client_delete(c)), ret |-> 1]}
              ELSE process_login_request(UseBev(c))
         [] kind = "offer" -> process_offer_files(c)
         [] kind = "query" -> {[clnt |-> UseBev(c), ret |-> 1], Refused(c)}
         [] kind = "disconnect" -> {[clnt |-> client_delete(c), ret |-> 1]}
         [] kind = "corrupt" -> {[clnt |-> c, ret |-> 0]}

(* One turn of the loop in server_read.  A packet whose handling failed    *)
(* ends the loop and is not drained.  When the client was deleted and the  *)
(* result was good, the drain works on an input buffer that is released.   *)
ReadPacket ==
  /\ busy = "read" /\ ~clnt.deleted /\ seen > 0
  /\ \E r \in process_packet(Head(input), clnt) :
       /\ clnt' = r.clnt
       /\ answer' = Undrained(r.clnt)
       /\ IF r.clnt.deleted
          THEN /\ input' = <<>> /\ seen' = 0
               /\ busy' \in CASE r.clnt.null -> {"crashed"}
                              [] r.ret = 1 -> {"no", "crashed"}
                              [] OTHER -> {"no"}
          ELSE IF r.ret = 0
               THEN busy' = "no" /\ seen' = 0 /\ input' = input
               ELSE /\ busy' = "read"
                    /\ input' = Tail(input)
                    /\ seen' = Whole(Tail(input))
  /\ UNCHANGED <<allow_lowid, eof, sent, jobs>>

(* Nothing complete was there when the length was read. *)
ReadEnds ==
  /\ busy = "read" /\ seen = 0
  /\ busy' = "no"
  /\ UNCHANGED <<allow_lowid, clnt, answer, input, seen, eof, sent, jobs>>

-----------------------------------------------------------------------------

Tcp ==
  \/ \E p \in Packets : Receive(p)
  \/ \E k \in Kinds : ReceiveRest(k)
  \/ PeerCloses \/ StatusTimerFires
  \/ \E n \in Checks :
       \/ CheckConnects(n) \/ CheckFails(n) \/ CheckTimerFires(n)
       \/ \E a \in {"good", "bad", "other"} : CheckAnswers(n, a)

Work ==
  \/ \E j \in JobTypes : SkipHandler(j)
  \/ ServerEvent \/ StatusNotify \/ PortcheckConnected \/ PortcheckFailed
  \/ PortcheckTimeout \/ PortcheckRead \/ ReadStarts \/ ReadPacket \/ ReadEnds

Next == Tcp \/ Work

Spec == Init /\ [][Next]_vars

(* Every queued job is taken in the end (Shutdown!JobServed), a handler    *)
(* goes on to its end, and a timer that is armed fires.                    *)
Fairness ==
  /\ SF_vars(PortcheckTimeout \/ SkipHandler("pc_timeout"))
  /\ WF_vars(ReadPacket \/ ReadEnds)
  /\ \A n \in Checks : WF_vars(CheckTimerFires(n))

FairSpec == Spec /\ Fairness

-----------------------------------------------------------------------------
(* A complete packet never lies in the input with nobody to look at it:    *)
(* server_read is inside a loop that has seen it, or a JOB_SERVER_READ is  *)
(* queued, although data arrives while the loop works with a length it     *)
(* read earlier.  A packed packet that does not unpack blocks what follows *)
(* it and is the one exception.                                            *)
NoStrandedInput ==
  (clnt.bev /\ input # <<>>) =>
    \/ Head(input) = "part"
    \/ "corrupt" \in ToSet(input)
    \/ jobs["read"] > 0
    \/ busy = "read" /\ seen > 0
    \/ busy = "crashed"

(* A handler follows a NULL or released pointer only after it has itself   *)
(* deleted the client: late port check jobs, queued before the check was   *)
(* finished, never reach clnt->bev_pc, and a status job always finds its   *)
(* timer.                                                                  *)
PointersValid == busy = "crashed" => clnt.deleted

(* The status notification goes on for as long as an identified client is  *)
(* connected: its timer is running or its job is on the way.               *)
StatusKeepsComing ==
  (clnt.portcheck_finished /\ ~clnt.deleted) =>
    \/ clnt.evtimer_status_notify = "armed"
    \/ clnt.evtimer_status_notify = "fired" /\ jobs["status"] > 0

(* Port checks with an event source that can still call back. *)
CallsBack ==
  {n \in Checks : \/ clnt.conn[n] \in {"connecting", "connected", "down"}
                  \/ clnt.timer[n] = "armed"}

(* client_delete silences the connection, the status timer and the port    *)
(* check that was started last, whatever stage the check is in.            *)
SilentAfterDelete ==
  clnt.deleted => /\ clnt.logins \notin CallsBack
                  /\ ~clnt.bev /\ clnt.evtimer_status_notify = "none"

(* client_delete deletes all events of the client. *)
AllEventsDeleted == clnt.deleted => CallsBack = {}

(* A login is answered: the port check ends with an id for the client or   *)
(* with the end of the connection, also when the peer of the port check    *)
(* never says a word, and also when the client logs in twice.              *)
LoginAnswered ==
  clnt.logins > 0 ~> \/ clnt.portcheck_finished \/ clnt.deleted
                     \/ busy = "crashed"

(* The stage of the connection that the client can tell. *)
Phase ==
  CASE clnt.deleted -> "closed"
    [] ~clnt.deleted /\ clnt.portcheck_finished ->
         IF clnt.lowid THEN "low" ELSE "high"
    [] ~clnt.deleted /\ ~clnt.portcheck_finished ->
         IF clnt.logins = 0 THEN "anonymous" ELSE "checking"

Life == INSTANCE ClientLife WITH
  Sids <- {"high", "low"} \X (Checks \cup {Null}),
  NoSid <- <<>>,
  phase <- Phase,
  sid <- IF clnt.id = "none" THEN <<>> ELSE <<clnt.id, clnt.port>>,
  published <- clnt.published

(* The session keeps the promises of ClientLife: one identity per client,  *)
(* never changed by a port check that ends late, no low id unless the      *)
(* configuration allows it, files published under the identity that        *)
(* db_remove_source will use, and nothing after the end.                   *)
ImplementsClientLife == Life!Spec

=============================================================================
