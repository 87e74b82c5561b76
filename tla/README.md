# ed2kd in TLA+

ed2kd is an eDonkey2000 server: clients log in over TCP, are probed by a *port
check* that decides between a high and a low id, publish files and search for
them. `eb` is the load generator that comes with it. These modules specify the
parts where threads, callbacks and database statements meet, and the algorithms
between the wire and the database. TLC checks them on small instances. TLAPS
proves the central invariants for instances of every size.

## 1. The system

| part | code | state | operations |
|---|---|---|---|
| job queue, worker pool | `server.c` 23-45, 493-584; `job.c` | `jqueue`, `job_mutex`, `job_cond`, `terminate` | `server_add_job`, the scan of `server_job_worker`, wait, handler, release |
| client object | `client.c` 35-104, `client.h` | `locked`, `ref_cnt`, `deleted` | `client_new`, `client_addref`, `client_decref`, `client_delete` |
| listener | `listener.c`, `client.c` 39-41, 96-98 | `user_count`, listener on or off | `accept_cb`, enable, disable |
| session | `server.c` 47-491 | input buffer, timers, `portcheck_finished`, `id` | `server_read`, `process_packet`, `server_event`, status notification |
| framing | `server.c` 431-483 | input bytes, `src_len` | the loop of `server_read` |
| rate limits | `util.c` 101-116 | token buckets | `token_bucket_update` |
| port check | `portcheck.c`, `client.c` 138-195 | `bev_pc`, `evtimer_portcheck` | start, connect, answer, failure, timeout, finish |
| ids | `client.c` 21-33, 179-189 | `lowid_counter`, `id` and `port` of a client | `get_next_lowid`, `client_portcheck_finish` |
| index | `db_sqlite.c`, `client.c` 197-235 | tables `files`, `fnames` and `sources`, `file_count` on the server and on each client | share, remove, search, get sources |
| search | `server.c` 247-356, `db_sqlite.c` 286-518, `packet.c` 159-302 | the tree, the name term, the reply | parse, walk, query, write |
| start and stop | `main.c`, `server.c` 586-591, `listener.c` 59-93 | both event bases, the threads | `db_open`, `server_listen`, `sigint_cb`, joins, destruction |
| benchmark | `eb/src/main.c` | clients, timers, a budget of actions | `spawn_cb`, `event_cb`, `read_cb`, `timer_cb`, `client_free` |
| other serialisation, utilities, configuration, log | `packet.c` 14-157, `util.c`, `config.c`, `log.c` | none after start-up | |

**Who runs what.** The main thread runs `evbase_main`: the listener and SIGINT.
The tcp thread runs `evbase_tcp`, and its callbacks do nothing but queue a job
and take a reference on the client. A pool of workers takes jobs from the one
queue, skips jobs of a client whose `locked` flag is taken, and runs the
handler. Every worker has its own connection to one shared in-memory database.

**What is hard about it.** No lock covers a client's life: a compare-and-swap on
`locked`, another on `deleted`, and `ref_cnt` have to work together with
callbacks that are still running. A job is signalled once and may be passed over
by every scan. Jobs of one client can overtake each other. `server_read` works
with a length it read earlier. Counting a client and switching the listener are
two steps. A file is shared in three statements without a transaction, with seven
triggers behind them. A search is parsed and translated without a stack, into a
buffer of fixed size. The stop of the server races with workers that go to sleep,
and with a loop that has not started.

**What makes each part correct.**
Queue: one handler per client, no job forgotten.
Client object: the counter counts the jobs, memory goes after the last of them,
no callback runs afterwards.
Listener: the count is exact, the excess is bounded, the listener recovers.
Session: one identity, nothing after the end, every login answered, no packet
left lying.
Framing and limits: each packet once and in order, however it is cut; the limit
holds over any stretch of time and nobody is refused without a cause.
Ids: two clients share a low id only a round of the counter apart, and lose rows to
nobody else.
Index: rows agree with sources, departures leave nothing unless a statement failed, the
limit has a bound, a file is found by its name.
Search: the tree is the request, the reply is what the request means.
Start and stop: it ends, and nobody uses what was destroyed, apart from a worker that
was about to sleep.
Benchmark: clients, timers and budget are accounted for, the last client ends it.

## 2. Modules

| module | models | one step is |
|---|---|---|
| `JobQueue` | queue, pool, `locked` / `ref_cnt` / `deleted`, release of a client | one access to shared state |
| `ClientLimit` | `user_count` and the listener | one access to shared state |
| `Session` | one connection with its port checks, timers and input buffer | one callback, one handler, or one turn of the loop in `server_read` |
| `ClientLife` | what the server promises about one client (abstract) | login, identification, publication, end |
| `ClientIds` | ids of several clients and their rows, extending `ClientLimit` | one access to shared state, or one handler |
| `TokenBucket` | `token_bucket_update` and the wall clock | one request, or one move of the clock |
| `Inbound` | the bytes of one connection through `server_read`, extending `TokenBucket` | one fragment, or one turn of the loop |
| `SourceDb` | the tables with their triggers and the file counters | one SQL statement, or the code between two |
| `Search` | one search: parser, walk, query and reply | one turn of one of the loops |
| `SearchMeaning` | what a search means (reference), and the properties of `Search` | |
| `Shutdown` | `main()` from the start of the threads on, extending `JobQueue` | one call of `main()` |
| `Benchmark` | `eb` | one callback |
| `*Proofs` (8 modules) | theorems | |
| `MC*` | instances for TLC | |

Variables have the names of the fields they stand for (`jqueue`, `ref_cnt`,
`user_count`, `file_count`, `bev_pc`, ...). An action has the name of the function
where it is a whole function (`client_delete`, `process_packet`), or says which
part of it it is (`TakeJob`, `UnlockClient`, `DecRef`). Definitions called a
*faulty variant* are altered copies of the operator that follows them. They are
used only to see that a property notices the fault.

**How they fit together.** `JobQueue` shows that handlers of one client exclude
each other. `Session` uses that: a handler is one step there. It also uses that
jobs of one client can overtake each other: pending jobs are a bag, counted by
type. `Shutdown!JobServed` justifies the fairness of `Session` and `Inbound`.
`Shutdown` is composed with `JobQueue` step by step, `ClientIds` with `ClientLimit`,
and `Inbound` with `TokenBucket`; each adds its own steps to theirs, and the proofs
show that the smaller specification is implemented. `SourceDb` has one handler per
client, each on one of the `Threads`, which own the prepared statements; its rows
carry one sid for each client, and `ClientIds` says when two clients share one.
`Benchmark` is the other end of a connection: that the server sends OP_IDCHANGE
once is what `ClientLife` promises.

**What is abstract.** In `Session` a packet is a kind and whether it has arrived
entirely; whether its tags are well formed is a choice, and a rate limit is a choice
between accepted and refused. `Inbound` has the bytes and the limit, for a client
that is logged in, and a packet there is what `server_read` tells apart. Of the two
buckets of a client it has the one for searches; the one for offers is used in the same way.
An id in `Session` is "high" or "low", and the port is the number of the login that
brought it. `SourceDb` has two names for a file and a small set of ratings; media
data are left out. In `Search` a term is one token and the text of a name is a
model value with a length; what the text index finds is computed on such values.

### External behaviour that is assumed

* libevent runs a bufferevent's callback under its lock, and `bufferevent_free`
  takes that lock. `event_del` from another thread waits for a running callback.
  So no callback starts after `client_delete` has freed its source.
* A listener that is off hands over no connection. Old versions of libevent go
  on with the connections pending in the same callback after
  `evconnlistener_disable`. With those the excess over the limit grows by the
  backlog, and `LimitWithSlack` does not hold.
* `pthread_cond_wait` may wake up without a signal (`SpuriousWakeup`).
* `pthread_cond_destroy` returns `EBUSY` while threads wait, as the loop at
  `main.c` 169 expects. Newer versions of glibc wait for the sleepers instead,
  and those are then never woken.
* A writing `sqlite3_step` is atomic in a shared cache. It fails with
  `SQLITE_LOCKED` while another connection is inside a SELECT on its table.
* `sqlite3_reset` returns the error of the last `sqlite3_step` of the statement,
  once. `DB_CHECK` takes it for a failure of the new call, so the next use of
  that statement on that thread fails too (`ResetFails`, `ErrorNoted`).
* SQLite leaves the order of two triggers on one event open (`Named` allows both),
  and INSERT OR REPLACE fires no delete trigger for the row it replaces
  (`recursive_triggers` is off).
* `fnames` is an external-content FTS4 table: a DELETE takes out the words of the
  name that `files` holds at that moment. MATCH reads the enhanced query syntax;
  terms without an operator between them must all match (`Match`).
* The wall clock may be set back (`ClockBack`).
* `event_base_dispatch` clears a loopbreak that was asked for before it, so
  `server_stop` before the tcp thread is in its loop is lost (`early`).
* `evconnlistener_free` needs a listener (`Release`).
* In `eb`, a `bufferevent_socket_connect` that returns -1 has run no callback.
* `evbase_main` may fail in its dispatch; `evbase_tcp` does not.
* The byte after a packet header lies in the same piece of the input buffer, if it has
  arrived. `evbuffer_pullup` guarantees that for the header only (`Overruns`).
* A call of the database can fail when there is a second worker, at any of its
  statements (`ClientIds!Results`; `SourceDb` has the causes).
* Workers that meet the destroyed mutex at the end go on as if it were free
  and read `terminate`.

## 3. Runs

Deadlock is not checked. Every instance comes to rest when its bounded events
are used up, with the workers asleep, or at the end of `main()`.

| run | instance | checks |
|---|---|---|
| `jobqueue` | 2 clients, 3 workers, 2 events each | `HandlerSeesLive`, `MutualExclusion`, `RefCountExact`, `LiveWhileReferenced`, `QuietWhenFreed`, `NoLostWakeup` |
| `clientlimit` | 2 workers, limit 2, `MAX_LOWID` 2; either 6 clients that never log in, or 3 that do, of which two share an address that reads like a low id | `CountExact`, `LimitWithSlack`, `LowIdsFarApart`, `RowsKept`, `NoRowsLeft`, `ListenerRecovers` |
| `session` | 3 packets, 2 logins | `NoStrandedInput`, `PointersValid`, `StatusKeepsComing`, `SilentAfterDelete`, `LoginAnswered`, `ImplementsClientLife` |
| `sourcedb` | 2 files, and either 1 thread with 2 clients and 2 packets each, or 2 threads with 3 clients and limit 0 | `IndexExact`, `GoneLeavesNothing`, `NeverOvercounted`, `FoundByName`, `FilesWithinSlack` |
| `shutdown` | 1 client, 2 workers, 3 events | `ReleasedUnused`, `TcpJoined`, `EndsUnlessRacing`, and the liveness of the pool: `JobServed`, `DeletedIsFreed` |
| `search` | all requests of up to 5 terms over 3 names and 3 kinds of constraints, 4 files, replies of 2, a name buffer of 21 | `TreeIsInput`, `AnsweredIffComplete`, `ResultIsMeant`, `EntriesAsAnnounced`, `SearchEnds` |
| `inbound` | up to 3 packets in 3 fragments, limit 1, a clock that moves twice | `HandledInOrder`, `RateBounded`, `RefusedForCause`, `AllServed`, `EmptyEndsConnection` |
| `benchmark` | 3 clients, budget 2 | `EndsComplete`, `Ends` |

The type invariants document the state. They hold on the same instances; that of
`JobQueue` is proved (`TypeCorrect`), and what the other proofs need of theirs is part
of the inductive invariants.

**Why the bounds are enough.** `jobqueue`: one worker in a handler of a client, one
that skips that client's job, one that goes to sleep in between. Two events for
each client: one whose handler deletes the client and one queued behind it.
`session`: a second login before the first check ends, or after it, and what
follows. `clientlimit`: six clients reach the whole excess that `LimitWithSlack` allows, the
limit and one more for each of the two workers; the third low id of a counter with two
values is the first one again. The count does not tell clients apart, so the six need
no ids, and the three with ids need not reach the limit (`Alike`).
`sourcedb`: two statements interleave while a third client's rows are there, or while
a third reads. A limit of zero files admits the offers that begin before the first
is counted, since the test is `file_count > max_files`; packets of two files give an
offer that fails half-way. With one thread, clients offer twice, with other names,
ratings and repeated hashes. `search`: five terms are two operators with three
operands in both shapes; the buffer holds one operator with two names and not
every tree of two, and the files tell apart all operators and constraints.
`inbound`: a header alone, a packet cut in the middle, and several packets at once;
behind a packet that stops the stream another one follows. `benchmark`: the budget
is smaller than the number of clients, so some end without an action.

**Fairness.** Every thread keeps running (weak fairness of its steps). A thread
that waits for `job_mutex` gets it in the end although others keep taking it
(strong fairness of `LockMutex` and `AddJob`); a pthread mutex does not promise
it, and the short critical sections make it true in practice. In `Session`, an
armed port check timer fires, and a job waiting for the client's lock is taken
in the end (strong fairness, from `JobServed`). In `ClientIds` it is
enough that some thread inside `accept_cb` or `client_delete` goes on (`GoesOn`). The
parser and the walk are sequential (weak fairness of their steps). In `Benchmark`
timers fire and the server answers a login or closes the connection. Peers of the
server are never fair: they may be silent for ever.

**Symmetry** is used for clients, workers and files in runs without temporal
properties only.

### Where the code and its own words disagree

Each of these runs checks one statement of the repository, and TLC returns a
behaviour in which the code does otherwise.

| run | statement | behaviour |
|---|---|---|
| `jobqueue_free` | `client.h:58` "references counter" | `!atomic_fetch_sub(...) - 1` at `client.h:93` is true for every count above zero. Two workers with the last two references of a deleted client both decrement, both find zero and both free it. |
| `session_events` | `client.c:64` "delete all events" | A second login while the port check runs overwrites `bev_pc` and `evtimer_portcheck`; `client_delete` frees only the last ones. |
| `sourcedb_kept` | `db_sqlite.c:95` "delete when no sources available" | Two clients offer a new file. The update of the second meets the row of the first with `srcavail` 0, and the trigger deletes it. Both sources stay, without a file. |
| `shutdown_race` | `main.c:52` "caught SIGINT, terminating..." | A worker reads `terminate`, main destroys the condition variable, the worker goes to sleep on it for ever. |

The passing runs say how far the damage goes: `SilentAfterDelete` holds for the
last port check, `NeverOvercounted` says that files are lost and never invented,
and `EndsUnlessRacing` with `TcpJoined` that the race at `main.c:169` and a stop
before the tcp loop has started are the only ways to hang, apart from a main loop
that fails: `server_listen` logs that and returns 1 (`listener.c:88`), nobody calls
`server_stop`, and `main()` waits for the tcp thread (`DispatchFails`; `TcpJoined`
speaks of a stop).

Weaker statements than one would like, because the stronger one is false:

* The count of clients can exceed `max_clients`: a deletion decides to enable the
  listener, a new client fills the place and disables it, and the enable comes last.
  `LimitWithSlack` gives the bound that holds, and the run reaches it.
* `IndexExact` leaves out `rated_count`, which the trigger `sources_ai` sets to 0 when
  an unrated source joins rated ones (`db_sqlite.c:86`).
* `GoneLeavesNothing` and `IndexExact` are stated for one thread (a pool in which
  one worker alone could open its database). With more, `db_share_files` can fail
  at its second file: the first is published and not counted, and
  `client_delete` removes nothing for a count of zero. `NoRowsLeft` says for any number
  of workers that rows stay only after such an offer, if no other one was counted, or
  after a removal that failed: `client.c:85` does not look at its result.
* `RowsKept` excepts clients with the same source id: a second connection from the
  same address and port (`server.c:114` has it as a todo), or a low id that comes
  round again while the first is still in use (`client.c:28`).
* `RefusedForCause` names a clock that was set back: `token_bucket_update` then takes
  tokens away and the next search ends the connection.
* `EmptyEndsConnection` and `HandledInOrder` promise nothing once `undefined` is set: a
  header with length 0 followed by a byte of no protocol, or a packed one, is
  handled past the end of the input (`server.c:463`, `server.c:473`).
* `ResultIsMeant` speaks of requests that the query can express (`Expressible`): one
  part made of names, joined by AND with constraints of different kinds that are not
  zero. Others are read as something else: there is one slot for each kind, OR
  and NOT over a constraint become AND, and two separate parts of names are written
  next to each other without an operator (`db_sqlite.c:352`).
* `EntriesAsAnnounced` excepts files with a length and no bitrate or the other way
  round, for which `packet.c:166` counts wrongly.
* `FoundByName` says that a file is found by its own name. Old names may
  stay in the index, because a replaced row fires no trigger.
* `JobServed` excepts a pool whose every `db_open` failed, and `EndsUnlessRacing` says
  that main() falls over at `main.c:184` when the listener was never bound.
* `Ends` excepts a connect that failed at once, which `eb` counts as running for ever
  (`eb/src/main.c:460`), and a client whose OP_IDCHANGE was malformed.

`PointersValid` also has an exception that shows in the code and that no
comment denies: a handler that has deleted its own client and goes on (a login of an
identified client, `server.c:366`; the drain at `server.c:480` after
OP_DISCONNECT). `NoStrandedInput` excepts a packed packet that does not
unpack (`server.c:469`), which is neither drained nor answered.

## 4. Proofs

TLAPS checks these for any finite set of clients and workers and any number of
events. The constants are assumed to be finite sets and positive numbers.

**`JobQueueProofs`.** The inductive invariant has six layers, each proved with the
help of the ones below it.

1. `Basic`: the types, that the owner of `job_mutex` is the worker inside it
   (`MutexInv`), that a worker past the scan has a job (`HandInv`), what the tcp
   thread carries (`TcpInv`), that a new job is not yet in the queue and no job is in it
   twice (`QueueInv`), and that armed, deleted and referenced clients were accepted
   (`OriginInv`).
2. `Inv1`: `Basic` with `RefCountExact`. By `QueueInv`, adding or taking a job moves
   exactly one element of a finite set, so the count stays exact.
3. `LockInv`: two workers inside handlers have different clients, and the client
   of each is locked. `MutualExclusionHolds`.
4. `LifeInv`: a client that is past its deletion has no armed source and no
   callback running (`SilentInv`), and a client that is freed is deleted and has no
   references (`FreeInv`). With layer 2 a counter of zero means that no job exists, and
   none can be made. `LiveWhileReferencedHolds`, `QuietWhenFreedHolds`.
5. `AttendInv`: a client that was accepted is armed until it is marked, and marked
   when it is disarmed. With layer 3 nobody else marks or disarms the client of a handler.
   `HandlerSeesLiveHolds`.
6. `WakeInv`: while a scan has passed a job, another worker is awake, the one that
   locked the client (`ScanInv`). It cannot fall asleep without the mutex, so the last
   worker to sleep has passed no job. `NoLostWakeupHolds`.

**`ClientLimitProofs`.** `Inv` joins the exact count with `SlackBudget`: at or
above the limit, the count, the workers about to enable and an open listener
together stay within the limit plus the number of workers. `DisableHasCause`
says that the client for whom the listener is switched off is still counted, and `VictimsOwned` that no two
workers delete the same client. From it follow `CountExactHolds`,
`LimitWithSlackHolds` and `OffIsTemporaryHolds`.

**`ShutdownProofs`.** The layers 1 to 4 carry over to the composed system
(`PoolInv`): a failed `db_open` and the broadcast of `main()` move only workers that
hold neither the mutex nor a job (`IdleMoves`), and every other step is one of
`JobQueue`. On top comes `MainInv`, what `main()` knows after each join. After that of
the tcp thread `terminate` is set, so no worker begins a scan, and those that can still
come to wait are the ones that were scanning (`racing`). `ReleasedUnusedHolds`, and `PoolSafeThroughout` for mutual exclusion and the counter.

**`ClientIdsProofs`.** `MintInv` places every low id of the current round: it is as far
behind the counter as it is old (`InPlace`). A compare-and-swap that succeeds moves
the counter and the age of every id by one, and the wrap keeps the distance;
`LowIdsFarApartHolds`. `IdSpecImplementsLimit` maps each step to one of `ClientLimit`
or to a stutter, so its theorems hold for the composition. `RowsInv` says that a row
carries the identity its owner still has, which needs that a client waiting for
a low id has one worker and no rows, and that its owner has a count or an error
(`RowsSigned`); `NoRowsLeftHolds`. With `LowIdsFarApart`, and ids with a port being
addresses (`HighIsAddr`), a row can be removed only for an identity that is the owner's;
`RowsKeptHolds`.

**`TokenBucketProofs`.** `SpendInv`: what was accepted and what the bucket would hold
if asked now are together at most one burst and the refill of the seconds the clock has
gone forward. It is linear in the clock, so a step back lowers the left side.
`CauseInv`: before the first step back the bucket lacks exactly what was taken in the
last second. `RateBoundedHolds`, `RefusedForCauseHolds`, for every limit.

**`InboundProofs`.** Every step of a connection is one request to the bucket or
leaves it alone (`InboundImplementsBucket`), so both bounds hold on the wire for every
stream and fragmentation.

**`SourceDbProofs`.** `RowsOK`: a row that exists has its name in the index. Each
trigger keeps it, in both orders that SQLite may choose, so each statement
does, whatever other threads do in between. `FoundByNameHolds`.

**`BenchmarkProofs`.** `BenchInv` adds to the properties that clients are spawned in
order (`Spawns`), so that a spawned client is new to both sets whose sizes are
counted, and what the budget is in each phase (`Budget`). `RunningCountedHolds`,
`TimersOwnedHolds`, `BudgetSharedHolds`, `EndsCompleteHolds`. The first three, like
`OffIsTemporaryHolds`, are proved and have no run of their own.

**Only model-checked.** Liveness, because fairness is beyond this prover: `JobServed`,
`DeletedIsFreed`, `ListenerRecovers`, `LoginAnswered`, `TcpJoined`,
`EndsUnlessRacing`, `AllServed`, `EmptyEndsConnection`, `SearchEnds`, `Ends`. `Search`: its
reference is recursive. `IndexExact`, `NeverOvercounted` and `FilesWithinSlack`: they
rest on sums over sets and on a filter of a sequence, which need induction over
data; `GoneLeavesNothing` rests on them. `HandledInOrder`: the position of a packet is a
recursive sum of lengths. `Session` and its refinement of `ClientLife`.

## 5. Not modelled

* The send functions of `packet.c` other than the search reply: they write constants and
  fields without a condition. `Session` has the pointer they need.
* Configuration (`config.c`) and the options of `main()`: read once before a thread
  starts. Their values are constants, or chosen in `Init`.
* Logging: output only.
* The helpers of `util.c` other than the token bucket: total functions on strings,
  and no condition of the modelled code depends on their results.
* The tags inside login and offer packets: a packet is well formed or not. So a file
  name longer than the limit, of which the rest is read as tags (`server.c:191`), is
  one of the packets that may be either.
* Rounding of ratings in `write_search_file` (`packet.c:240`-`254`).
* Memory: what is never freed (the statement of a search, `db_sqlite.c:510`; the array of
  an offer, `server.c:136`), what has no bound (`server.c:451`), and exhaustion, which the
  code does not handle.
* SQLite, zlib, uthash, libevent and `queue.h`: taken as a transactional store, a partial
  function, a set, event sources and a sequence, with the behaviour listed in
  section 2.
