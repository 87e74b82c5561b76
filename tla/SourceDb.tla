------------------------------ MODULE SourceDb ------------------------------
(***************************************************************************)
(* The shared in-memory database: the tables files, fnames and sources     *)
(* with their triggers, the statements that handlers of different clients  *)
(* interleave, and the counters kept next to them.                         *)
(*                                                                         *)
(* A statement is atomic: SQLite runs a writing sqlite3_step under the     *)
(* mutex of the shared cache.  db_share_files is not, it runs up to three  *)
(* statements for every file.  A statement that writes a table fails with  *)
(* SQLITE_LOCKED while another connection is inside a SELECT on it, and    *)
(* nothing is retried.  sqlite3_reset returns the error of the last step   *)
(* once more, so the next use of the statement on that thread fails too.   *)
(***************************************************************************)
EXTENDS Integers, FiniteSets, Sequences, SequencesExt, FiniteSetsExt

CONSTANTS
  Clients,               \* connected clients, each with an sid of its own
  Files,                 \* file hashes; their fids are taken to be distinct
  Threads,               \* workers, each with a connection and statements
  Ratings,               \* ratings that files are offered with, 0 for none
  max_files_per_client,  \* cfg.max_files_per_client
  Setups,                \* what the server may be started with
  MaxOffers,             \* bound: OP_OFFERFILES packets of one client
  MaxOffer               \* bound: files in one packet

ASSUME SetsFinite ==
  IsFiniteSet(Clients) /\ IsFiniteSet(Files) /\ IsFiniteSet(Threads)
ASSUME BoundsNat ==
  {max_files_per_client, MaxOffers, MaxOffer} \cup Ratings \subseteq Nat

(* One entry of a packet; named is false for a file without a name tag,    *)
(* and set to false for one that the client has offered before.            *)
Entries == [fid : Files, rating : Ratings, named : BOOLEAN]

Offers == UNION {[1 .. n -> Entries] : n \in 1 .. MaxOffer}

(* The workers whose db_open succeeded and cfg.max_files; the clients that *)
(* come, the packets they send and how many of them are bounds.            *)
ASSUME SetupsTyped ==
  Setups \subseteq [threads : SUBSET Threads, max_files : Nat,
                    clients : SUBSET Clients, packets : SUBSET Offers,
                    offers : 0 .. MaxOffers]

NoName == "unnamed"

(* A row of files, with the names under which the full-text index fnames   *)
(* has its fid; every client has a name of its own for a file.             *)
NoRow == [srcavail |-> 0, rating |-> 0, rated_count |-> 0, exists |-> FALSE,
          name |-> NoName, fnames |-> {}]

VARIABLES
  setup,        \* of the setups, the one this server runs with
  files,        \* tables files and fnames, by fid
  sources,      \* table sources: records [fid, sid, rating]
  file_count,   \* g_srv.file_count
  count,        \* client.file_count
  shared_files, \* client.shared_files
  gone,         \* client_delete has run to its end
  offers,       \* offers made so far
  pc,           \* what the handler of the client does next
  on,           \* thread that runs the handler of the client
  error,        \* statements of a thread whose last step failed
  batch,        \* entries of the offer still to be written
  real_count    \* local variable of client_share_files, 0 outside of it

vars == <<setup, files, sources, file_count, count, shared_files, gone, offers,
          pc, on, error, batch, real_count>>

dbVars == <<files, sources>>

NoThread == "none"   \* the client has no handler running

(* SHARE_UPD, SHARE_INS, SHARE_SRC and REMOVE_SRC *)
Writes == {"upd", "ins", "src", "remove"}

Steps == Writes \cup {"idle", "count", "search", "get", "uncount"}

TypeOK ==
  /\ setup \in Setups
  /\ files \in [Files -> [srcavail : Int, rating : Int, rated_count : Int,
                          exists : BOOLEAN, name : Clients \cup {NoName},
                          fnames : SUBSET Clients]]
  /\ sources \subseteq [fid : Files, sid : Clients, rating : Ratings]
  /\ file_count \in Nat
  /\ count \in [Clients -> Nat]
  /\ shared_files \in [Clients -> SUBSET Files]
  /\ gone \in SUBSET Clients
  /\ offers \in [Clients -> 0 .. MaxOffers]
  /\ pc \in [Clients -> Steps]
  /\ on \in [Clients -> Threads \cup {NoThread}]
  /\ error \in [Threads -> SUBSET Writes]
  /\ \A c \in Clients : batch[c] \in Seq(Entries)
  /\ real_count \in [Clients -> 0 .. MaxOffer]

Init ==
  /\ setup \in Setups
  /\ files = [f \in Files |-> NoRow]
  /\ sources = {}
  /\ file_count = 0
  /\ count = [c \in Clients |-> 0]
  /\ shared_files = [c \in Clients |-> {}]
  /\ gone = {}
  /\ offers = [c \in Clients |-> 0]
  /\ pc = [c \in Clients |-> "idle"]
  /\ on = [c \in Clients |-> NoThread]
  /\ error = [t \in Threads |-> {}]
  /\ batch = [c \in Clients |-> <<>>]
  /\ real_count = [c \in Clients |-> 0]

-----------------------------------------------------------------------------
(* The triggers.                                                           *)

(* files_au, after an UPDATE: the row goes when it says no sources, and    *)
(* files_fts3 takes the name it has now out of the index.                  *)
Updated(row) ==
  IF row.srcavail = 0
  THEN [NoRow EXCEPT !.fnames = row.fnames \ {row.name}] ELSE row

Indexed(row, name) == [row EXCEPT !.fnames = @ \cup {name}]

(* Faulty variant of Named: the new name is not put into the index. *)
NamedOnly(row, name) ==
  IF row.name = name THEN {Updated(row)}
  ELSE {Updated([row EXCEPT !.fnames = @ \ {row.name}, !.name = name])}

(* files_fts1 before an UPDATE of the name, files_fts2 after it, before or *)
(* after files_au: SQLite leaves the order open.                           *)
Named(row, name) ==
  LET moved == [row EXCEPT !.fnames = @ \ {row.name}, !.name = name]
  IN  IF row.name = name THEN {Updated(row)}
      ELSE {Updated(Indexed(moved, name)), Indexed(Updated(moved), name)}

(* An INSERT OR REPLACE, which fires no trigger for the row it replaces,   *)
(* and files_fts4.                                                         *)
NewRow(row, name) ==
  Indexed([NoRow EXCEPT !.exists = TRUE, !.name = name,
                        !.fnames = row.fnames], name)

(* sources_ai; the rated_count of a file is reset by an unrated source. *)
CountIn(row, rating) ==
  IF row.exists
  THEN Updated([row EXCEPT
         !.srcavail = @ + 1, !.rating = @ + rating,
         !.rated_count = IF rating # 0 THEN @ + 1 ELSE 0])
  ELSE row

(* Faulty variant of CountOut: an update that leaves no sources keeps the  *)
(* row.                                                                    *)
CountOutKeeps(row, rating) ==
  IF row.exists
  THEN [row EXCEPT
         !.srcavail = @ - 1, !.rating = @ - rating,
         !.rated_count = IF rating # 0 THEN @ - 1 ELSE @]
  ELSE row

(* Faulty variant of CountOut: the trigger does not fire. *)
CountOutDropped(row, rating) == row

(* sources_bd *)
CountOut(row, rating) ==
  IF row.exists
  THEN Updated([row EXCEPT
         !.srcavail = @ - 1, !.rating = @ - rating,
         !.rated_count = IF rating # 0 THEN @ - 1 ELSE @])
  ELSE row

-----------------------------------------------------------------------------
(* Handlers.  A handler runs on a thread of its own connection.            *)

(* Threads that run no handler. *)
Free == setup.threads \ {on[c] : c \in Clients}

Begins(c) ==
  /\ pc[c] = "idle"
  /\ c \in setup.clients \ gone
  /\ \E t \in Free : on' = [on EXCEPT ![c] = t]

Goto(c, step) == pc' = [pc EXCEPT ![c] = step]

Returns(c) == Goto(c, "idle") /\ on' = [on EXCEPT ![c] = NoThread]

(* Another connection is in the middle of a SELECT. *)
FilesRead(c) == \E d \in Clients \ {c} : pc[d] = "search"
SourcesRead(c) == \E d \in Clients \ {c} : pc[d] \in {"search", "get"}

(* sqlite3_reset gives the error of an earlier step. *)
ResetFails(c) == pc[c] \in error[on[c]]

(* The statement the handler is at fails, in sqlite3_reset or in its step. *)
Fails(c) ==
  \/ ResetFails(c)
  \/ pc[c] \in {"upd", "ins"} /\ FilesRead(c)
  \/ pc[c] \in {"src", "remove"} /\ SourcesRead(c)

(* A failed reset clears the error, a failed step leaves one. *)
ErrorNoted(c) ==
  error' = [error EXCEPT ![on[c]] =
              IF ResetFails(c) THEN @ \ {pc[c]} ELSE @ \cup {pc[c]}]

(* An entry is written when it has a name and its hash is new, to this     *)
(* client and within the packet.                                           *)
Fresh(c, o) ==
  SelectSeq([i \in DOMAIN o |-> [o[i] EXCEPT !.named =
               @ /\ o[i].fid \notin shared_files[c]
                 /\ \A j \in 1 .. i - 1 : o[j].fid # o[i].fid]],
            LAMBDA e : e.named)

Hashes(o) == {o[i].fid : i \in DOMAIN o}

(* The first step for the entries that are left. *)
Proceed(c, b) ==
  /\ batch' = [batch EXCEPT ![c] = b]
  /\ Goto(c, IF b = <<>> THEN "count" ELSE "upd")

(* The client, or the server, has its limit of files: a warning is sent. *)
OfferRefused(c) ==
  /\ pc[c] = "idle" /\ c \in setup.clients \ gone /\ Free # {}
  /\ offers[c] < setup.offers
  /\ count[c] > max_files_per_client \/ file_count > setup.max_files
  /\ offers' = [offers EXCEPT ![c] = @ + 1]
  /\ UNCHANGED <<dbVars, file_count, count, shared_files, gone, pc, on, error,
                 batch, real_count>>

(* Faulty variant of OfferBegins: no test of the limit on the server. *)
OfferUnlimited(c, o) ==
  /\ Begins(c)
  /\ offers[c] < setup.offers
  /\ count[c] <= max_files_per_client
  /\ offers' = [offers EXCEPT ![c] = @ + 1]
  /\ shared_files' = [shared_files EXCEPT ![c] = @ \cup Hashes(o)]
  /\ real_count' = [real_count EXCEPT
                      ![c] = Cardinality(Hashes(o) \ shared_files[c])]
  /\ Proceed(c, Fresh(c, o))
  /\ UNCHANGED <<dbVars, file_count, count, gone, error>>

(* client_share_files up to db_share_files.  real_count counts the hashes  *)
(* that are new, with a name or without.                                   *)
OfferBegins(c, o) ==
  /\ Begins(c)
  /\ offers[c] < setup.offers
  /\ count[c] <= max_files_per_client
  /\ file_count <= setup.max_files
  /\ offers' = [offers EXCEPT ![c] = @ + 1]
  /\ shared_files' = [shared_files EXCEPT ![c] = @ \cup Hashes(o)]
  /\ real_count' = [real_count EXCEPT
                      ![c] = Cardinality(Hashes(o) \ shared_files[c])]
  /\ Proceed(c, Fresh(c, o))
  /\ UNCHANGED <<dbVars, file_count, count, gone, error>>

(* db_share_files gives up: what it wrote stays, nothing is counted. *)
ShareFails(c) ==
  /\ pc[c] \in {"upd", "ins", "src"} /\ Fails(c)
  /\ ErrorNoted(c)
  /\ Returns(c)
  /\ batch' = [batch EXCEPT ![c] = <<>>]
  /\ real_count' = [real_count EXCEPT ![c] = 0]
  /\ UNCHANGED <<dbVars, file_count, count, shared_files, gone, offers>>

(* SHARE_UPD: the row, when there is one, takes the name and the triggers  *)
(* on an update look at it; sqlite3_changes counts it anyway.              *)
ShareUpdates(c) ==
  LET f == Head(batch[c]).fid
  IN  /\ pc[c] = "upd" /\ ~Fails(c)
      /\ Goto(c, IF files[f].exists THEN "src" ELSE "ins")
      /\ \E row \in IF files[f].exists THEN Named(files[f], c)
                    ELSE {files[f]} :
           files' = [files EXCEPT ![f] = row]
      /\ UNCHANGED <<sources, file_count, count, shared_files, gone, offers,
                     on, error, batch, real_count>>

(* SHARE_INS, an INSERT OR REPLACE *)
ShareInserts(c) ==
  /\ pc[c] = "ins" /\ ~Fails(c)
  /\ Goto(c, "src")
  /\ files' = [files EXCEPT ![Head(batch[c]).fid] = NewRow(@, c)]
  /\ UNCHANGED <<sources, file_count, count, shared_files, gone, offers,
                 on, error, batch, real_count>>

(* SHARE_SRC, and on to the next entry *)
ShareAddsSource(c) ==
  LET e == Head(batch[c])
  IN  /\ pc[c] = "src" /\ ~Fails(c)
      /\ sources' = sources \cup
           {[fid |-> e.fid, sid |-> c, rating |-> e.rating]}
      /\ files' = [files EXCEPT ![e.fid] = CountIn(@, e.rating)]
      /\ Proceed(c, Tail(batch[c]))
      /\ UNCHANGED <<file_count, count, shared_files, gone, offers, on,
                     error, real_count>>

(* Faulty variant of ShareCounts: the client is not told of its files. *)
ShareCountsServer(c) ==
  /\ pc[c] = "count"
  /\ file_count' = file_count + real_count[c]
  /\ real_count' = [real_count EXCEPT ![c] = 0]
  /\ Returns(c)
  /\ UNCHANGED <<dbVars, count, shared_files, gone, offers, error, batch>>

(* db_share_files succeeded. *)
ShareCounts(c) ==
  /\ pc[c] = "count"
  /\ count' = [count EXCEPT ![c] = @ + real_count[c]]
  /\ file_count' = file_count + real_count[c]
  /\ real_count' = [real_count EXCEPT ![c] = 0]
  /\ Returns(c)
  /\ UNCHANGED <<dbVars, shared_files, gone, offers, error, batch>>

(* db_search_files and db_get_sources hold their table locks from the      *)
(* first row to the last.                                                  *)
QueryBegins(c, step) ==
  /\ Begins(c)
  /\ Goto(c, step)
  /\ UNCHANGED <<dbVars, file_count, count, shared_files, gone, offers,
                 error, batch, real_count>>

QueryEnds(c) ==
  /\ pc[c] \in {"search", "get"}
  /\ Returns(c)
  /\ UNCHANGED <<dbVars, file_count, count, shared_files, gone, offers,
                 error, batch, real_count>>

(* client_delete: nothing is removed for a client with a count of zero. *)
DeleteBegins(c) ==
  /\ Begins(c)
  /\ Goto(c, IF count[c] # 0 THEN "remove" ELSE "uncount")
  /\ UNCHANGED <<dbVars, file_count, count, shared_files, gone, offers,
                 error, batch, real_count>>

RowsOf(c) == {s \in sources : s.sid = c}

(* db_remove_source; client_delete does not look at its result. *)
DeleteRemoves(c) ==
  /\ pc[c] = "remove"
  /\ IF Fails(c)
     THEN ErrorNoted(c) /\ UNCHANGED dbVars
     ELSE /\ UNCHANGED error
          /\ sources' = sources \ RowsOf(c)
          /\ files' = [f \in Files |->
               IF \E s \in RowsOf(c) : s.fid = f
               THEN CountOut(files[f],
                             (CHOOSE s \in RowsOf(c) : s.fid = f).rating)
               ELSE files[f]]
  /\ Goto(c, "uncount")
  /\ UNCHANGED <<file_count, count, shared_files, gone, offers, on, batch,
                 real_count>>

DeleteEnds(c) ==
  /\ pc[c] = "uncount"
  /\ file_count' = file_count - count[c]
  /\ count' = [count EXCEPT ![c] = 0]
  /\ shared_files' = [shared_files EXCEPT ![c] = {}]
  /\ gone' = gone \cup {c}
  /\ Returns(c)
  /\ UNCHANGED <<dbVars, offers, error, batch, real_count>>

-----------------------------------------------------------------------------

Handler(c) ==
  \/ OfferRefused(c) \/ \E o \in setup.packets : OfferBegins(c, o)
  \/ ShareFails(c) \/ ShareUpdates(c) \/ ShareInserts(c)
  \/ ShareAddsSource(c) \/ ShareCounts(c)
  \/ \E step \in {"search", "get"} : QueryBegins(c, step)
  \/ QueryEnds(c)
  \/ DeleteBegins(c) \/ DeleteRemoves(c) \/ DeleteEnds(c)

Next == setup' = setup /\ \E c \in Clients : Handler(c)

Spec == Init /\ [][Next]_vars

-----------------------------------------------------------------------------
Sourced(f) == {s \in sources : s.fid = f}

(* Clients that have prepared the row of f and not yet added the source. *)
Adding(f) == {c \in Clients : pc[c] = "src" /\ Head(batch[c]).fid = f}

(* When handlers do not overlap, the index agrees with the sources: a file *)
(* has a row exactly when somebody shares it, with the number of its       *)
(* sources, the sum of their ratings and its one name in the full-text     *)
(* index, after any sequence of offers, repeated offers and departures.    *)
(* rated_count is left out: the trigger sources_ai sets it to 0 when an    *)
(* unrated source joins rated ones.                                        *)
IndexExact ==
  Cardinality(setup.threads) = 1 =>
    \A f \in Files : Adding(f) = {} =>
      /\ files[f].exists <=> Sourced(f) # {}
      /\ files[f].srcavail = Cardinality(Sourced(f))
      /\ files[f].rating = MapThenSumSet(LAMBDA s : s.rating, Sourced(f))
      /\ files[f].fnames = {files[f].name} \ {NoName}

(* When handlers do not overlap, a client that is gone has left nothing in *)
(* the table sources, although client_delete skips the statement for a     *)
(* client whose counter is zero.                                           *)
GoneLeavesNothing ==
  Cardinality(setup.threads) = 1 => \A c \in gone : RowsOf(c) = {}

(* Overlapping offers and departures can make srcavail too small and lose  *)
(* rows, and never make a file look better than it is: srcavail is at most *)
(* the number of sources.                                                  *)
NeverOvercounted ==
  \A f \in Files : files[f].exists =>
                     files[f].srcavail <= Cardinality(Sourced(f))

(* Overlapping updates, replaced rows and triggers in either order can     *)
(* leave old names in the full-text index, and never lose the name a file  *)
(* has: whoever searches for it finds it.                                  *)
FoundByName ==
  \A f \in Files : files[f].exists => files[f].name \in files[f].fnames

(* The limit on files that does hold.  It is tested before an offer and    *)
(* the offer is counted after it, so every thread can carry one offer over *)
(* the limit.                                                              *)
FilesWithinSlack ==
  file_count <= setup.max_files + Cardinality(setup.threads) * MaxOffer

(* A file is deleted when no sources are available, and not before. *)
FileKeptWhileSourced ==
  \A f \in Files : Sourced(f) # {} => files[f].exists

=============================================================================
