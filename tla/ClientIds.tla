----------------------------- MODULE ClientIds ------------------------------
(***************************************************************************)
(* The identities of clients that are connected at the same time, composed *)
(* with ClientLimit, which brings the clients in and out.  A client whose  *)
(* port check succeeds gets its address as id, another one the next low    *)
(* id, taken from a counter that the workers share without a lock.  Rows   *)
(* of the table sources carry the identity, and a client that leaves takes *)
(* every row with its identity along (server.c does not look for a client  *)
(* with the same address and port that is connected already).  Calls of    *)
(* the database can fail; SourceDb shows when, here they just may.         *)
(***************************************************************************)
EXTENDS ClientLimit, Integers

CONSTANTS
  Users,     \* clients that log in; the others stay anonymous
  Addr,      \* address and port of the users with an open port
  MAX_LOWID  \* the last low id

(* A port check reaches no client at port 0. *)
ASSUME AddrHasPort == Addr \in [DOMAIN Addr -> Nat \X (Nat \ {0})]
ASSUME UsersAreClients == Users \subseteq Clients
ASSUME LowIdPositive == MAX_LOWID \in Nat \ {0}

VARIABLES
  lowid_counter,  \* g_srv.lowid_counter
  minting,        \* step of get_next_lowid on a worker
  subject,        \* the client it is for
  old_id,         \* local variable of get_next_lowid
  sid,            \* MAKE_SID(clnt): id and port
  rows,           \* table sources, with the client that published the row
  counted,        \* clients with clnt->file_count # 0
  failed,         \* history: clients whose last offer of a new file, or
                  \* whose removal, failed in the database
  handed,         \* history: low ids handed out so far
  turn            \* history: value of handed when the client got its id

rowVars == <<rows, counted, failed>>

idVars == <<lowid_counter, minting, subject, old_id, sid, rowVars, handed,
            turn>>

allVars == <<vars, idVars>>

NoSid == <<0, 0>>

IdInit ==
  /\ Init
  /\ lowid_counter = 0
  /\ minting = [w \in Workers |-> "idle"]
  /\ subject = [w \in Workers |-> NoClient]
  /\ old_id = [w \in Workers |-> 0]
  /\ sid = [c \in Users |-> NoSid]
  /\ rows = {}
  /\ counted = {}
  /\ failed = {}
  /\ handed = 0
  /\ turn = [c \in Users |-> 0]

(* The worker has nothing to do and no other one handles the client. *)
Takes(w, c) ==
  /\ deleting[w] = "idle" /\ minting[w] = "idle"
  /\ \A v \in Workers : minting[v] # "idle" => subject[v] # c

(* client_portcheck_finish with success *)
IdentifyHigh(w, c) ==
  /\ Takes(w, c)
  /\ conn[c] = "live" /\ sid[c] = NoSid /\ c \in DOMAIN Addr
  /\ sid' = [sid EXCEPT ![c] = Addr[c]]
  /\ UNCHANGED <<vars, lowid_counter, minting, subject, old_id, rowVars,
                 handed, turn>>

(* client_portcheck_finish without success calls get_next_lowid, which     *)
(* begins with an atomic_load.                                             *)
IdentifyLow(w, c) ==
  /\ Takes(w, c)
  /\ conn[c] = "live" /\ sid[c] = NoSid
  /\ minting' = [minting EXCEPT ![w] = "cas"]
  /\ subject' = [subject EXCEPT ![w] = c]
  /\ old_id' = [old_id EXCEPT ![w] = lowid_counter]
  /\ UNCHANGED <<vars, lowid_counter, sid, rowVars, handed, turn>>

(* The atomic_load of a further turn of the loop. *)
MintLoad(w) ==
  /\ minting[w] = "load"
  /\ minting' = [minting EXCEPT ![w] = "cas"]
  /\ old_id' = [old_id EXCEPT ![w] = lowid_counter]
  /\ UNCHANGED <<vars, lowid_counter, subject, sid, rowVars, handed, turn>>

NextId(n) == IF n + 1 > MAX_LOWID THEN 1 ELSE n + 1

(* The client gets low id n, its port is set to 0. *)
Minted(w, n) ==
  /\ lowid_counter' = n
  /\ minting' = [minting EXCEPT ![w] = "idle"]
  /\ sid' = [sid EXCEPT ![subject[w]] = <<n, 0>>]
  /\ handed' = handed + 1
  /\ turn' = [turn EXCEPT ![subject[w]] = handed + 1]
  /\ subject' = [subject EXCEPT ![w] = NoClient]
  /\ old_id' = [old_id EXCEPT ![w] = 0]
  /\ UNCHANGED <<vars, rowVars>>

(* Faulty variant of MintSwap: a plain store, no compare-and-swap. *)
MintStore(w) == minting[w] = "cas" /\ Minted(w, NextId(old_id[w]))

(* atomic_compare_exchange_strong; the loop starts again when it fails. *)
MintSwap(w) ==
  /\ minting[w] = "cas"
  /\ IF lowid_counter = old_id[w]
     THEN Minted(w, NextId(old_id[w]))
     ELSE /\ minting' = [minting EXCEPT ![w] = "load"]
          /\ UNCHANGED <<vars, lowid_counter, subject, old_id, sid, rowVars,
                         handed, turn>>

Mint(w) == MintLoad(w) \/ MintSwap(w)

(* Results of a call of the database.  A statement fails with              *)
(* SQLITE_LOCKED while another thread reads, and the next one of the same  *)
(* thread when sqlite3_reset gives that error again.                       *)
Results(w) == IF Workers = {w} THEN {TRUE} ELSE BOOLEAN

Noted(c, ok) == failed' = IF ok THEN failed \ {c} ELSE failed \cup {c}

(* db_share_files writes rows with the identity of the client, all or, if  *)
(* it fails, some or none.  The files are counted when it succeeds, those  *)
(* without a name, for which no row is written, as well.                   *)
Share(c, wrote, ok) ==
  /\ rows' = IF wrote THEN rows \cup {[sid |-> sid[c], owner |-> c]} ELSE rows
  /\ counted' = IF ok THEN counted \cup {c} ELSE counted
  /\ Noted(c, ok)

(* Faulty variant of Publish: no test of clnt->deleted. *)
PublishLate(w, c) ==
  /\ Takes(w, c)
  /\ conn[c] \in {"live", "dying"} /\ sid[c] # NoSid
  /\ \E ok \in Results(w), wrote \in BOOLEAN : Share(c, wrote, ok)
  /\ UNCHANGED <<vars, lowid_counter, minting, subject, old_id, sid, handed,
                 turn>>

(* client_share_files with a file that is new to the client.  An offer of  *)
(* known files runs no statement and adds nothing to the count.            *)
Publish(w, c) ==
  /\ Takes(w, c)
  /\ conn[c] = "live" /\ sid[c] # NoSid
  /\ \E ok \in Results(w), wrote \in BOOLEAN : Share(c, wrote, ok)
  /\ UNCHANGED <<vars, lowid_counter, minting, subject, old_id, sid, handed,
                 turn>>

(* Faulty variant of SameSource: the port is no part of the identity. *)
SameHost(s, t) == s[1] = t[1]

(* WHERE sid=? *)
SameSource(s, t) == s = t

(* db_remove_source *)
Remove(c, ok) ==
  /\ rows' = IF ok THEN {r \in rows : ~SameSource(r.sid, sid[c])} ELSE rows
  /\ Noted(c, ok)

(* client_delete up to the counters.  It calls db_remove_source for a      *)
(* client with a count and does not look at the result.                    *)
Leave(w, c) ==
  /\ Takes(w, c)
  /\ DeleteStarts(w, c)
  /\ IF c \in counted THEN \E ok \in Results(w) : Remove(c, ok)
                      ELSE UNCHANGED <<rows, failed>>
  /\ counted' = counted \ {c}
  /\ UNCHANGED <<lowid_counter, minting, subject, old_id, sid, handed, turn>>

(* The rest of client_delete, and the other thread, as in ClientLimit. *)
CountOut(w) == Delete(w) /\ UNCHANGED idVars

AcceptGoesOn == AcceptProceeds /\ UNCHANGED idVars

IdNext ==
  \/ \E c \in Clients : AcceptCounts(c) /\ UNCHANGED idVars
  \/ AcceptGoesOn
  \/ \E w \in Workers :
       \/ Mint(w) \/ CountOut(w)
       \/ \E c \in Users :
            IdentifyHigh(w, c) \/ IdentifyLow(w, c) \/ Publish(w, c)
       \/ \E c \in Clients : Leave(w, c)

IdSpec == IdInit /\ [][IdNext]_allVars

(* Some thread that is inside accept_cb or client_delete goes on, although *)
(* another may be held up; peers may stay or leave as they like.           *)
GoesOn == WF_allVars(AcceptGoesOn \/ \E w \in Workers : CountOut(w))

-----------------------------------------------------------------------------
IdTypeOK ==
  /\ TypeOK
  /\ lowid_counter \in 0 .. MAX_LOWID
  /\ minting \in [Workers -> {"idle", "load", "cas"}]
  /\ subject \in [Workers -> Users \cup {NoClient}]
  /\ old_id \in [Workers -> 0 .. MAX_LOWID]
  /\ sid \in [Users -> Nat \X Nat]
  /\ rows \subseteq [sid : Nat \X Nat, owner : Users]
  /\ counted \subseteq Users /\ failed \subseteq Users
  /\ handed \in Nat /\ turn \in [Users -> Nat]

(* Clients whose client_delete is past db_remove_source. *)
Left == {c \in Users : conn[c] \in {"dying", "gone"}}

LowIds == {c \in Users : sid[c] # NoSid /\ sid[c][2] = 0}

(* The low ids of c and d come from the same place of two rounds. *)
RoundApart(c, d) ==
  turn[c] - turn[d] >= MAX_LOWID \/ turn[d] - turn[c] >= MAX_LOWID

(* A low id is given to a second client only after the counter has gone    *)
(* all the way round: get_next_lowid gives two workers that race for it    *)
(* different ids, and the wrap skips none.                                 *)
LowIdsFarApart ==
  \A c, d \in LowIds : c # d /\ sid[c] = sid[d] => RoundApart(c, d)

(* A row goes with its owner, or with a client of the same identity. *)
RowsGoWithId ==
  \A r \in rows \ rows' : \E d \in Left' \ Left :
    \/ d = r.owner
    \/ /\ r.owner \in LowIds <=> d \in LowIds
       /\ IF d \in LowIds THEN RoundApart(r.owner, d)
                           ELSE Addr[r.owner] = Addr[d]

(* A connected client keeps the rows it has published: a row goes when its *)
(* owner leaves, or another client with the same identity.  That takes a   *)
(* second connection from the same address and port, or a low id a full    *)
(* round later.  A high id that looks like a low one, an address that ends *)
(* in 0, does no harm.                                                     *)
RowsKept == [][RowsGoWithId]_allVars

(* A client that is gone has rows only when its removal failed, or its     *)
(* last offer of a new file did and none had been counted.  Otherwise none *)
(* stays, although client_delete calls db_remove_source for a count only   *)
(* and offers before may have failed half-way.                             *)
NoRowsLeft == \A r \in rows : r.owner \in Left => r.owner \in failed

=============================================================================
