---------------------------- MODULE ClientLimit -----------------------------
(***************************************************************************)
(* The limit on connected clients.  The thread of evbase_main accepts: it  *)
(* counts the new client in g_srv.user_count and switches the listener off *)
(* when the count reaches cfg.max_clients.  A worker that deletes a client *)
(* counts it out and switches the listener on when the count is below the  *)
(* limit.  Counting and switching are two steps in either thread, and      *)
(* nothing orders the steps of one thread with those of another.           *)
(***************************************************************************)
EXTENDS Naturals, FiniteSets

CONSTANTS
  Clients,     \* connections that are ever made
  Workers,     \* job threads, the ones that call client_delete
  max_clients  \* cfg.max_clients

ASSUME ClientsFinite == IsFiniteSet(Clients)
ASSUME WorkersFinite == IsFiniteSet(Workers)
ASSUME LimitPositive == max_clients \in Nat \ {0}

VARIABLES
  user_count,  \* g_srv.user_count
  enabled,     \* the listener accepts connections
  conn,        \* stage of every connection
  acceptor,    \* step of accept_cb: "idle", "disable", "setup"
  deleting,    \* what a worker does: "idle", "count", "enable"
  victim       \* client that the worker deletes

vars == <<user_count, enabled, conn, acceptor, deleting, victim>>

(* "none": not yet accepted; "new": counted by client_new, not yet armed;  *)
(* "live": armed; "dying": marked deleted, still counted; "gone"           *)
Stages == {"none", "new", "live", "dying", "gone"}

NoClient == "none"

TypeOK ==
  /\ user_count \in Nat
  /\ enabled \in BOOLEAN
  /\ conn \in [Clients -> Stages]
  /\ acceptor \in {"idle", "disable", "setup"}
  /\ deleting \in [Workers -> {"idle", "count", "enable"}]
  /\ victim \in [Workers -> Clients \cup {NoClient}]

Init ==
  /\ user_count = 0
  /\ enabled = TRUE
  /\ conn = [c \in Clients |-> "none"]
  /\ acceptor = "idle"
  /\ deleting = [w \in Workers |-> "idle"]
  /\ victim = [w \in Workers |-> NoClient]

-----------------------------------------------------------------------------
(* Faulty variant of AcceptCounts: a client that meets the limit is not    *)
(* counted.                                                                *)
AcceptCountsBelow(c) ==
  /\ acceptor = "idle"
  /\ enabled
  /\ conn[c] = "none"
  /\ user_count' = IF user_count + 1 >= max_clients THEN user_count
                                                    ELSE user_count + 1
  /\ conn' = [conn EXCEPT ![c] = "new"]
  /\ acceptor' = IF user_count + 1 >= max_clients THEN "disable" ELSE "setup"
  /\ UNCHANGED <<enabled, deleting, victim>>

(* The listener hands over a connection: accept_cb calls client_new, which *)
(* counts and decides on the value it read back.  A listener that is off   *)
(* hands over nothing more, not even from the same callback.               *)
AcceptCounts(c) ==
  /\ acceptor = "idle"
  /\ enabled
  /\ conn[c] = "none"
  /\ user_count' = user_count + 1
  /\ conn' = [conn EXCEPT ![c] = "new"]
  /\ acceptor' = IF user_count + 1 >= max_clients THEN "disable" ELSE "setup"
  /\ UNCHANGED <<enabled, deleting, victim>>

(* Faulty variant of AcceptDisables: the listener stays on. *)
AcceptDisablesNot ==
  /\ acceptor = "disable"
  /\ acceptor' = "setup"
  /\ UNCHANGED <<user_count, enabled, conn, deleting, victim>>

(* evconnlistener_disable *)
AcceptDisables ==
  /\ acceptor = "disable"
  /\ enabled' = FALSE
  /\ acceptor' = "setup"
  /\ UNCHANGED <<user_count, conn, deleting, victim>>

(* The rest of accept_cb: the bufferevent is made and enabled. *)
AcceptArms(c) ==
  /\ acceptor = "setup"
  /\ conn[c] = "new"
  /\ conn' = [conn EXCEPT ![c] = "live"]
  /\ acceptor' = "idle"
  /\ UNCHANGED <<user_count, enabled, deleting, victim>>

(* client_delete wins its compare-and-swap and frees the event sources. *)
DeleteStarts(w, c) ==
  /\ deleting[w] = "idle"
  /\ conn[c] = "live"
  /\ conn' = [conn EXCEPT ![c] = "dying"]
  /\ deleting' = [deleting EXCEPT ![w] = "count"]
  /\ victim' = [victim EXCEPT ![w] = c]
  /\ UNCHANGED <<user_count, enabled, acceptor>>

(* Faulty variant of DeleteCounts: enables only when crossing the limit. *)
DeleteCountsEdge(w) ==
  /\ deleting[w] = "count"
  /\ user_count' = user_count - 1
  /\ conn' = [conn EXCEPT ![victim[w]] = "gone"]
  /\ deleting' = [deleting EXCEPT
                   ![w] = IF user_count = max_clients THEN "enable"
                                                      ELSE "idle"]
  /\ victim' = [victim EXCEPT ![w] = NoClient]
  /\ UNCHANGED <<enabled, acceptor>>

(* The client is counted out; the test uses the value read back. *)
DeleteCounts(w) ==
  /\ deleting[w] = "count"
  /\ user_count' = user_count - 1
  /\ conn' = [conn EXCEPT ![victim[w]] = "gone"]
  /\ deleting' = [deleting EXCEPT
                   ![w] = IF user_count - 1 < max_clients THEN "enable"
                                                          ELSE "idle"]
  /\ victim' = [victim EXCEPT ![w] = NoClient]
  /\ UNCHANGED <<enabled, acceptor>>

(* evconnlistener_enable *)
DeleteEnables(w) ==
  /\ deleting[w] = "enable"
  /\ enabled' = TRUE
  /\ deleting' = [deleting EXCEPT ![w] = "idle"]
  /\ UNCHANGED <<user_count, conn, acceptor, victim>>

Delete(w) == DeleteCounts(w) \/ DeleteEnables(w)

AcceptProceeds == AcceptDisables \/ \E c \in Clients : AcceptArms(c)

Next ==
  \/ \E c \in Clients : AcceptCounts(c)
  \/ AcceptProceeds
  \/ \E w \in Workers, c \in Clients : DeleteStarts(w, c)
  \/ \E w \in Workers : Delete(w)

Spec == Init /\ [][Next]_vars

-----------------------------------------------------------------------------
Counted == {c \in Clients : conn[c] \in {"new", "live", "dying"}}

(* Workers that will switch the listener on, whatever happens meanwhile. *)
Enabling == {w \in Workers : deleting[w] = "enable"}

(* user_count is the number of clients that are counted in and not out:    *)
(* every client_new is matched by one pass of client_delete, no more.      *)
CountExact == user_count = Cardinality(Counted)

(* The limit that does hold.  Each worker may be about to switch the       *)
(* listener on because of a count that is no longer true, and each such    *)
(* switch lets one more client in.                                         *)
LimitWithSlack == user_count <= max_clients + Cardinality(Workers)

(* The listener is never off for good: while it is off some client is      *)
(* connected, whose deletion will look at the count again, or some worker  *)
(* is about to switch it on.                                               *)
OffIsTemporary == ~enabled => Counted # {} \/ Enabling # {}

(* Once every client has left, the listener is on and stays on until       *)
(* somebody comes.                                                         *)
ListenerRecovers == <>[](Counted = {}) => <>[]enabled

=============================================================================
