----------------------------- MODULE ClientLife -----------------------------
(***************************************************************************)
(* What the server promises about one client, seen from outside: it is     *)
(* anonymous until its port check ends, then it has one identity for as    *)
(* long as it is connected, it publishes files under that identity only,   *)
(* and once closed it publishes nothing.                                   *)
(***************************************************************************)
CONSTANTS
  Sids,   \* identities: a high or low id, with a port
  NoSid

VARIABLES
  allow_lowid,  \* cfg.allow_lowid
  phase,        \* stage of the connection
  sid,          \* the identity told to the client by send_id_change
  published     \* identities under which source rows were inserted

lifeVars == <<allow_lowid, phase, sid, published>>

Identified == {"high", "low"}

Phases == {"anonymous", "checking", "closed"} \cup Identified

Init ==
  /\ allow_lowid \in BOOLEAN
  /\ phase = "anonymous"
  /\ sid = NoSid
  /\ published = {}

(* A login request starts a port check; a further one starts it again. *)
Login ==
  /\ phase \in {"anonymous", "checking"}
  /\ phase' = "checking"
  /\ UNCHANGED <<allow_lowid, sid, published>>

(* The port check ends; a client without an open port needs allow_lowid. *)
Identify ==
  /\ phase \in {"anonymous", "checking"}
  /\ \/ phase' = "high"
     \/ allow_lowid /\ phase' = "low"
  /\ sid' \in Sids
  /\ UNCHANGED <<allow_lowid, published>>

Publish ==
  /\ phase \in Identified
  /\ published' = published \cup {sid}
  /\ UNCHANGED <<allow_lowid, phase, sid>>

Close ==
  /\ phase # "closed"
  /\ phase' = "closed"
  /\ published' = {}
  /\ UNCHANGED <<allow_lowid, sid>>

Next == Login \/ Identify \/ Publish \/ Close

Spec == Init /\ [][Next]_lifeVars

=============================================================================
