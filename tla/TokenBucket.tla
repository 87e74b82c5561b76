---------------------------- MODULE TokenBucket -----------------------------
(***************************************************************************)
(* The limit on the searches of one client: client.limit_search, filled by *)
(* the wall clock.  The limit on offers is a second bucket of the same     *)
(* kind.  Limits are whole numbers and time(NULL) counts seconds, so the   *)
(* double that holds the tokens is always a whole number too.  The wall    *)
(* clock may be set, forward or back.                                      *)
(***************************************************************************)
EXTENDS Integers

CONSTANTS
  max_tokens,  \* cfg.max_searches_limit
  MaxClock,    \* bound: largest value of the clock
  MaxSets      \* bound: movements of the clock

ASSUME LimitNat == max_tokens \in Nat
ASSUME ClockNat == MaxClock \in Nat /\ MaxSets \in Nat

VARIABLES
  now,          \* time(NULL)
  tokens,       \* bucket->tokens
  last_update,  \* bucket->last_update
  refused,      \* token_bucket_update has returned 0, the client is deleted
  sets,         \* movements of the clock so far
  stepped,      \* history: the clock was set back
  forward,      \* history: seconds the clock went forward in the window
  accepted,     \* history: requests accepted in the window
  fresh,        \* history: no request in the window yet
  used          \* history: requests in the second last_update

bucketVars == <<now, tokens, last_update, refused, sets, stepped, forward,
                accepted, fresh, used>>

BucketTypeOK ==
  /\ now \in Nat /\ last_update \in Nat
  /\ tokens \in Int
  /\ refused \in BOOLEAN /\ stepped \in BOOLEAN /\ fresh \in BOOLEAN
  /\ sets \in Nat /\ forward \in Nat /\ accepted \in Nat /\ used \in Nat

(* token_bucket_init, at a time that leaves room for steps back *)
BucketInit ==
  /\ now \in 0 .. MaxClock
  /\ last_update = now
  /\ tokens = max_tokens
  /\ refused = FALSE
  /\ sets = 0
  /\ stepped = FALSE
  /\ forward = 0
  /\ accepted = 0
  /\ fresh = TRUE
  /\ used = 0

(* Time passes, or the clock is set forward. *)
ClockForward(t) ==
  /\ t > now
  /\ sets < MaxSets
  /\ now' = t
  /\ sets' = sets + 1
  /\ forward' = forward + (t - now)
  /\ UNCHANGED <<tokens, last_update, refused, stepped, accepted, fresh, used>>

(* The clock is set back. *)
ClockBack(t) ==
  /\ t < now
  /\ sets < MaxSets
  /\ now' = t
  /\ sets' = sets + 1
  /\ stepped' = TRUE
  /\ UNCHANGED <<tokens, last_update, refused, forward, accepted, fresh, used>>

(* A new window of observation begins. *)
WindowOpens ==
  /\ ~fresh
  /\ forward' = 0
  /\ accepted' = 0
  /\ fresh' = TRUE
  /\ UNCHANGED <<now, tokens, last_update, refused, sets, stepped, used>>

(* Faulty variant of Refill: no credit for the time that has passed. *)
RefillNever == tokens

(* The tokens there are now, never more than max_tokens. *)
Refill ==
  LET t == tokens + (now - last_update) * max_tokens
  IN  IF t > max_tokens THEN max_tokens ELSE t

(* Faulty variant of token_bucket_update: the time is not kept. *)
UpdateForgetsTime ==
  /\ ~refused
  /\ tokens' = IF Refill < 1 THEN Refill ELSE Refill - 1
  /\ refused' = (Refill < 1)
  /\ used' = IF now = last_update THEN used + 1 ELSE 1
  /\ accepted' = IF Refill < 1 THEN accepted ELSE accepted + 1
  /\ fresh' = FALSE
  /\ UNCHANGED <<now, last_update, sets, stepped, forward>>

(* A request; when it is refused the client is deleted. *)
token_bucket_update ==
  /\ ~refused
  /\ last_update' = now
  /\ tokens' = IF Refill < 1 THEN Refill ELSE Refill - 1
  /\ refused' = (Refill < 1)
  /\ used' = IF now = last_update THEN used + 1 ELSE 1
  /\ accepted' = IF Refill < 1 THEN accepted ELSE accepted + 1
  /\ fresh' = FALSE
  /\ UNCHANGED <<now, sets, stepped, forward>>

Clock ==
  \/ \E t \in 0 .. MaxClock : ClockForward(t) \/ ClockBack(t)
  \/ WindowOpens

BucketNext == Clock \/ token_bucket_update

BucketSpec == BucketInit /\ [][BucketNext]_bucketVars

-----------------------------------------------------------------------------
(* The limit is kept over any stretch of time: from any moment on, the     *)
(* requests accepted are at most the limit times the seconds that the      *)
(* clock has gone forward, and one burst.  Setting the clock back and      *)
(* letting it run over the same seconds again gains nothing.               *)
RateBounded == accepted <= max_tokens * (1 + forward)

(* A client loses its connection over the limit only for a cause: it made  *)
(* more requests than the limit in one second, or the clock was set back,  *)
(* which makes token_bucket_update take tokens away.                       *)
RefusedForCause == refused => stepped \/ used > max_tokens

=============================================================================
