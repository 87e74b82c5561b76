------------------------- MODULE TokenBucketProofs --------------------------
(***************************************************************************)
(* The limit on searches holds for every limit, and for every way the      *)
(* clock moves.                                                            *)
(***************************************************************************)
EXTENDS TokenBucket, TLAPS

(* What the bucket would hold if it were asked now, without the cap. *)
Credit == tokens + (now - last_update) * max_tokens

(* Every second of the window is spent once. *)
SpendInv ==
  ~fresh => accepted + Credit <= max_tokens * (1 + forward)

(* A window without a request has none accepted. *)
FreshInv == fresh => accepted = 0

(* While the clock has not been set back, the bucket lacks exactly what    *)
(* was taken in the second of the last request.                            *)
CauseInv ==
  ~stepped => /\ last_update <= now
              /\ ~refused => tokens = max_tokens - used /\ tokens >= 0

BucketInv ==
  /\ BucketTypeOK
  /\ FreshInv /\ SpendInv /\ RateBounded
  /\ CauseInv /\ RefusedForCause

(* Multiplication by the limit, as the provers need it. *)
LEMMA Distributes ==
  \A a, b \in Int : /\ max_tokens * (a + b) = max_tokens * a + max_tokens * b
                    /\ (a - b) * max_tokens = a * max_tokens - b * max_tokens
                    /\ max_tokens * a = a * max_tokens
                    /\ max_tokens * a \in Int
  BY LimitNat, SMT

(* A second or more earns at least the whole limit. *)
LEMMA GrowsWithTime ==
  \A a \in Nat : /\ max_tokens * a \in Nat
                 /\ a > 0 => max_tokens * a >= max_tokens
  BY LimitNat, SMT

(* The products that token_bucket_init and an equal time give. *)
LEMMA TimesOne == max_tokens * 1 = max_tokens /\ 0 * max_tokens = 0
  BY LimitNat, SMT

(* token_bucket_init establishes the invariant. *)
LEMMA BucketInitInv == BucketInit => BucketInv
<1> SUFFICES ASSUME BucketInit PROVE BucketInv
  OBVIOUS
<1>1. BucketTypeOK
  <2>1. now \in Nat /\ last_update \in Nat /\ tokens \in Int
    BY LimitNat, ClockNat DEF BucketInit
  <2>2. sets \in Nat /\ forward \in Nat /\ accepted \in Nat /\ used \in Nat
    BY DEF BucketInit
  <2> QED
    BY <2>1, <2>2, Zenon DEF BucketInit, BucketTypeOK
<1>2. RateBounded
  BY TimesOne, LimitNat DEF BucketInit, RateBounded
<1>3. CauseInv
  BY LimitNat, ClockNat DEF BucketInit, CauseInv
<1> QED
  BY <1>1, <1>2, <1>3
     DEF BucketInit, BucketInv, FreshInv, SpendInv, RefusedForCause

(* Time that passes is counted in the window before it can be spent. *)
LEMMA ForwardInv ==
  ASSUME BucketInv, NEW t \in 0 .. MaxClock, ClockForward(t)
  PROVE  BucketInv'
<1> DEFINE d == t - now
<1>1. /\ d \in Nat /\ t \in Nat /\ t > now
      /\ now' = t /\ forward' = forward + d
      /\ UNCHANGED <<tokens, last_update, refused, stepped, accepted, fresh,
                     used>>
  BY ClockNat DEF BucketInv, BucketTypeOK, ClockForward
<1>2. BucketTypeOK'
  BY <1>1 DEF BucketInv, BucketTypeOK, ClockForward
<1>3. /\ max_tokens * (1 + forward') = max_tokens * (1 + forward)
                                         + max_tokens * d
      /\ Credit' = Credit + max_tokens * d
      /\ max_tokens * d \in Nat
      /\ max_tokens * (1 + forward) \in Int /\ Credit \in Int
  <2>1. /\ 1 + forward \in Int /\ d \in Int
        /\ 1 + forward' = (1 + forward) + d
    BY <1>1 DEF BucketInv, BucketTypeOK
  <2>2. /\ max_tokens * ((1 + forward) + d)
             = max_tokens * (1 + forward) + max_tokens * d
        /\ max_tokens * (1 + forward) \in Int
    BY <2>1, Distributes
  <2>3. now - last_update \in Int /\ now' - last_update' = (now - last_update) + d
    BY <1>1 DEF BucketInv, BucketTypeOK
  <2>4. /\ max_tokens * ((now - last_update) + d)
             = max_tokens * (now - last_update) + max_tokens * d
        /\ max_tokens * (now - last_update) = (now - last_update) * max_tokens
        /\ max_tokens * ((now - last_update) + d)
             = ((now - last_update) + d) * max_tokens
        /\ max_tokens * (now - last_update) \in Int
    BY <2>1, <2>3, Distributes
  <2>5. max_tokens * d \in Nat
    BY <1>1, GrowsWithTime
  <2> HIDE DEF d
  <2> QED
    BY <1>1, <2>1, <2>2, <2>3, <2>4, <2>5
       DEF Credit, BucketInv, BucketTypeOK
<1> HIDE DEF d
<1>4. SpendInv' /\ FreshInv' /\ RateBounded'
  BY <1>1, <1>3
     DEF BucketInv, BucketTypeOK, SpendInv, FreshInv, RateBounded
<1>5. CauseInv' /\ RefusedForCause'
  BY <1>1, LimitNat DEF BucketInv, BucketTypeOK, CauseInv, RefusedForCause
<1> QED
  BY <1>2, <1>4, <1>5 DEF BucketInv

(* A step back only takes credit away. *)
LEMMA BackInv ==
  ASSUME BucketInv, NEW t \in 0 .. MaxClock, ClockBack(t)
  PROVE  BucketInv'
<1> DEFINE d == now - t
<1>1. /\ d \in Nat /\ t \in Nat /\ t < now
      /\ now' = t /\ stepped' = TRUE
      /\ UNCHANGED <<tokens, last_update, refused, forward, accepted, fresh,
                     used>>
  BY ClockNat DEF BucketInv, BucketTypeOK, ClockBack
<1>2. BucketTypeOK'
  <2>1. now' \in Nat /\ sets' \in Nat
    BY <1>1 DEF BucketInv, BucketTypeOK, ClockBack
  <2> QED
    BY <1>1, <2>1, Zenon DEF BucketInv, BucketTypeOK
<1>3. Credit' <= Credit /\ Credit' \in Int /\ Credit \in Int
  <2>1. now - last_update \in Int /\ now' - last_update' = (now - last_update) - d
    BY <1>1 DEF BucketInv, BucketTypeOK
  <2>2. /\ ((now - last_update) - d) * max_tokens
             = (now - last_update) * max_tokens - d * max_tokens
        /\ d * max_tokens = max_tokens * d
        /\ max_tokens * (now - last_update) \in Int
        /\ max_tokens * (now - last_update) = (now - last_update) * max_tokens
    BY <1>1, <2>1, Distributes
  <2>3. max_tokens * d \in Nat
    BY <1>1, GrowsWithTime
  <2>4. Credit' = tokens + ((now - last_update) - d) * max_tokens
    BY <1>1, <2>1 DEF Credit
  <2>5. tokens \in Int
    BY DEF BucketInv, BucketTypeOK
  <2> HIDE DEF d
  <2> QED
    BY <2>2, <2>3, <2>4, <2>5 DEF Credit
<1>4. max_tokens * (1 + forward) \in Int /\ forward' = forward
  BY <1>1, Distributes DEF BucketInv, BucketTypeOK
<1>5. SpendInv' /\ FreshInv' /\ RateBounded'
  BY <1>1, <1>3, <1>4
     DEF BucketInv, BucketTypeOK, SpendInv, FreshInv, RateBounded
<1>6. CauseInv' /\ RefusedForCause'
  BY <1>1, Zenon DEF CauseInv, RefusedForCause
<1> QED
  BY <1>2, <1>5, <1>6 DEF BucketInv

(* A new window starts with what the bucket can hold. *)
LEMMA WindowInv ==
  ASSUME BucketInv, WindowOpens
  PROVE  BucketInv'
<1>1. /\ forward' = 0 /\ accepted' = 0 /\ fresh' = TRUE
      /\ UNCHANGED <<now, tokens, last_update, refused, sets, stepped, used>>
  BY DEF WindowOpens
<1>2. BucketTypeOK'
  <2>1. forward' \in Nat /\ accepted' \in Nat
    BY <1>1
  <2> QED
    BY <1>1, <2>1, Zenon DEF BucketInv, BucketTypeOK
<1>3. RateBounded'
  BY <1>1, TimesOne, LimitNat DEF RateBounded
<1>4. FreshInv' /\ SpendInv'
  BY <1>1 DEF FreshInv, SpendInv
<1>5. CauseInv' /\ RefusedForCause'
  BY <1>1 DEF BucketInv, CauseInv, RefusedForCause
<1> QED
  BY <1>2, <1>3, <1>4, <1>5 DEF BucketInv

(* The refill is the credit, cut at the limit. *)
LEMMA RefillBounds ==
  ASSUME BucketInv
  PROVE  /\ Credit \in Int /\ Refill \in Int
         /\ Refill <= Credit /\ Refill <= max_tokens
         /\ ~stepped /\ ~refused /\ now > last_update => Refill = max_tokens
         /\ ~stepped /\ ~refused /\ now = last_update
              => Refill = max_tokens - used
<1> DEFINE p == now - last_update
<1>1. /\ p \in Int /\ p * max_tokens \in Int
      /\ p * max_tokens = max_tokens * p
  BY Distributes DEF BucketInv, BucketTypeOK
<1>2. Credit = tokens + p * max_tokens
  BY DEF Credit
<1>3. Refill = IF Credit > max_tokens THEN max_tokens ELSE Credit
  BY DEF Credit, Refill
<1>4. Credit \in Int
  BY <1>1, <1>2 DEF BucketInv, BucketTypeOK
<1>5. /\ Refill \in Int
      /\ Refill <= Credit /\ Refill <= max_tokens
  BY <1>3, <1>4, LimitNat
<1>6. ASSUME ~stepped, ~refused, now > last_update
      PROVE  Refill = max_tokens
  <2>1. p \in Nat /\ p > 0
    BY <1>6 DEF BucketInv, BucketTypeOK
  <2>2. max_tokens * p >= max_tokens
    BY <2>1, GrowsWithTime
  <2>3. tokens >= 0 /\ tokens \in Int
    BY <1>6, LimitNat DEF BucketInv, BucketTypeOK, CauseInv
  <2> HIDE DEF p
  <2> QED
    BY <1>1, <1>2, <1>3, <2>2, <2>3, LimitNat
<1>7. ASSUME ~stepped, ~refused, now = last_update
      PROVE  Refill = max_tokens - used
  <2>1. p = 0 /\ p * max_tokens = 0
    BY <1>7, TimesOne DEF BucketInv, BucketTypeOK
  <2>2. tokens = max_tokens - used /\ tokens \in Int /\ used \in Nat
    BY <1>7 DEF BucketInv, BucketTypeOK, CauseInv
  <2> HIDE DEF p
  <2> QED
    BY <1>2, <1>3, <2>1, <2>2, LimitNat
<1> QED
  BY <1>4, <1>5, <1>6, <1>7

(* No token left means that the limit was passed in this second. *)
LEMMA NoneLeft ==
  ASSUME NEW m \in Nat, NEW u \in Nat, m - u + 1 < 1
  PROVE  u > m
  OBVIOUS

(* A request spends one token of the credit, or finds none. *)
LEMMA UpdateInv ==
  ASSUME BucketInv, token_bucket_update
  PROVE  BucketInv'
<1>1. /\ ~refused /\ last_update' = now /\ fresh' = FALSE
      /\ tokens' = IF Refill < 1 THEN Refill ELSE Refill - 1
      /\ refused' = (Refill < 1)
      /\ used' = IF now = last_update THEN used + 1 ELSE 1
      /\ accepted' = IF Refill < 1 THEN accepted ELSE accepted + 1
      /\ UNCHANGED <<now, sets, stepped, forward>>
  BY DEF token_bucket_update
<1>2. Refill \in Int /\ Refill <= Credit /\ Refill <= max_tokens /\ Credit \in Int
  BY RefillBounds
<1>3. BucketTypeOK'
  <2>1. /\ now' \in Nat /\ last_update' \in Nat /\ tokens' \in Int
        /\ accepted' \in Nat /\ used' \in Nat
    BY <1>1, <1>2 DEF BucketInv, BucketTypeOK
  <2>2. refused' \in BOOLEAN
    <3>1. CASE Refill < 1
      BY <1>1, <3>1
    <3>2. CASE ~(Refill < 1)
      BY <1>1, <3>2
    <3> QED
      BY <3>1, <3>2
  <2> QED
    BY <1>1, <2>1, <2>2, Zenon DEF BucketInv, BucketTypeOK
<1>4. Credit' = tokens'
  <2>1. (now' - last_update') * max_tokens' = 0
    BY <1>1, TimesOne DEF BucketInv, BucketTypeOK
  <2> QED
    BY <2>1, <1>3 DEF Credit, BucketTypeOK
<1>5. /\ max_tokens * (1 + forward) \in Int
      /\ max_tokens * (1 + forward) >= max_tokens
      /\ forward' = forward
  <2>1. 1 + forward \in Nat /\ 1 + forward > 0
    BY DEF BucketInv, BucketTypeOK
  <2> QED
    BY <1>1, <2>1, GrowsWithTime
<1>6. accepted' + tokens' <= max_tokens * (1 + forward)
  <2>1. accepted' + tokens' = accepted + Refill
    BY <1>1, <1>2 DEF BucketInv, BucketTypeOK
  <2>2. CASE fresh
    BY <2>1, <2>2, <1>2, <1>5, LimitNat
       DEF BucketInv, BucketTypeOK, FreshInv
  <2>3. CASE ~fresh
    BY <2>1, <2>3, <1>2, <1>5 DEF BucketInv, BucketTypeOK, SpendInv
  <2> QED
    BY <2>2, <2>3
<1>7. SpendInv' /\ FreshInv'
  BY <1>1, <1>4, <1>5, <1>6 DEF SpendInv, FreshInv
<1>8. RateBounded'
  <2>1. CASE Refill < 1
    BY <2>1, <1>1, <1>5 DEF BucketInv, RateBounded
  <2>2. CASE ~(Refill < 1)
    <3>1. tokens' >= 0 /\ tokens' \in Int /\ accepted' \in Nat
      BY <2>2, <1>1, <1>2, <1>3 DEF BucketTypeOK
    <3> QED
      BY <3>1, <1>5, <1>6 DEF RateBounded
  <2> QED
    BY <2>1, <2>2
<1>9. CauseInv' /\ RefusedForCause'
  <2>1. CASE stepped
    BY <2>1, <1>1 DEF CauseInv, RefusedForCause
  <2>2. CASE ~stepped
    <3>1. last_update <= now /\ now \in Nat /\ last_update \in Nat /\ used \in Nat
      BY <2>2, <1>1 DEF BucketInv, BucketTypeOK, CauseInv
    <3>2. Refill = max_tokens - used' + 1 /\ used' \in Nat
      <4>1. CASE now = last_update
        <5>1. Refill = max_tokens - used /\ used' = used + 1
          BY <4>1, <2>2, <1>1, RefillBounds
        <5> QED
          BY <5>1, <3>1, LimitNat
      <4>2. CASE now # last_update
        <5>1. Refill = max_tokens
          BY <4>2, <3>1, <2>2, <1>1, RefillBounds
        <5> QED
          BY <5>1, <4>2, <1>1, LimitNat
      <4> QED
        BY <4>1, <4>2
    <3>3. CASE Refill < 1
      <4>1. used' > max_tokens
        <5>1. max_tokens - used' + 1 < 1
          BY <3>2, <3>3, Zenon
        <5> QED
          BY <5>1, <3>2, LimitNat, NoneLeft
      <4>2. refused' /\ last_update' <= now'
        <5>1. last_update' <= now'
          BY <3>1, <1>1
        <5> QED
          BY <5>1, <3>3, <1>1
      <4> QED
        BY <4>1, <4>2 DEF CauseInv, RefusedForCause
    <3>4. CASE ~(Refill < 1)
      <4>1. tokens' = max_tokens - used' /\ tokens' >= 0
        BY <3>2, <3>4, <1>1, <1>2, LimitNat
      <4>2. ~refused' /\ last_update' <= now'
        <5>1. last_update' <= now'
          BY <3>1, <1>1
        <5> QED
          BY <5>1, <3>4, <1>1
      <4> QED
        BY <4>1, <4>2 DEF CauseInv, RefusedForCause
    <3> QED
      BY <3>3, <3>4
  <2> QED
    BY <2>1, <2>2
<1> QED
  BY <1>3, <1>7, <1>8, <1>9 DEF BucketInv

(* Steps of others leave the bucket alone. *)
LEMMA BucketStutters ==
  ASSUME BucketInv, UNCHANGED bucketVars
  PROVE  BucketInv'
  BY DEF bucketVars, BucketInv, BucketTypeOK, FreshInv, SpendInv, RateBounded,
         CauseInv, RefusedForCause, Credit

(* The invariant holds in every state. *)
LEMMA BucketInvariant == BucketSpec => []BucketInv
<1>1. BucketInv /\ [BucketNext]_bucketVars => BucketInv'
  BY ForwardInv, BackInv, WindowInv, UpdateInv, BucketStutters
     DEF BucketNext, Clock
<1> QED
  BY BucketInitInv, <1>1, PTL DEF BucketSpec

(* The limit on the rate of searches, for every limit and every clock. *)
THEOREM RateBoundedHolds == BucketSpec => []RateBounded
<1>1. BucketInv => RateBounded
  BY DEF BucketInv
<1> QED
  BY BucketInvariant, <1>1, PTL

(* A refusal has a cause: too many requests in a second, or a clock that   *)
(* was set back.                                                           *)
THEOREM RefusedForCauseHolds == BucketSpec => []RefusedForCause
<1>1. BucketInv => RefusedForCause
  BY DEF BucketInv
<1> QED
  BY BucketInvariant, <1>1, PTL

=============================================================================
