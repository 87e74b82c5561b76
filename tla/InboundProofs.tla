--------------------------- MODULE InboundProofs ----------------------------
(***************************************************************************)
(* server_read uses the token bucket as TokenBucket describes it: the      *)
(* framing loop implements BucketSpec, so what is proved of the bucket     *)
(* holds for every stream, however it is fragmented.                       *)
(***************************************************************************)
EXTENDS Inbound, TokenBucketProofs

(* The bytes that arrive and the packets that are no search leave the      *)
(* bucket alone, and a search is one token_bucket_update.                  *)
LEMMA ReadPacketOnBucket ==
  ASSUME ReadPacket
  PROVE  token_bucket_update \/ UNCHANGED bucketVars
<1>1. PICK i \in Front :
        \/ UnknownProto(i) \/ WaitRest(i) \/ HandleCorrupt(i) \/ HandleQuit(i)
        \/ HandleQuery(i) \/ HandleSearch(i) \/ HandleEmpty(i)
  BY DEF ReadPacket
<1>2. CASE HandleSearch(i)
  BY <1>2 DEF HandleSearch
<1>3. CASE UnknownProto(i) \/ WaitRest(i) \/ HandleCorrupt(i) \/ HandleQuit(i)
  BY <1>3 DEF UnknownProto, WaitRest, HandleCorrupt, HandleQuit, bucketVars
<1>4. CASE HandleQuery(i) \/ HandleEmpty(i)
  BY <1>4 DEF HandleQuery, HandleEmpty
<1> QED
  BY <1>1, <1>2, <1>3, <1>4

(* Every step of the connection is a step of the bucket or none at all. *)
LEMMA InboundStepOnBucket ==
  ASSUME [InboundNext]_inboundVars
  PROVE  [BucketNext]_bucketVars
<1>1. CASE \E n \in 1 .. Total(stream) : Arrive(n)
  BY <1>1 DEF Arrive, bucketVars
<1>2. CASE ReadStarts \/ LoopEnds
  BY <1>2 DEF ReadStarts, LoopEnds, bucketVars
<1>3. CASE ReadPacket
  BY <1>3, ReadPacketOnBucket DEF BucketNext
<1>4. CASE Clock /\ UNCHANGED inputVars
  BY <1>4 DEF BucketNext
<1>5. CASE UNCHANGED inboundVars
  BY <1>5 DEF inboundVars
<1> QED
  BY <1>1, <1>2, <1>3, <1>4, <1>5 DEF InboundNext, Work

(* The framing loop with its meter implements the bucket. *)
THEOREM InboundImplementsBucket == InboundSpec => BucketSpec
<1>1. InboundInit => BucketInit
  BY DEF InboundInit
<1> QED
  BY <1>1, InboundStepOnBucket, PTL DEF InboundSpec, BucketSpec

(* Searches that get through to the database are within the limit, for     *)
(* every stream of packets, every fragmentation and every clock.           *)
THEOREM InboundRateBounded == InboundSpec => []RateBounded
  BY InboundImplementsBucket, RateBoundedHolds, PTL

(* server_read refuses a search, and so drops the client, only for a cause.*)
THEOREM InboundRefusedForCause == InboundSpec => []RefusedForCause
  BY InboundImplementsBucket, RefusedForCauseHolds, PTL

=============================================================================
