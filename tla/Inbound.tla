------------------------------ MODULE Inbound -------------------------------
(***************************************************************************)
(* The bytes of one client, from the socket to process_packet: server_read *)
(* cuts the input into packets, however the network has fragmented it, and *)
(* meters the searches among them with the token bucket.                   *)
(*                                                                         *)
(* The tcp thread fills the buffer at any moment; server_read works with   *)
(* the length it read at the last turn of its loop.  Handlers of one       *)
(* client never overlap (JobQueue!MutualExclusion).  The client has logged *)
(* in and its port check is finished.                                      *)
(***************************************************************************)
EXTENDS TokenBucket, Sequences

CONSTANTS
  HeaderLen,   \* sizeof(struct packet_header)
  Streams,     \* what a client may send: sequences of packets
  MaxArrivals  \* bound: fragments the stream arrives in

(* What a packet is to server_read.  "unknown" has a first byte that is no *)
(* protocol, "corrupt" is packed and does not unpack, "quit" is one that   *)
(* makes process_packet delete the client, "query" any other.  (Session    *)
(* has the drain of a buffer that went with the client.)                   *)
Kinds == {"search", "query", "quit", "corrupt", "unknown"}

Packet == [kind : Kinds, len : Nat]

ASSUME StreamsOfPackets == Streams \subseteq Seq(Packet)
ASSUME SizesNat == HeaderLen \in Nat \ {0} /\ MaxArrivals \in Nat

VARIABLES
  stream,     \* the packets the client sends, in order
  arrived,    \* bytes that have reached the input buffer so far
  arrivals,   \* fragments so far
  drained,    \* bytes drained from the input buffer so far
  src_len,    \* the local variable of server_read
  reading,    \* a worker is inside server_read
  jobs,       \* JOB_SERVER_READ queued
  gone,       \* clnt->deleted
  undefined,  \* server_read has left the packet, see HandleEmpty
  handled     \* history: packets that process_packet has dealt with

inputVars == <<stream, arrived, arrivals, drained, src_len, reading, jobs,
               gone, undefined, handled>>

inboundVars == <<inputVars, bucketVars>>

(* Where packet i begins in a stream; past the last it is the end. *)
Starts(s) ==
  LET start[i \in 1 .. Len(s) + 1] ==
        IF i = 1 THEN 0 ELSE start[i - 1] + HeaderLen + s[i - 1].len
  IN  start

Total(s) == Starts(s)[Len(s) + 1]

InboundInit ==
  /\ BucketInit
  /\ stream \in Streams
  /\ arrived = 0 /\ arrivals = 0
  /\ drained = 0
  /\ src_len = 0
  /\ reading = FALSE
  /\ jobs = 0
  /\ gone = FALSE
  /\ undefined = FALSE
  /\ handled = <<>>

(* n more bytes arrive, and server_read_cb queues a job. *)
Arrive(n) ==
  /\ ~gone /\ arrivals < MaxArrivals
  /\ arrived + n <= Total(stream)
  /\ arrived' = arrived + n
  /\ arrivals' = arrivals + 1
  /\ jobs' = jobs + 1
  /\ UNCHANGED <<stream, drained, src_len, reading, gone, undefined, handled,
                 bucketVars>>

(* A worker takes the job; the handler of a deleted client is skipped. *)
ReadStarts ==
  /\ ~reading /\ jobs > 0
  /\ jobs' = jobs - 1
  /\ reading' = ~gone
  /\ src_len' = IF gone THEN src_len ELSE arrived - drained
  /\ UNCHANGED <<stream, arrived, arrivals, drained, gone, undefined, handled,
                 bucketVars>>

(* The condition of the loop. *)
LoopGoesOn == reading /\ ~gone /\ src_len > HeaderLen

LoopEnds ==
  /\ reading /\ ~LoopGoesOn
  /\ reading' = FALSE
  /\ UNCHANGED <<stream, arrived, arrivals, drained, src_len, jobs, gone,
                 undefined, handled, bucketVars>>

(* The packet whose header is at the front of the buffer. *)
Front == {i \in 1 .. Len(stream) : Starts(stream)[i] = drained}

(* server_read returns, having deleted the client or not. *)
Return(deletes) ==
  /\ reading' = FALSE
  /\ gone' = (gone \/ deletes)
  /\ UNCHANGED <<stream, arrived, arrivals, drained, src_len, jobs, handled>>

UnknownProto(i) ==
  /\ LoopGoesOn /\ stream[i].kind = "unknown"
  /\ Return(TRUE)
  /\ UNCHANGED <<undefined, bucketVars>>

PacketLen(i) == HeaderLen + stream[i].len

(* Faulty variant of IsWhole: the header is not counted. *)
IsWholeBody(i) == stream[i].len <= src_len

(* The whole packet was there when the length was read. *)
IsWhole(i) == PacketLen(i) <= src_len

WaitRest(i) ==
  /\ LoopGoesOn /\ stream[i].kind # "unknown" /\ ~IsWhole(i)
  /\ Return(FALSE)
  /\ UNCHANGED <<undefined, bucketVars>>

Complete(i, k) ==
  /\ LoopGoesOn /\ IsWhole(i)
  /\ stream[i].kind = k /\ stream[i].len > 0

(* A packed packet that does not unpack stays where it is. *)
HandleCorrupt(i) ==
  /\ Complete(i, "corrupt")
  /\ Return(FALSE)
  /\ UNCHANGED <<undefined, bucketVars>>

HandleQuit(i) ==
  /\ Complete(i, "quit")
  /\ Return(TRUE)
  /\ UNCHANGED <<undefined, bucketVars>>

(* Faulty variant of Drain: one packet for each job. *)
DrainOnce(i) ==
  /\ drained' = drained + PacketLen(i)
  /\ src_len' = arrived - drained'
  /\ handled' = Append(handled, i)
  /\ reading' = FALSE
  /\ UNCHANGED <<stream, arrived, arrivals, jobs, gone>>

(* The packet is dealt with and drained, and the length is read again. *)
Drain(i) ==
  /\ drained' = drained + PacketLen(i)
  /\ src_len' = arrived - drained'
  /\ handled' = Append(handled, i)
  /\ UNCHANGED <<stream, arrived, arrivals, reading, jobs, gone>>

HandleQuery(i) ==
  /\ Complete(i, "query")
  /\ Drain(i)
  /\ UNCHANGED <<undefined, bucketVars>>

(* A search takes a token; the client is deleted when there is none. *)
HandleSearch(i) ==
  /\ Complete(i, "search")
  /\ token_bucket_update
  /\ IF refused' THEN Return(TRUE) ELSE Drain(i)
  /\ UNCHANGED undefined

(* Faulty variant of HandleEmpty: it waits for the packet to be complete. *)
HandleEmptyWaits(i) ==
  /\ LoopGoesOn /\ stream[i].kind # "unknown" /\ stream[i].len = 0
  /\ Return(FALSE)
  /\ UNCHANGED <<undefined, bucketVars>>

(* length - 1 wraps, and there is no opcode: the byte after the header,    *)
(* which has arrived, is the first of the next packet.  As an opcode the   *)
(* byte of either protocol is malformed; any other one, and what a packed  *)
(* packet may unpack to, is handled past the end of the input.             *)
(* evbuffer_pullup promises the five bytes of the header in one piece and  *)
(* no more: here the buffer is taken to hold that byte in the same piece.  *)
Overruns(i) == stream[i].kind = "corrupt" \/ stream[i + 1].kind = "unknown"

(* A header that says length 0.  The client is deleted as malformed, or    *)
(* what comes of it is anything that process_packet does.                  *)
HandleEmpty(i) ==
  /\ LoopGoesOn /\ stream[i].kind # "unknown" /\ stream[i].len = 0
  /\ Return(TRUE) \/ (Overruns(i) /\ (Return(FALSE) \/ Drain(i)))
  /\ undefined' = (undefined \/ Overruns(i))
  /\ UNCHANGED bucketVars

ReadPacket ==
  \E i \in Front :
    \/ UnknownProto(i) \/ WaitRest(i) \/ HandleCorrupt(i) \/ HandleQuit(i)
    \/ HandleQuery(i) \/ HandleSearch(i) \/ HandleEmpty(i)

Work == ReadStarts \/ LoopEnds \/ ReadPacket

InboundNext ==
  \/ \E n \in 1 .. Total(stream) : Arrive(n)
  \/ Work
  \/ Clock /\ UNCHANGED inputVars

InboundSpec == InboundInit /\ [][InboundNext]_inboundVars

(* A queued job is taken (Shutdown!JobServed) and a handler goes on. *)
FairInbound == InboundSpec /\ WF_inboundVars(Work)

-----------------------------------------------------------------------------
InboundTypeOK ==
  /\ BucketTypeOK
  /\ stream \in Streams
  /\ {arrived, arrivals, drained, src_len, jobs} \subseteq Nat
  /\ {reading, gone, undefined} \subseteq BOOLEAN
  /\ handled \in Seq(Nat)

(* A packet that does not stop the stream. *)
Sound(p) == p.kind \in {"search", "query"} /\ p.len > 0

(* Packets are handled whole, in the order they were sent, each of them    *)
(* once, and none behind one that is malformed, however they were cut into *)
(* fragments and whatever arrived while the loop was working with an       *)
(* earlier length.  (An empty packet that is handled past the end of the   *)
(* input is beyond this promise.)                                          *)
HandledInOrder ==
  ~undefined =>
  /\ \A k \in 1 .. Len(handled) : handled[k] = k /\ Sound(stream[k])
  /\ drained = Starts(stream)[Len(handled) + 1]
  /\ drained <= arrived

(* All that was sent has arrived and is sound: it is handled to the last   *)
(* packet unless the limit on searches is reached.  No byte is left in the *)
(* buffer with no job to look at it.                                       *)
AllServed ==
  (arrived = Total(stream) /\ \A i \in 1 .. Len(stream) : Sound(stream[i]))
    ~> (Len(handled) = Len(stream) \/ refused)

(* The first packet that is not sound. *)
FirstFault == {i \in 1 .. Len(stream) :
                 ~Sound(stream[i]) /\ \A j \in 1 .. i - 1 : Sound(stream[j])}

(* A header with length 0, for which the code has no test, does not hang   *)
(* the connection or get skipped: as soon as the first byte of a packet    *)
(* follows it, the connection ends.  Nothing is promised when the code     *)
(* works past the end of the input.                                        *)
EmptyEndsConnection ==
  (\E i \in FirstFault : /\ stream[i].len = 0
                         /\ arrived > Starts(stream)[i] + HeaderLen)
    ~> gone \/ undefined

=============================================================================
