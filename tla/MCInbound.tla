----------------------------- MODULE MCInbound ------------------------------
(* Inbound for TLC. *)
EXTENDS Inbound, TLC

SoundPackets == {[kind |-> "search", len |-> 1], [kind |-> "query", len |-> 2]}

EmptyPackets == {[kind |-> "query", len |-> 0], [kind |-> "corrupt", len |-> 0]}

Faults ==
  EmptyPackets \cup {[kind |-> k, len |-> 1] : k \in {"quit", "corrupt", "unknown"}}

SoundStreams(n) == UNION {[1 .. k -> SoundPackets] : k \in 0 .. n}

(* Up to three sound packets, or one at most and then a packet that is     *)
(* not sound and one that follows it.                                      *)
MCStreams ==
  SoundStreams(3) \cup
  {s \o <<f>> \o t : s \in SoundStreams(1), f \in Faults,
                     t \in [1 .. 1 -> SoundPackets \cup Faults]}
=============================================================================
