---------------------------- MODULE MCBenchmark -----------------------------
(* Benchmark for TLC; the bounds come from the cfg file. *)
EXTENDS Benchmark, TLC
=============================================================================
