----------------------------- MODULE MCBenchmark -----------------------------
(* Small instances of Benchmark: two scripts, so that one meets what the other *)
(* left; one request of another client; one restart.                          *)
EXTENDS Benchmark
=============================================================================
