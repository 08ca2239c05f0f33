----------------------------- MODULE MCMetrics ------------------------------
(***************************************************************************)
(* A small instance of Metrics: two workers, a u64 that the product in     *)
(* drop_rate_bps overflows from two drops on.                              *)
(***************************************************************************)
EXTENDS Metrics
=============================================================================
