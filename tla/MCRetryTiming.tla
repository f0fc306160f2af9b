---------------------------- MODULE MCRetryTiming ----------------------------
(* An instance of RetryTiming for TLC. *)
EXTENDS RetryTiming, TLC

Alike == Permutations(Targets \ Brokers)
=============================================================================
