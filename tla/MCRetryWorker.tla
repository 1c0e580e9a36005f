---------------------------- MODULE MCRetryWorker ----------------------------
(* RetryWorker on a small instance. *)
EXTENDS RetryWorker, TLC

Symmetry == Permutations(Consumer)
=============================================================================
