---------------------------- MODULE MCWorkerClaims ----------------------------
(* WorkerClaims on a small instance. *)
EXTENDS WorkerClaims, TLC

Symmetry == Permutations(Worker) \union Permutations(Phone)
=============================================================================
