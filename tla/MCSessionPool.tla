----------------------------- MODULE MCSessionPool -----------------------------
(* SessionPool on a small instance. *)
EXTENDS SessionPool, TLC

\* Bound: after an error has left a client behind, one account gets a second lock, not both.
Few == leaked = {} \/ Cardinality(replaced) <= 1

Symmetry == Permutations(Task) \union Permutations(Account)
=============================================================================
