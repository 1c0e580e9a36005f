------------------------------ MODULE MCBilling ------------------------------
(* Billing on a small instance. *)
EXTENDS Billing, TLC
=============================================================================
