----------------------------- MODULE MCBilling -----------------------------
(* Payments on a small instance.                                           *)
EXTENDS Billing, TLC

Symmetry == Permutations(Payments)
=============================================================================
