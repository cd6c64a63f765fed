---------------------------- MODULE MCVouchers ----------------------------
(* Vouchers on a small instance.                                           *)
EXTENDS Vouchers, TLC

Symmetry == Permutations(Purchases)
=============================================================================
