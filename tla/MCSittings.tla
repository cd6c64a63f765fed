----------------------------- MODULE MCSittings -----------------------------
(* Sittings on a small instance: the handlers of two concurrent requests,  *)
(* interchangeable, and a few rows of each table.                          *)
EXTENDS Sittings, TLC

Symmetry == Permutations(Requests)
=============================================================================
