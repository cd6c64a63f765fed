------------------------------ MODULE MCSeats ------------------------------
(* Instances of Seats for TLC.                                             *)
EXTENDS Seats, TLC

CONSTANTS s1, s2, s3

Symmetry == Permutations(Students) \union Permutations(Threads)
=============================================================================
