----------------------------- MODULE MCJobQueue -----------------------------
(* JobQueue on a small instance: the two processes of the deployment,      *)
(* interchangeable where no fairness is assumed.                           *)
EXTENDS JobQueue, TLC

Symmetry == Permutations(Processes)
=============================================================================
