----------------------------- MODULE MCGrading -----------------------------
(* Grading on a small instance.  Instructors and evaluators are            *)
(* interchangeable.                                                        *)
EXTENDS Grading, TLC

Symmetry == Permutations(Instructors) \union Permutations(Evaluators)
=============================================================================
