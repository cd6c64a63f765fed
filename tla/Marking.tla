------------------------------ MODULE Marking ------------------------------
(***************************************************************************)
(* What marking promises the student, and nothing of how it is done: marks *)
(* are drafted out of sight, published for good, corrected in place, and   *)
(* the result is shown in one step, once every part has a published mark.  *)
(* Grading implements it.                                                  *)
(***************************************************************************)
CONSTANT Parts

VARIABLES
    stage,   \* sitting, marking or shown
    marks    \* of each part: open, drafted or published

vars == <<stage, marks>>

Init ==
    /\ stage = "sitting"
    /\ marks = [p \in Parts |-> "open"]

(* A draft is work in progress: before the result is shown, and never on a *)
(* part whose mark is out.                                                 *)
Draft(p) ==
    /\ stage = "marking"
    /\ marks[p] # "published"
    /\ marks' = [marks EXCEPT ![p] = "drafted"]
    /\ UNCHANGED stage

(* Marks may come out in any number at a time, also for a paper still      *)
(* being sat.                                                              *)
Publish ==
    /\ \E S \in SUBSET Parts :
          marks' = [p \in Parts |-> IF p \in S THEN "published" ELSE marks[p]]
    /\ UNCHANGED stage

(* The paper is handed in; what is blank is marked with it.                *)
HandIn ==
    /\ stage = "sitting"
    /\ stage' = "marking"
    /\ \E blank \in SUBSET Parts :
          marks' = [p \in Parts |-> IF p \in blank THEN "published" ELSE marks[p]]

Show ==
    /\ stage = "marking"
    /\ \A p \in Parts : marks[p] = "published"
    /\ stage' = "shown"
    /\ UNCHANGED marks

Next == HandIn \/ Publish \/ Show \/ \E p \in Parts : Draft(p)

Spec == Init /\ [][Next]_vars
=============================================================================
