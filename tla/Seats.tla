------------------------------- MODULE Seats -------------------------------
(***************************************************************************)
(* The seats of an institute: who holds one, whose access window has ended *)
(* and who is in an exam (institute_admin_service, access_window_service,  *)
(* dependencies/limits.py, dependencies/auth.py).                          *)
(*                                                                         *)
(* A request reads the institute's rows in one snapshot, fixed by the      *)
(* first query of its transaction, and writes the columns it has changed   *)
(* when it commits: reading and committing are two actions.  The lock that *)
(* create_member and its like take on the institute's row comes after that *)
(* first query, and the seats are counted by a plain one: it makes the     *)
(* second request wait and not see more.                                   *)
(***************************************************************************)
EXTENDS Naturals, FiniteSets

CONSTANTS
    Students,       \* everyone the institute may enrol
    StudentLimit,   \* plan_limit_total: the seats of all its paid terms
    Threads,        \* the threads that serve administrators
    Scheduler       \* the thread that sweeps

ASSUME SeatsAssumption ==
    /\ IsFiniteSet(Students)
    /\ StudentLimit \in Nat
    /\ Scheduler \notin Threads

VARIABLES
    row,      \* the students' rows of users
    exam,     \* who has an attempt in progress
    work,     \* the transaction of each thread
    crossed   \* holders whose row was written by a transaction that another had
              \* overtaken, and who have not taken a seat anew since

vars == <<row, exam, work, crossed>>

\* seat: access_state, or that there is no row yet, or that deleted_at is set: of
\* such a row nothing else matters.  in: is_active.  ended: access_ends_at is past.
Rows == [seat : {"none", "active", "suspended", "expired", "released", "deleted"},
         in : BOOLEAN, ended : BOOLEAN]

NoRow   == [seat |-> "none", in |-> FALSE, ended |-> FALSE]
Deleted == [seat |-> "deleted", in |-> FALSE, ended |-> FALSE]

\* What SQLAlchemy's UPDATE sets in a row: {} where the column has not changed,
\* {v} where it becomes v.
Changes == [seat : SUBSET {"active", "suspended", "expired", "released", "deleted"},
            in : SUBSET BOOLEAN, ended : SUBSET BOOLEAN]

Changed(seen, new) ==
    [seat  |-> {new.seat} \ {seen.seat}, in |-> {new.in} \ {seen.in},
     ended |-> {new.ended} \ {seen.ended}]

\* on: the students whose rows it writes; by: what it writes there.  takes: it
\* counted the seats to take some.  late: another has committed in between to the
\* same rows, or has taken seats as well.
Transactions ==
    [op : {"none", "enrol", "update"}, takes : BOOLEAN, late : BOOLEAN,
     on : SUBSET Students, by : [Students -> Changes]]

Idle == [op |-> "none", takes |-> FALSE, late |-> FALSE, on |-> {},
         by |-> [s \in Students |-> Changed(NoRow, NoRow)]]

-----------------------------------------------------------------------------
Exists(s) == row[s].seat \notin {"none", "deleted"}

\* seat_holder_filter: released students hold none, suspended and expired do.
Holders == {s \in Students : Exists(s) /\ row[s].seat # "released"}

\* enforce_limit, and how many _available_student_slots leaves.
Free == IF Cardinality(Holders) < StudentLimit THEN StudentLimit - Cardinality(Holders) ELSE 0

\* get_current_user and access_denied_reason, on every request of a student.
MayUse(s) ==
    /\ Exists(s)
    /\ row[s].in
    /\ row[s].seat \notin {"released", "suspended"}
    /\ ~row[s].ended

Init ==
    /\ row = [s \in Students |-> NoRow]
    /\ exam = [s \in Students |-> FALSE]
    /\ work = [t \in Threads \union {Scheduler} |-> Idle]
    /\ crossed = {}

-----------------------------------------------------------------------------
(* What administrators and the scheduler ask for.                          *)

\* A request that changes nothing is left out.
Begins(t, op, takes, on, To(_)) ==
    /\ work[t].op = "none"
    /\ \A s \in on : To(row[s]) # row[s]
    /\ work' = [work EXCEPT ![t] =
          [op |-> op, takes |-> takes, late |-> FALSE, on |-> on,
           by |-> [s \in Students |-> IF s \in on THEN Changed(row[s], To(row[s]))
                                                    ELSE Changed(NoRow, NoRow)]]]
    /\ UNCHANGED <<row, exam, crossed>>

Active(r)    == [r EXCEPT !.seat = "active", !.in = TRUE]
Seated(r)    == [Active(r) EXCEPT !.ended = FALSE]
Suspended(r) == [r EXCEPT !.seat = "suspended", !.in = FALSE]
Released(r)  == [r EXCEPT !.seat = "released", !.in = FALSE]
Retired(r)   == Deleted

\* An extension lets an expired student in again.
Ending(r)   == [r EXCEPT !.ended = TRUE]
Extended(r) == IF r.seat = "expired" THEN Seated(r) ELSE [r EXCEPT !.ended = FALSE]

Update(t, s, To(_)) == Begins(t, "update", FALSE, {s}, To)

\* create_member for a student, and import_students: as many rows of the file as
\* there are seats.
Enrol(t, some) ==
    /\ some # {} /\ \A s \in some : row[s].seat = "none"
    /\ Cardinality(some) <= Free
    /\ Begins(t, "enrol", TRUE, some, Seated)

\* Mutant: coming back costs nothing.
ReactivateUncounted(t, s) ==
    /\ Exists(s) /\ row[s].seat = "released"
    /\ Begins(t, "update", TRUE, {s}, Seated)

\* reactivate_seat.
Reactivate(t, s) ==
    /\ Exists(s) /\ row[s].seat = "released"
    /\ Free > 0
    /\ Begins(t, "update", TRUE, {s}, Seated)

\* set_member_active.
Activate(t, s) == s \in Holders /\ ~row[s].ended /\ Update(t, s, Active)
Suspend(t, s)  == s \in Holders /\ Update(t, s, Suspended)

\* set_member_window.
SetWindow(t, s) == s \in Holders /\ (Update(t, s, Ending) \/ Update(t, s, Extended))

\* release_seat.
Release(t, s) ==
    /\ s \in Holders /\ row[s].seat # "active" /\ ~exam[s]
    /\ Update(t, s, Released)

\* delete_member.
Delete(t, s) == Exists(s) /\ Update(t, s, Retired)

Expired(r) == [r EXCEPT !.seat = "expired", !.in = FALSE]

Due == {s \in Students : Exists(s) /\ row[s].seat = "active" /\ row[s].ended}

\* Mutant: nobody looks for exams.
SweepAll ==
    /\ Due # {}
    /\ Begins(Scheduler, "update", FALSE, Due, Expired)

\* expire_due_students, which leaves those in an exam for its next run.
Sweep ==
    LET due == {s \in Due : ~exam[s]}
    IN  /\ due # {}
        /\ Begins(Scheduler, "update", FALSE, due, Expired)

-----------------------------------------------------------------------------
(* The commit of a transaction.                                            *)

Or(change, now) == IF change = {} THEN now ELSE CHOOSE v \in change : TRUE

Updated(r, by) ==
    IF "deleted" \in {r.seat} \union by.seat
    THEN Deleted
    ELSE [seat |-> Or(by.seat, r.seat), in |-> Or(by.in, r.in), ended |-> Or(by.ended, r.ended)]

\* The unique index of the addresses refuses a student enrolled twice.
Conflicts(w) == w.op = "enrol" /\ \E s \in w.on : row[s].seat # "none"

Overtakes(w, other) ==
    \/ w.on \intersect other.on # {}
    \/ w.takes /\ other.takes

Finished(t) == [work EXCEPT ![t] = Idle]

RollBack(t) ==
    /\ work[t].op # "none" /\ Conflicts(work[t])
    /\ work' = Finished(t)
    /\ UNCHANGED <<row, exam, crossed>>

Commit(t) ==
    LET w == work[t]
    IN  /\ w.op # "none" /\ ~Conflicts(w)
        /\ row' = [s \in Students |-> Updated(row[s], w.by[s])]
        /\ crossed' = Holders' \intersect (IF w.late THEN crossed \union w.on
                                 ELSE IF w.takes THEN crossed \ w.on ELSE crossed)
        /\ work' = [u \in Threads \union {Scheduler} |->
              IF u = t THEN Idle
              ELSE [work[u] EXCEPT !.late = @ \/ Overtakes(w, work[u])]]
        /\ UNCHANGED exam

-----------------------------------------------------------------------------
(* Students and time.                                                      *)

StartExam(s) ==
    /\ MayUse(s) /\ ~exam[s]
    /\ exam' = [exam EXCEPT ![s] = TRUE]
    /\ UNCHANGED <<row, work, crossed>>

SubmitExam(s) ==
    /\ MayUse(s) /\ exam[s]
    /\ exam' = [exam EXCEPT ![s] = FALSE]
    /\ UNCHANGED <<row, work, crossed>>

\* sweep_expired_attempts.
ExamTimesUp(s) ==
    /\ exam[s]
    /\ exam' = [exam EXCEPT ![s] = FALSE]
    /\ UNCHANGED <<row, work, crossed>>

WindowEnds(s) ==
    /\ s \in Holders /\ ~row[s].ended
    /\ row' = [row EXCEPT ![s].ended = TRUE]
    /\ UNCHANGED <<exam, work, crossed>>

-----------------------------------------------------------------------------
Administrator(t) ==
    \/ \E some \in SUBSET Students : Enrol(t, some)
    \/ \E s \in Students : \/ Reactivate(t, s) \/ Activate(t, s) \/ Suspend(t, s)
                           \/ SetWindow(t, s) \/ Release(t, s) \/ Delete(t, s)

Next ==
    \/ \E t \in Threads : Administrator(t)
    \/ Sweep
    \/ \E t \in Threads \union {Scheduler} : Commit(t) \/ RollBack(t)
    \/ \E s \in Students : StartExam(s) \/ SubmitExam(s) \/ ExamTimesUp(s) \/ WindowEnds(s)

Spec == Init /\ [][Next]_vars

\* The scheduler sweeps students and attempts, and transactions end.
FairSpec ==
    /\ Spec
    /\ WF_vars(Sweep)
    /\ \A t \in Threads \union {Scheduler} : WF_vars(Commit(t) \/ RollBack(t))
    /\ \A s \in Students : WF_vars(ExamTimesUp(s))

-----------------------------------------------------------------------------
(* Properties                                                              *)

TypeOK ==
    /\ row \in [Students -> Rows]
    /\ exam \in [Students -> BOOLEAN]
    /\ work \in [Threads \union {Scheduler} -> Transactions]
    /\ crossed \in SUBSET Students

\* Nobody holds a seat the institute has not bought, whatever is released, left
\* to expire, extended, suspended and brought back in between ("an admin could
\* deactivate ten students, create ten more, then reactivate the original ten and
\* sit at 110 on a 100-seat plan", institute_admin_service.py:624-627) - but for
\* those seated by a transaction that another one has overtaken.
SeatsAreBought == Cardinality(Holders \ crossed) <= StudentLimit

\* The sweep ends nobody's access in the middle of an exam ("never touches a
\* student with a test in progress", access_window_service.py:31), unless the row
\* was changed behind its back.
SweepSparesExams ==
    [][\A s \in Students : row[s].seat = "active" /\ row'[s].seat = "expired"
           => ~exam[s] \/ s \in crossed']_vars

\* A student whose window has ended does not stay active for ever, exam or not:
\* the seat can be released in the end.
EndedIsExpired ==
    \A s \in Students :
        (Exists(s) /\ row[s].ended) ~> ~(Exists(s) /\ row[s].ended /\ row[s].seat = "active")

\* "the second request waits, re-counts 100, and is refused"
\* (institute_admin_service.py:366-368).
LimitHolds == Cardinality(Holders) <= StudentLimit

\* A student whom the sweep leaves alone in an exam "must still be able to
\* submit" (tests/test_access_windows.py:278).
SittingGoesOn ==
    \A s \in Students : exam[s] /\ Exists(s) /\ row[s].seat = "active" => MayUse(s)

\* "a suspension is an admin decision and is left alone"
\* (institute_admin_service.py:724-725): no sweep makes it an expiry.
SuspensionStands ==
    [][\A s \in Students : row[s].seat = "suspended" => row'[s].seat # "expired"]_vars
=============================================================================
