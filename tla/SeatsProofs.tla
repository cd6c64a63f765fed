---------------------------- MODULE SeatsProofs ----------------------------
(* Proofs about Seats, for any students, limit and number of threads.      *)
EXTENDS Seats, FiniteSetTheorems, TLAPS

-----------------------------------------------------------------------------
(* The inductive invariant.  A transaction that no other has overtaken     *)
(* still finds the rows as it read them: its count of the seats holds, it  *)
(* changes rows of holders, and whom it expires is in no exam.             *)

All == Threads \union {Scheduler}
Nothing == Changed(NoRow, NoRow)

Counted == Holders \ crossed

WritesItsRows == \A t \in All : \A s \in Students \ work[t].on : work[t].by[s] = Nothing
TakersSeat    == \A t \in All : work[t].takes => \A s \in work[t].on : work[t].by[s].seat = {"active"}
TakersFit ==
    \A t \in All : work[t].takes /\ ~work[t].late =>
        Cardinality(Counted \union work[t].on) <= StudentLimit
OthersKeep ==
    \A t \in All : ~work[t].takes /\ ~work[t].late =>
        \A s \in work[t].on : s \in Holders \/ work[t].by[s].seat = {"deleted"}
ExpiriesSpare ==
    \A t \in All : \A s \in Students :
        "expired" \in work[t].by[s].seat /\ ~work[t].late => row[s].ended /\ exam[s] = FALSE

Inv == /\ TypeOK /\ WritesItsRows /\ TakersSeat /\ TakersFit /\ OthersKeep /\ ExpiriesSpare
       /\ SeatsAreBought

-----------------------------------------------------------------------------
(* Rows, changes and counts                                                *)

LEMMA NothingIsNothing == Nothing = [seat |-> {}, in |-> {}, ended |-> {}] /\ Nothing \in Changes
  BY DEF Nothing, Changed, NoRow, Changes

LEMMA HoldersFinite ==
    /\ IsFiniteSet(Holders) /\ Cardinality(Holders) \in Nat
    /\ IsFiniteSet(Counted) /\ Cardinality(Counted) \in Nat
    /\ Cardinality(Counted) <= Cardinality(Holders)
  <1>1. Holders \subseteq Students /\ Counted \subseteq Holders
    BY DEF Holders, Counted
  <1>2. QED
    BY <1>1, FS_Subset, FS_CardinalityType, SeatsAssumption

\* A set of students is no larger than one that contains it.
LEMMA Smaller ==
    ASSUME NEW B, B \subseteq Students, NEW A, A \subseteq B
    PROVE  /\ Cardinality(A) \in Nat /\ Cardinality(B) \in Nat
           /\ Cardinality(A) <= Cardinality(B)
  <1>1. IsFiniteSet(B)
    BY FS_Subset, SeatsAssumption
  <1>2. QED
    BY <1>1, FS_Subset, FS_CardinalityType

\* Adding students adds no more than they are.
LEMMA Together ==
    ASSUME NEW A, A \subseteq Students, NEW B, B \subseteq Students
    PROVE  /\ Cardinality(A) \in Nat /\ Cardinality(B) \in Nat
           /\ Cardinality(A \union B) \in Nat
           /\ Cardinality(A \union B) <= Cardinality(A) + Cardinality(B)
  <1>1. IsFiniteSet(A) /\ IsFiniteSet(B) /\ IsFiniteSet(A \union B)
    BY FS_Subset, SeatsAssumption
  <1>2. /\ Cardinality(A \union B) = Cardinality(A) + Cardinality(B) - Cardinality(A \intersect B)
        /\ Cardinality(A \intersect B) \in Nat
    BY <1>1, FS_Union, FS_Subset, FS_CardinalityType
  <1>3. QED
    BY <1>1, <1>2, FS_CardinalityType

LEMMA OrIs ==
    ASSUME NEW change, NEW now
    PROVE  /\ change = {} => Or(change, now) = now
           /\ Or(change, now) \in change \union {now}
           /\ \A v : change = {v} => Or(change, now) = v
  BY DEF Or

\* What a change makes of a row.
LEMMA UpdatedRow ==
    ASSUME NEW r \in Rows, NEW by \in Changes
    PROVE  /\ Updated(r, by) \in Rows
           /\ by = Nothing /\ r.seat # "deleted" => Updated(r, by) = r
           /\ by.seat = {} => Updated(r, by).seat = r.seat
           /\ \A v : by.seat = {v} => Updated(r, by).seat \in {v, "deleted"}
           /\ Updated(r, by).seat # r.seat =>
                  Updated(r, by).seat \in by.seat \union {"deleted"}
  <1>1. CASE r.seat = "deleted" \/ "deleted" \in by.seat
    <2>1. Updated(r, by) = Deleted
      BY <1>1 DEF Updated
    <2>2. Deleted \in Rows /\ Deleted.seat = "deleted"
      BY DEF Deleted, Rows
    <2>3. by = Nothing => by.seat = {}
      BY NothingIsNothing
    <2>4. QED
      BY <1>1, <2>1, <2>2, <2>3
  <1>2. CASE r.seat # "deleted" /\ "deleted" \notin by.seat
    <2>1. Updated(r, by) = [seat |-> Or(by.seat, r.seat), in |-> Or(by.in, r.in),
                            ended |-> Or(by.ended, r.ended)]
      BY <1>2 DEF Updated
    <2>2. /\ Or(by.seat, r.seat) \in by.seat \union {r.seat}
          /\ Or(by.in, r.in) \in by.in \union {r.in}
          /\ Or(by.ended, r.ended) \in by.ended \union {r.ended}
      BY OrIs
    <2>3. Updated(r, by) \in Rows
      BY <2>1, <2>2 DEF Rows, Changes
    <2>4. by = Nothing => Updated(r, by) = r
      <3>1. by = Nothing => by.seat = {} /\ by.in = {} /\ by.ended = {}
        BY NothingIsNothing
      <3>2. r = [seat |-> r.seat, in |-> r.in, ended |-> r.ended]
        BY DEF Rows
      <3>3. QED
        BY <2>1, <3>1, <3>2, OrIs
    <2>5. Updated(r, by).seat = Or(by.seat, r.seat)
      BY <2>1
    <2>6. QED
      BY <2>2, <2>3, <2>4, <2>5, OrIs
  <1>3. QED
    BY <1>1, <1>2

-----------------------------------------------------------------------------
(* Every request begins a transaction that agrees with the rows it reads.  *)

Opened(t, takes, on, by) ==
    /\ t \in All /\ takes \in BOOLEAN /\ on \in SUBSET Students /\ by \in [Students -> Changes]
    /\ \A s \in Students \ on : by[s] = Nothing
    /\ takes => /\ \A s \in on : by[s].seat = {"active"}
                /\ Cardinality(Holders \union on) <= StudentLimit
    /\ ~takes => \A s \in on : s \in Holders \/ by[s].seat = {"deleted"}
    /\ \A s \in Students : "expired" \in by[s].seat => row[s].ended /\ exam[s] = FALSE
    /\ \E op \in {"enrol", "update"} :
          work' = [work EXCEPT ![t] =
                      [op |-> op, takes |-> takes, late |-> FALSE, on |-> on, by |-> by]]
    /\ UNCHANGED <<row, exam, crossed>>

\* The rows the requests make, and what changes in them.
LEMMA RequestRows ==
    ASSUME NEW r \in Rows
    PROVE  /\ Active(r) \in Rows /\ Active(r).seat = "active"
           /\ Seated(r) \in Rows /\ Seated(r).seat = "active"
           /\ Suspended(r) \in Rows /\ Suspended(r).seat = "suspended"
           /\ Released(r) \in Rows /\ Released(r).seat = "released"
           /\ Retired(r) \in Rows /\ Retired(r).seat = "deleted"
           /\ Ending(r) \in Rows /\ Ending(r).seat = r.seat
           /\ Extended(r) \in Rows /\ Extended(r).seat \in {r.seat, "active"}
           /\ Expired(r) \in Rows /\ Expired(r).seat = "expired"
  BY DEF Rows, Active, Seated, Suspended, Released, Retired, Deleted, Ending, Extended, Expired

LEMMA ChangedType ==
    ASSUME NEW r \in Rows, NEW n \in Rows, n.seat # "none" \/ n.seat = r.seat
    PROVE  /\ Changed(r, n) \in Changes
           /\ Changed(r, n).seat = {n.seat} \ {r.seat}
  BY DEF Changed, Changes, Rows

LEMMA OneIsOne == ASSUME NEW s \in Students PROVE Cardinality({s}) = 1
  BY FS_Singleton

\* What is written to the row of one student.
Write(s, n) == [x \in Students |-> IF x = s THEN Changed(row[s], n) ELSE Nothing]

Written(t, takes, s, n) ==
    /\ work' = [work EXCEPT ![t] = [op |-> "update", takes |-> takes, late |-> FALSE,
                                    on |-> {s}, by |-> Write(s, n)]]
    /\ UNCHANGED <<row, exam, crossed>>

LEMMA UpdatesWrite ==
    ASSUME NEW t, NEW s \in Students
    PROVE  /\ Update(t, s, Active) => Written(t, FALSE, s, Active(row[s]))
           /\ Update(t, s, Suspended) => Written(t, FALSE, s, Suspended(row[s]))
           /\ Update(t, s, Ending) => Written(t, FALSE, s, Ending(row[s]))
           /\ Update(t, s, Extended) => Written(t, FALSE, s, Extended(row[s]))
           /\ Update(t, s, Released) => Written(t, FALSE, s, Released(row[s]))
           /\ Update(t, s, Retired) => Written(t, FALSE, s, Retired(row[s]))
           /\ Begins(t, "update", TRUE, {s}, Seated) => Written(t, TRUE, s, Seated(row[s]))
  <1> DEFINE By(To(_)) == [x \in Students |-> IF x \in {s} THEN Changed(row[x], To(row[x]))
                                                            ELSE Changed(NoRow, NoRow)]
  <1>1. /\ By(Active) = Write(s, Active(row[s]))
        /\ By(Suspended) = Write(s, Suspended(row[s]))
        /\ By(Ending) = Write(s, Ending(row[s]))
        /\ By(Extended) = Write(s, Extended(row[s]))
        /\ By(Released) = Write(s, Released(row[s]))
        /\ By(Retired) = Write(s, Retired(row[s]))
        /\ By(Seated) = Write(s, Seated(row[s]))
    BY DEF Write, Nothing
  <1>2. QED
    BY <1>1 DEF Update, Begins, Written

\* The request for one student who keeps the seat, or is deleted.
LEMMA KeepingOpens ==
    ASSUME TypeOK, NEW t \in All, NEW s \in Students, NEW n \in Rows,
           Written(t, FALSE, s, n),
           n.seat \notin {"none", "expired"} \/ n.seat = row[s].seat,
           s \in Holders \/ (n.seat = "deleted" /\ row[s].seat # "deleted")
    PROVE  Opened(t, FALSE, {s}, Write(s, n))
  <1>1. row[s] \in Rows
    BY DEF TypeOK
  <1>2. Changed(row[s], n) \in Changes /\ Changed(row[s], n).seat = {n.seat} \ {row[s].seat}
    BY <1>1, ChangedType
  <1>3. Write(s, n) \in [Students -> Changes]
    BY <1>2, NothingIsNothing DEF Write
  <1>4. /\ Write(s, n)[s] = Changed(row[s], n)
        /\ \A x \in Students \ {s} : Write(s, n)[x] = Nothing
    BY DEF Write
  <1>5. \A x \in Students : "expired" \notin Write(s, n)[x].seat
    BY <1>2, <1>4, NothingIsNothing
  <1>6. s \in Holders \/ Write(s, n)[s].seat = {"deleted"}
    BY <1>2, <1>4
  <1>7. QED
    BY <1>3, <1>4, <1>5, <1>6 DEF Opened, Written

LEMMA RoomFor ==
    ASSUME NEW on, on \in SUBSET Students, Cardinality(on) <= Free, on # {}
    PROVE  Cardinality(Holders \union on) <= StudentLimit
  <1>1. Holders \in SUBSET Students
    BY DEF Holders
  <1>2. /\ Cardinality(Holders \union on) <= Cardinality(Holders) + Cardinality(on)
        /\ Cardinality(Holders) \in Nat /\ Cardinality(on) \in Nat
        /\ Cardinality(Holders \union on) \in Nat
    BY <1>1, Together
  <1>3. Cardinality(on) # 0
    BY FS_Subset, FS_EmptySet, SeatsAssumption
  <1>4. QED
    BY <1>2, <1>3, SeatsAssumption DEF Free

\* A request that takes seats.
LEMMA TakingOpens ==
    ASSUME TypeOK, NEW t \in All, NEW on \in SUBSET Students, on # {},
           \A s \in on : row[s].seat \in {"none", "released"},
           Cardinality(on) <= Free,
           NEW by \in [Students -> Changes],
           \A x \in Students : by[x] = IF x \in on THEN Changed(row[x], Seated(row[x])) ELSE Nothing,
           NEW op \in {"enrol", "update"},
           work' = [work EXCEPT ![t] = [op |-> op, takes |-> TRUE, late |-> FALSE,
                                        on |-> on, by |-> by]],
           UNCHANGED <<row, exam, crossed>>
    PROVE  Opened(t, TRUE, on, by)
  <1>1. \A x \in on : by[x].seat = {"active"}
    BY ChangedType, RequestRows DEF TypeOK
  <1>2. \A x \in Students : "expired" \notin by[x].seat
    BY <1>1, NothingIsNothing
  <1>3. Cardinality(Holders \union on) <= StudentLimit
    BY RoomFor
  <1>4. QED
    BY <1>1, <1>2, <1>3 DEF Opened

LEMMA SweepOpens ==
    ASSUME TypeOK, Sweep
    PROVE  \E on, by : Opened(Scheduler, FALSE, on, by)
  <1> DEFINE due == {s \in Due : ~exam[s]}
             by == [x \in Students |-> IF x \in due THEN Changed(row[x], Expired(row[x]))
                                                    ELSE Changed(NoRow, NoRow)]
  <1>1. /\ work' = [work EXCEPT ![Scheduler] = [op |-> "update", takes |-> FALSE, late |-> FALSE,
                                                on |-> due, by |-> by]]
        /\ UNCHANGED <<row, exam, crossed>>
    BY DEF Sweep, Begins
  <1>2. due \subseteq Holders /\ \A s \in due : row[s].ended /\ exam[s] = FALSE /\ row[s].seat = "active"
    BY DEF Due, Holders, TypeOK
  <1>3. \A x \in due : Changed(row[x], Expired(row[x])) \in Changes
    BY <1>2, ChangedType, RequestRows DEF TypeOK, Holders
  <1>4. /\ by \in [Students -> Changes]
        /\ \A x \in Students \ due : by[x] = Nothing
    BY <1>3, NothingIsNothing DEF Nothing
  <1>5. \A x \in Students \ due : "expired" \notin by[x].seat
    BY <1>4, NothingIsNothing
  <1>6. due \in SUBSET Students
    BY <1>2 DEF Holders
  <1> HIDE DEF due, by
  <1>7. Opened(Scheduler, FALSE, due, by)
    BY <1>1, <1>2, <1>4, <1>5, <1>6 DEF Opened, All
  <1>8. QED
    BY <1>7

Begin == Sweep \/ \E t \in Threads : Administrator(t)

LEMMA BeginsOpen ==
    ASSUME TypeOK, Begin
    PROVE  \E t, takes, on, by : Opened(t, takes, on, by)
  <1>1. CASE Sweep
    BY <1>1, SweepOpens
  <1>2. ASSUME NEW t \in Threads, NEW some \in SUBSET Students, Enrol(t, some)
        PROVE  \E by : Opened(t, TRUE, some, by)
    <2> DEFINE by == [x \in Students |-> IF x \in some THEN Changed(row[x], Seated(row[x]))
                                                       ELSE Changed(NoRow, NoRow)]
    <2>1. /\ work' = [work EXCEPT ![t] = [op |-> "enrol", takes |-> TRUE, late |-> FALSE,
                                          on |-> some, by |-> by]]
          /\ UNCHANGED <<row, exam, crossed>>
      BY <1>2 DEF Enrol, Begins
    <2>2. \A x \in Students : by[x] = IF x \in some THEN Changed(row[x], Seated(row[x])) ELSE Nothing
      BY DEF Nothing
    <2>3. by \in [Students -> Changes]
      BY ChangedType, RequestRows, NothingIsNothing DEF TypeOK, Nothing
    <2> HIDE DEF by
    <2>4. Opened(t, TRUE, some, by)
      BY <1>2, <2>1, <2>2, <2>3, TakingOpens DEF Enrol, All
    <2>5. QED
      BY <2>4
  <1>3. ASSUME NEW t \in Threads, NEW s \in Students, Reactivate(t, s)
        PROVE  \E by : Opened(t, TRUE, {s}, by)
    <2>1. Written(t, TRUE, s, Seated(row[s]))
      BY <1>3, UpdatesWrite DEF Reactivate
    <2>2. Cardinality({s}) <= Free
      <3>1. Free \in Nat
        BY HoldersFinite, SeatsAssumption DEF Free
      <3>2. QED
        BY <1>3, <3>1, OneIsOne DEF Reactivate
    <2>3. Write(s, Seated(row[s])) \in [Students -> Changes]
      BY ChangedType, RequestRows, NothingIsNothing DEF TypeOK, Write
    <2>4. \A x \in Students : Write(s, Seated(row[s]))[x] =
              IF x \in {s} THEN Changed(row[x], Seated(row[x])) ELSE Nothing
      BY DEF Write
    <2>5. Opened(t, TRUE, {s}, Write(s, Seated(row[s])))
      BY <1>3, <2>1, <2>2, <2>3, <2>4, TakingOpens DEF Reactivate, Written, All
    <2>6. QED
      BY <2>5
  <1>4. ASSUME NEW t \in Threads, NEW s \in Students,
               \/ Activate(t, s) \/ Suspend(t, s) \/ SetWindow(t, s) \/ Release(t, s) \/ Delete(t, s)
        PROVE  \E by : Opened(t, FALSE, {s}, by)
    <2>1. t \in All /\ row[s] \in Rows
      BY DEF All, TypeOK
    <2>2. CASE Activate(t, s)
      BY <2>1, <2>2, UpdatesWrite, RequestRows, KeepingOpens DEF Activate
    <2>3. CASE Suspend(t, s)
      BY <2>1, <2>3, UpdatesWrite, RequestRows, KeepingOpens DEF Suspend
    <2>4. CASE SetWindow(t, s)
      <3>1. CASE Update(t, s, Ending)
        BY <2>1, <2>4, <3>1, UpdatesWrite, RequestRows, KeepingOpens DEF SetWindow
      <3>2. CASE Update(t, s, Extended)
        BY <2>1, <2>4, <3>2, UpdatesWrite, RequestRows, KeepingOpens DEF SetWindow
      <3>3. QED
        BY <2>4, <3>1, <3>2 DEF SetWindow
    <2>5. CASE Release(t, s)
      BY <2>1, <2>5, UpdatesWrite, RequestRows, KeepingOpens DEF Release
    <2>6. CASE Delete(t, s)
      BY <2>1, <2>6, UpdatesWrite, RequestRows, KeepingOpens DEF Delete, Exists
    <2>7. QED
      BY <1>4, <2>2, <2>3, <2>4, <2>5, <2>6
  <1>5. QED
    BY <1>1, <1>2, <1>3, <1>4 DEF Begin, Administrator

-----------------------------------------------------------------------------
(* The invariant is inductive.                                             *)

LEMMA IdleIs ==
    /\ Idle \in Transactions
    /\ Idle.on = {} /\ ~Idle.takes /\ \A s \in Students : Idle.by[s] = Nothing
  BY NothingIsNothing DEF Idle, Transactions, Nothing

LEMMA InvInit == Init => Inv
  <1> SUFFICES ASSUME Init PROVE Inv
    OBVIOUS
  <1>1. TypeOK
    BY IdleIs DEF Init, TypeOK, Rows, NoRow
  <1>2. \A t \in All : work[t] = Idle
    BY DEF Init, All
  <1>3. WritesItsRows /\ TakersSeat /\ TakersFit /\ OthersKeep /\ ExpiriesSpare
    BY <1>2, IdleIs, NothingIsNothing DEF WritesItsRows, TakersSeat, TakersFit, OthersKeep, ExpiriesSpare
  <1>4. Holders = {}
    BY DEF Init, Holders, Exists, NoRow
  <1>5. SeatsAreBought
    BY <1>4, FS_EmptySet, SeatsAssumption DEF SeatsAreBought
  <1>6. QED
    BY <1>1, <1>3, <1>5 DEF Inv

\* A transaction begins.
LEMMA OpenedKeeps ==
    ASSUME Inv, NEW t, NEW takes, NEW on, NEW by, Opened(t, takes, on, by)
    PROVE  Inv'
  <1>1. PICK op \in {"enrol", "update"} :
            work' = [work EXCEPT ![t] =
                        [op |-> op, takes |-> takes, late |-> FALSE, on |-> on, by |-> by]]
    BY DEF Opened
  <1>2. UNCHANGED <<row, exam, crossed>>
    BY DEF Opened
  <1>3. Holders' = Holders /\ Counted' = Counted
    BY <1>2 DEF Holders, Counted, Exists
  <1>4. /\ t \in All
        /\ work'[t] = [op |-> op, takes |-> takes, late |-> FALSE, on |-> on, by |-> by]
        /\ \A u \in All \ {t} : work'[u] = work[u]
    BY <1>1 DEF Opened, Inv, TypeOK, All
  <1>5. TypeOK'
    <2>1. [op |-> op, takes |-> takes, late |-> FALSE, on |-> on, by |-> by] \in Transactions
      BY DEF Opened, Transactions
    <2>2. QED
      BY <1>1, <1>2, <2>1 DEF Opened, Inv, TypeOK, All
  <1>6. WritesItsRows'
    BY <1>4 DEF Inv, WritesItsRows, Opened, All
  <1>7. TakersSeat'
    BY <1>4 DEF Inv, TakersSeat, Opened, All
  <1>8. TakersFit'
    <2>1. takes => Cardinality(Counted \union on) <= StudentLimit
      <3>1. Holders \union on \subseteq Students /\ Counted \union on \subseteq Holders \union on
        BY DEF Opened, Holders, Counted
      <3>2. /\ Cardinality(Counted \union on) \in Nat /\ Cardinality(Holders \union on) \in Nat
            /\ Cardinality(Counted \union on) <= Cardinality(Holders \union on)
        BY <3>1, Smaller
      <3>3. QED
        BY <3>2, SeatsAssumption DEF Opened
    <2>2. SUFFICES ASSUME NEW u \in All, work'[u].takes, ~work'[u].late
                   PROVE  Cardinality(Counted' \union work'[u].on) <= StudentLimit
      BY DEF TakersFit, All
    <2>3. CASE u = t
      <3>1. takes /\ Counted' \union work'[u].on = Counted \union on
        BY <1>3, <1>4, <2>2, <2>3
      <3>2. QED
        BY <2>1, <3>1
    <2>4. CASE u # t
      <3>1. /\ work[u].takes /\ ~work[u].late
            /\ Counted' \union work'[u].on = Counted \union work[u].on
        BY <1>3, <1>4, <2>2, <2>4
      <3>2. QED
        BY <3>1 DEF Inv, TakersFit
    <2>5. QED
      BY <2>3, <2>4
  <1>9. OthersKeep'
    BY <1>3, <1>4 DEF Inv, OthersKeep, Opened, All
  <1>10. ExpiriesSpare'
    BY <1>2, <1>4 DEF Inv, ExpiriesSpare, Opened, All
  <1>11. SeatsAreBought'
    BY <1>3 DEF Inv, SeatsAreBought, Counted
  <1>12. QED
    BY <1>5, <1>6, <1>7, <1>8, <1>9, <1>10, <1>11 DEF Inv

\* A transaction fails.
LEMMA RollBackKeeps ==
    ASSUME Inv, NEW t \in All, RollBack(t)
    PROVE  Inv'
  <1>1. /\ work'[t] = Idle /\ \A u \in All \ {t} : work'[u] = work[u]
        /\ work' \in [All -> Transactions] /\ UNCHANGED <<row, exam, crossed>>
    BY IdleIs DEF RollBack, Finished, Inv, TypeOK, All
  <1>2. Holders' = Holders /\ Counted' = Counted
    BY <1>1 DEF Holders, Counted, Exists
  <1>3. TypeOK'
    BY <1>1 DEF Inv, TypeOK, All
  <1>4. WritesItsRows' /\ TakersSeat' /\ TakersFit'
    BY <1>1, <1>2, IdleIs DEF Inv, WritesItsRows, TakersSeat, TakersFit, All
  <1>5. OthersKeep'
    BY <1>1, <1>2, IdleIs DEF Inv, OthersKeep, All
  <1>6. ExpiriesSpare'
    BY <1>1, IdleIs, NothingIsNothing DEF Inv, ExpiriesSpare, All
  <1>7. SeatsAreBought'
    BY <1>2 DEF Inv, SeatsAreBought, Counted
  <1>8. QED
    BY <1>3, <1>4, <1>5, <1>6, <1>7 DEF Inv

\* Students and time leave what transactions have read as it is.
LEMMA OthersKeepInv ==
    ASSUME Inv, NEW s \in Students,
           StartExam(s) \/ SubmitExam(s) \/ ExamTimesUp(s) \/ WindowEnds(s)
    PROVE  Inv'
  <1>1. work' = work /\ crossed' = crossed
    BY DEF StartExam, SubmitExam, ExamTimesUp, WindowEnds
  <1>2. /\ row' \in [Students -> Rows] /\ exam' \in [Students -> BOOLEAN]
        /\ \A x \in Students : row'[x].seat = row[x].seat
        /\ \A x \in Students : row[x].ended => row'[x].ended
        /\ \A x \in Students : row[x].ended /\ exam[x] = FALSE => exam'[x] = FALSE
    <2>1. CASE StartExam(s)
      BY <2>1 DEF StartExam, MayUse, Inv, TypeOK
    <2>2. CASE SubmitExam(s)
      BY <2>2 DEF SubmitExam, Inv, TypeOK
    <2>3. CASE ExamTimesUp(s)
      BY <2>3 DEF ExamTimesUp, Inv, TypeOK
    <2>4. CASE WindowEnds(s)
      BY <2>4 DEF WindowEnds, Inv, TypeOK, Rows
    <2>5. QED
      BY <2>1, <2>2, <2>3, <2>4
  <1>3. Holders' = Holders /\ Counted' = Counted
    BY <1>1, <1>2 DEF Holders, Counted, Exists
  <1>4. TypeOK'
    BY <1>1, <1>2 DEF Inv, TypeOK
  <1>5. WritesItsRows' /\ TakersSeat' /\ TakersFit' /\ OthersKeep' /\ SeatsAreBought'
    BY <1>1, <1>3 DEF Inv, WritesItsRows, TakersSeat, TakersFit, OthersKeep, SeatsAreBought, Counted
  <1>6. ExpiriesSpare'
    BY <1>1, <1>2 DEF Inv, ExpiriesSpare
  <1>7. QED
    BY <1>4, <1>5, <1>6 DEF Inv

\* The commit of a transaction.
LEMMA CommitRows ==
    ASSUME Inv, NEW t \in All, Commit(t)
    PROVE  /\ row' = [s \in Students |-> Updated(row[s], work[t].by[s])]
           /\ row' \in [Students -> Rows]
           /\ \A s \in Students \ work[t].on : row'[s].seat = row[s].seat
           /\ \A s \in Students \ work[t].on : Exists(s) => row'[s] = row[s]
           /\ \A s \in work[t].on : s \in Students /\ work[t].by[s] \in Changes
  <1>1. row' = [s \in Students |-> Updated(row[s], work[t].by[s])]
    BY DEF Commit
  <1>2. work[t] \in Transactions /\ \A s \in Students : row[s] \in Rows /\ work[t].by[s] \in Changes
    BY DEF Inv, TypeOK, Transactions, All
  <1>3. row' \in [Students -> Rows]
    BY <1>1, <1>2, UpdatedRow
  <1>4. \A s \in Students \ work[t].on : work[t].by[s] = Nothing
    BY DEF Inv, WritesItsRows
  <1>5. \A s \in Students \ work[t].on : row'[s].seat = row[s].seat /\ (Exists(s) => row'[s] = row[s])
    <2>1. SUFFICES ASSUME NEW s \in Students \ work[t].on
                   PROVE  row'[s].seat = row[s].seat /\ (Exists(s) => row'[s] = row[s])
      OBVIOUS
    <2>2. row'[s] = Updated(row[s], Nothing) /\ row[s] \in Rows
      BY <1>1, <1>2, <1>4
    <2>3. /\ Updated(row[s], Nothing).seat = row[s].seat
          /\ row[s].seat # "deleted" => Updated(row[s], Nothing) = row[s]
      BY <2>2, UpdatedRow, NothingIsNothing
    <2>4. QED
      BY <2>2, <2>3 DEF Exists
  <1>6. QED
    BY <1>1, <1>2, <1>3, <1>5 DEF Transactions

\* What a commit does to the holders that count.
LEMMA CommitCounts ==
    ASSUME Inv, NEW t \in All, Commit(t)
    PROVE  /\ Counted' \subseteq Students
           /\ ~work[t].takes \/ work[t].late => Counted' \subseteq Counted
           /\ Counted' \subseteq Counted \union work[t].on
           /\ \A s \in Students \ work[t].on : s \in Holders' <=> s \in Holders
  <1>1. /\ crossed' = Holders' \intersect (IF work[t].late THEN crossed \union work[t].on
                               ELSE IF work[t].takes THEN crossed \ work[t].on ELSE crossed)
    BY DEF Commit
  <1>2. Holders' = {s \in Students : row'[s].seat \notin {"none", "deleted", "released"}}
    BY DEF Holders, Exists
  <1>3. Holders = {s \in Students : row[s].seat \notin {"none", "deleted", "released"}}
    BY DEF Holders, Exists
  <1>4. \A s \in Students \ work[t].on : s \in Holders' <=> s \in Holders
    BY <1>2, <1>3, CommitRows
  <1>5. ~work[t].takes /\ ~work[t].late => Holders' \subseteq Holders
    <2>1. ASSUME ~work[t].takes, ~work[t].late, NEW s \in work[t].on, s \in Holders'
          PROVE  s \in Holders
      <3>1. s \in Holders \/ work[t].by[s].seat = {"deleted"}
        BY <2>1 DEF Inv, OthersKeep
      <3>2. CASE work[t].by[s].seat = {"deleted"}
        <4>1. /\ s \in Students /\ row[s] \in Rows /\ work[t].by[s] \in Changes
              /\ row'[s] = Updated(row[s], work[t].by[s])
          BY <2>1, CommitRows DEF Inv, TypeOK
        <4>2. row'[s].seat = "deleted"
          BY <3>2, <4>1, UpdatedRow
        <4>3. QED
          BY <1>2, <2>1, <4>2
      <3>3. QED
        BY <3>1, <3>2
    <2>2. QED
      BY <1>2, <1>4, <2>1
  <1>6. QED
    BY <1>1, <1>2, <1>4, <1>5 DEF Counted

LEMMA CommitWork ==
    ASSUME Inv, NEW t \in All, Commit(t)
    PROVE  /\ work' \in [All -> Transactions]
           /\ work'[t] = Idle
           /\ \A u \in All \ {t} :
                 /\ work'[u].on = work[u].on /\ work'[u].by = work[u].by
                 /\ work'[u].takes = work[u].takes
                 /\ ~work'[u].late => /\ ~work[u].late
                                      /\ work[t].on \intersect work[u].on = {}
                                      /\ ~(work[t].takes /\ work[u].takes)
  <1> DEFINE Late(u) == work[u].late \/ Overtakes(work[t], work[u])
  <1>1. work' = [u \in All |-> IF u = t THEN Idle ELSE [work[u] EXCEPT !.late = Late(u)]]
    BY DEF Commit, All
  <1>2. work \in [All -> Transactions]
    BY DEF Inv, TypeOK, All
  <1>3. \A u : Late(u) \in BOOLEAN
    OBVIOUS
  <1>4. ASSUME NEW u \in All, ~Late(u)
        PROVE  /\ ~work[u].late /\ work[t].on \intersect work[u].on = {}
               /\ ~(work[t].takes /\ work[u].takes)
    BY <1>4 DEF Overtakes
  <1> HIDE DEF Late
  <1>5. \A u \in All \ {t} : work'[u] = [op |-> work[u].op, takes |-> work[u].takes,
            late |-> Late(u), on |-> work[u].on, by |-> work[u].by]
    BY <1>1, <1>2 DEF Transactions
  <1>6. \A u \in All \ {t} : work'[u] \in Transactions
    <2>1. SUFFICES ASSUME NEW u \in All \ {t} PROVE work'[u] \in Transactions
      OBVIOUS
    <2>2. /\ work[u].op \in {"none", "enrol", "update"} /\ work[u].takes \in BOOLEAN
          /\ work[u].on \in SUBSET Students /\ work[u].by \in [Students -> Changes]
      BY <1>2 DEF Transactions
    <2>3. \A l \in BOOLEAN : [op |-> work[u].op, takes |-> work[u].takes, late |-> l,
              on |-> work[u].on, by |-> work[u].by] \in Transactions
      BY <2>2 DEF Transactions
    <2>4. QED
      BY <1>3, <1>5, <2>3
  <1>7. work' \in [All -> Transactions] /\ work'[t] = Idle
    BY <1>1, <1>6, IdleIs
  <1>8. QED
    BY <1>4, <1>5, <1>7

LEMMA CommitKeeps ==
    ASSUME Inv, NEW t \in All, Commit(t)
    PROVE  Inv'
  <1> DEFINE on == work[t].on
  <1>1. TypeOK'
    <2>1. crossed' \in SUBSET Students
      BY DEF Commit, Holders
    <2>2. exam' = exam
      BY DEF Commit
    <2>3. QED
      BY <2>1, <2>2, CommitRows, CommitWork DEF Inv, TypeOK, All
  <1>2. WritesItsRows' /\ TakersSeat'
    BY CommitWork, IdleIs DEF Inv, WritesItsRows, TakersSeat, All
  <1>3. TakersFit'
    <2>1. SUFFICES ASSUME NEW u \in All, work'[u].takes, ~work'[u].late
                   PROVE  Cardinality(Counted' \union work'[u].on) <= StudentLimit
      BY DEF TakersFit, All
    <2>2. u # t
      BY <2>1, CommitWork, IdleIs
    <2>3. /\ work[u].takes /\ ~work[u].late /\ work'[u].on = work[u].on /\ ~work[t].takes
      BY <2>1, <2>2, CommitWork
    <2>4. Counted' \union work'[u].on \subseteq Counted \union work[u].on
      BY <2>3, CommitCounts
    <2>5. Counted \union work[u].on \subseteq Students
      BY DEF Counted, Holders, Inv, TypeOK, Transactions, All
    <2>6. Cardinality(Counted \union work[u].on) <= StudentLimit
      BY <2>3 DEF Inv, TakersFit
    <2>7. /\ Cardinality(Counted' \union work'[u].on) \in Nat
          /\ Cardinality(Counted \union work[u].on) \in Nat
          /\ Cardinality(Counted' \union work'[u].on) <= Cardinality(Counted \union work[u].on)
      BY <2>4, <2>5, Smaller
    <2>8. QED
      BY <2>6, <2>7, SeatsAssumption
  <1>4. OthersKeep'
    <2>1. SUFFICES ASSUME NEW u \in All, ~work'[u].takes, ~work'[u].late, NEW s \in work'[u].on
                   PROVE  s \in Holders' \/ work'[u].by[s].seat = {"deleted"}
      BY DEF OthersKeep, All
    <2>2. u # t
      BY <2>1, CommitWork, IdleIs
    <2>3. /\ ~work[u].takes /\ ~work[u].late /\ s \in work[u].on /\ s \notin on
          /\ work'[u].by[s] = work[u].by[s]
      BY <2>1, <2>2, CommitWork
    <2>4. s \in Students
      BY <2>3 DEF Inv, TypeOK, Transactions, All
    <2>5. QED
      BY <2>3, <2>4, CommitCounts DEF Inv, OthersKeep
  <1>5. ExpiriesSpare'
    <2>1. SUFFICES ASSUME NEW u \in All, NEW s \in Students, "expired" \in work'[u].by[s].seat, ~work'[u].late
                   PROVE  row'[s].ended /\ exam'[s] = FALSE
      BY DEF ExpiriesSpare, All
    <2>2. u # t
      <3>1. Nothing.seat = {}
        BY NothingIsNothing
      <3>2. work'[t].by[s] = Nothing
        BY CommitWork, IdleIs
      <3>3. QED
        BY <2>1, <3>1, <3>2
    <2>3. /\ ~work[u].late /\ "expired" \in work[u].by[s].seat /\ on \intersect work[u].on = {}
          /\ work[u].takes \in BOOLEAN
      BY <2>1, <2>2, CommitWork DEF Inv, TypeOK, Transactions, All
    <2>4. s \in work[u].on
      BY <2>3, NothingIsNothing DEF Inv, WritesItsRows
    <2>5. ~work[u].takes
      BY <2>3, <2>4 DEF Inv, TakersSeat
    <2>6. s \in Holders
      BY <2>3, <2>4, <2>5 DEF Inv, OthersKeep
    <2>7. row'[s] = row[s]
      BY <2>3, <2>4, <2>6, CommitRows DEF Holders
    <2>8. exam' = exam
      BY DEF Commit
    <2>9. QED
      BY <2>3, <2>7, <2>8 DEF Inv, ExpiriesSpare
  <1>6. SeatsAreBought'
    <2>1. CASE work[t].takes /\ ~work[t].late
      <3>1. Counted' \subseteq Counted \union on /\ Counted \union on \subseteq Students
        BY CommitCounts DEF Counted, Holders, Inv, TypeOK, Transactions, All
      <3>2. Cardinality(Counted \union on) <= StudentLimit
        BY <2>1 DEF Inv, TakersFit
      <3>3. /\ Cardinality(Counted') \in Nat /\ Cardinality(Counted \union on) \in Nat
            /\ Cardinality(Counted') <= Cardinality(Counted \union on)
        BY <3>1, Smaller
      <3>4. QED
        BY <3>2, <3>3, SeatsAssumption DEF SeatsAreBought, Counted
    <2>2. CASE ~work[t].takes \/ work[t].late
      <3>1. Counted' \subseteq Counted /\ Counted \subseteq Students
        BY <2>2, CommitCounts DEF Counted, Holders
      <3>2. /\ Cardinality(Counted') \in Nat /\ Cardinality(Counted) \in Nat
            /\ Cardinality(Counted') <= Cardinality(Counted)
        BY <3>1, Smaller
      <3>3. QED
        BY <3>2, SeatsAssumption DEF SeatsAreBought, Counted, Inv
    <2>3. QED
      BY <2>1, <2>2
  <1>7. QED
    BY <1>1, <1>2, <1>3, <1>4, <1>5, <1>6 DEF Inv

LEMMA InvNext == Inv /\ [Next]_vars => Inv'
  <1> SUFFICES ASSUME Inv, [Next]_vars PROVE Inv'
    OBVIOUS
  <1>1. CASE Begin
    BY <1>1, BeginsOpen, OpenedKeeps DEF Inv
  <1>2. ASSUME NEW t \in All, Commit(t) PROVE Inv'
    BY <1>2, CommitKeeps
  <1>3. ASSUME NEW t \in All, RollBack(t) PROVE Inv'
    BY <1>3, RollBackKeeps
  <1>4. ASSUME NEW s \in Students,
               StartExam(s) \/ SubmitExam(s) \/ ExamTimesUp(s) \/ WindowEnds(s)
        PROVE  Inv'
    BY <1>4, OthersKeepInv
  <1>5. CASE UNCHANGED vars
    <2>1. UNCHANGED <<row, exam, work, crossed>>
      BY <1>5 DEF vars
    <2>2. TypeOK' /\ WritesItsRows' /\ TakersSeat' /\ ExpiriesSpare'
      BY <2>1 DEF Inv, TypeOK, WritesItsRows, TakersSeat, ExpiriesSpare
    <2>3. Holders' = Holders /\ Counted' = Counted
      BY <2>1 DEF Holders, Counted, Exists
    <2>4. TakersFit' /\ OthersKeep' /\ SeatsAreBought'
      BY <2>1, <2>3 DEF Inv, TakersFit, OthersKeep, SeatsAreBought, Counted
    <2>5. QED
      BY <2>2, <2>4 DEF Inv
  <1>6. QED
    BY <1>1, <1>2, <1>3, <1>4, <1>5 DEF Next, Begin, All

LEMMA SeatsInvariant == Spec => []Inv
  BY InvInit, InvNext, PTL DEF Spec

-----------------------------------------------------------------------------
(* The theorems.                                                           *)

\* The rows, the transactions and who was overtaken are always what the
\* handlers write, whatever overlaps.
THEOREM SeatsTypeCorrect == Spec => []TypeOK
  <1>1. Inv => TypeOK
    BY DEF Inv
  <1>2. QED
    BY <1>1, SeatsInvariant, PTL

\* For any institute and any number of administrators, students seated by
\* requests that saw all that was seated before them fit the seats it has bought.
THEOREM SeatsStayBought == Spec => []SeatsAreBought
  <1>1. Inv => SeatsAreBought
    BY DEF Inv
  <1>2. QED
    BY <1>1, SeatsInvariant, PTL

\* The sweep's change is the only one to expired.
LEMMA ExpiryIsSwept ==
    ASSUME Inv, Next, NEW s \in Students, row[s].seat = "active", row'[s].seat = "expired"
    PROVE  exam[s] = FALSE \/ s \in crossed'
  <1>1. CASE Begin
    <2>1. row' = row
      BY <1>1, BeginsOpen DEF Opened, Inv
    <2>2. QED
      BY <2>1
  <1>2. ASSUME NEW t \in All, Commit(t) PROVE exam[s] = FALSE \/ s \in crossed'
    <2>1. "expired" \in work[t].by[s].seat
      <3>1. /\ row'[s] = Updated(row[s], work[t].by[s])
            /\ row[s] \in Rows /\ work[t].by[s] \in Changes
        BY <1>2, CommitRows DEF Inv, TypeOK, Transactions, All
      <3>2. QED
        BY <3>1, UpdatedRow
    <2>2. s \in work[t].on
      BY <2>1, NothingIsNothing DEF Inv, WritesItsRows
    <2>3. CASE work[t].late
      <3>1. s \in Holders'
        BY DEF Holders, Exists
      <3>2. QED
        BY <1>2, <2>2, <2>3, <3>1 DEF Commit
    <2>4. CASE ~work[t].late
      BY <2>1, <2>4 DEF Inv, ExpiriesSpare
    <2>5. QED
      BY <2>3, <2>4
  <1>3. ASSUME NEW t \in All, RollBack(t) PROVE FALSE
    BY <1>3 DEF RollBack
  <1>4. ASSUME NEW x \in Students, StartExam(x) \/ SubmitExam(x) \/ ExamTimesUp(x) \/ WindowEnds(x)
        PROVE  FALSE
    BY <1>4 DEF StartExam, SubmitExam, ExamTimesUp, WindowEnds, Inv, TypeOK, Rows
  <1>5. QED
    BY <1>1, <1>2, <1>3, <1>4 DEF Next, Begin, All

\* No sweep ends an access in the middle of an exam, for any number of students
\* and administrators, unless the student's row was changed behind its back.
THEOREM ExamsAreSpared == Spec => SweepSparesExams
  <1>1. Inv /\ [Next]_vars =>
           [\A s \in Students : row[s].seat = "active" /\ row'[s].seat = "expired"
               => ~exam[s] \/ s \in crossed']_vars
    BY ExpiryIsSwept DEF vars
  <1>2. QED
    BY <1>1, SeatsInvariant, PTL DEF Spec, SweepSparesExams

=============================================================================
