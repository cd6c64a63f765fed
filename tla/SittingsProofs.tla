--------------------------- MODULE SittingsProofs ---------------------------
(* Proofs about Sittings, for any number of requests and rows.             *)
EXTENDS Sittings, FiniteSetTheorems, TLAPS

-----------------------------------------------------------------------------
(* The inductive invariant.  Nothing is ever promised against a row at     *)
(* onboarding, so that cancelling one takes nothing back; no start plans   *)
(* beyond the next sitting; and the next sitting, planned or waiting, is   *)
(* the free one or is paid for.                                            *)

SubmittedWhole == \A a \in AttemptIds : att[a].status = "submitted" => att[a].phase # "speaking_pending"
ReadyIsBlank   ==
    \A a \in AttemptIds : att[a].status = "ready" =>
        ~att[a].answered /\ att[a].phase # "speaking_pending"

\* A retake that a start may use is raised against a sitting that was spent.
Pledged(k) ==
    /\ retakes[k].status = "approved"
    /\ retakes[k].of \in AttemptIds /\ Spent(att[retakes[k].of])

RequestsHaveRows ==
    \A k \in RetakeIds : retakes[k].status \in {"pending", "approved", "rejected"} =>
        retakes[k].of \in AttemptIds /\ Exists(retakes[k].of)

PlansPledged == \A r \in Requests : req[r].pc = "decided" /\ req[r].retake # 0 => Pledged(req[r].retake)

RowsPledged ==
    \A a \in Rows : att[a].retake # 0 =>
        /\ Pledged(att[a].retake) /\ retakes[att[a].retake].consumed
        /\ \A b \in Rows \ {a} : att[b].retake # att[a].retake

Structure == TypeOK /\ SubmittedWhole /\ ReadyIsBlank /\ RequestsHaveRows /\ PlansPledged /\ RowsPledged

Prior   == PriorSittings(att)
Used    == Cardinality(Prior)
Waiting == {a \in AttemptIds : att[a].status = "ready" /\ att[a].retake = 0}
Bought  == {a \in Prior : att[a].entitled}

SittingsFilled ==
    /\ {att[a].sitting : a \in Prior} = 1..Used
    /\ \A a \in Waiting : att[a].sitting = Used + 1
    /\ \A a, b \in Waiting : a = b

PlansNext ==
    \A r \in Requests : req[r].pc = "decided" /\ req[r].retake = 0 => req[r].sitting \in 1..(Used + 1)

\* Somebody is about to use the sitting after those used.
NextIsPlanned ==
    \/ Waiting # {}
    \/ \E r \in Requests : req[r].pc = "decided" /\ req[r].retake = 0 /\ req[r].sitting = Used + 1

NextIsPaid      == NextIsPlanned => Used = 0 \/ Cardinality(Bought) < granted
EntitledByGrant == \A a \in Rows : att[a].entitled => granted > 0
FirstIsFree     == \A a \in Waiting : ~att[a].entitled => Used = 0
BoughtFit       == Cardinality(Bought) <= granted /\ Used <= Cardinality(Bought) + 1

Numbered == SittingsFilled /\ PlansNext
Paid     == NextIsPaid /\ EntitledByGrant /\ FirstIsFree /\ BoughtFit
Inv      == Structure /\ Numbered /\ Paid

-----------------------------------------------------------------------------
(* What the handlers make of a row: it keeps its place in the sequence of  *)
(* sittings, and once it is spent, or submitted, it stays so.              *)

HasGrant == granted > 0

Turns(r, new) ==
    /\ new \in AttemptRows
    /\ new.retake = r.retake /\ new.sitting = r.sitting
    /\ new.status = r.status \/ (Spent(new) /\ r.status \notin {"none", "deleted"})
    /\ new.entitled = r.entitled
       \/ (r.status = "ready" /\ Spent(new) /\ new.entitled = HasGrant)
    /\ r.status = "submitted" => new.status = "submitted"
    /\ new.status = "submitted" => new.phase # "speaking_pending"
    /\ new.status = "ready" => ~new.answered /\ new.phase # "speaking_pending"

\* A step that turns one row and touches nothing else.
Moved(a) ==
    /\ att' \in [AttemptIds -> AttemptRows]
    /\ \A b \in AttemptIds \ {a} : att'[b] = att[b]
    /\ Turns(att[a], att'[a])
    /\ UNCHANGED <<paper, retakes, granted, req>>

Whole(r) ==
    /\ r \in AttemptRows
    /\ r.status = "submitted" => r.phase # "speaking_pending"
    /\ r.status = "ready" => ~r.answered /\ r.phase # "speaking_pending"

LEMMA RowsAreWhole == ASSUME Structure, NEW a \in AttemptIds PROVE Whole(att[a])
  BY DEF Structure, TypeOK, SubmittedWhole, ReadyIsBlank, Whole

LEMMA WholeTurns == ASSUME NEW r, Whole(r) PROVE Turns(r, r)
  BY DEF Whole, Turns

\* Loading a row reopens it or leaves it as it is.
LEMMA LoadedTurns ==
    ASSUME Structure, NEW a \in AttemptIds
    PROVE  /\ Turns(att[a], Loaded(a))
           /\ Whole(Loaded(a))
           /\ Loaded(a).status \in {att[a].status, "in_progress"}
           /\ Loaded(a).entitled = att[a].entitled
           /\ att[a].status = "ready" => Loaded(a) = att[a]
  <1>1. CASE Deferred(a)
    <2>1. Loaded(a) = [att[a] EXCEPT !.status = "in_progress"]
      BY <1>1 DEF Loaded
    <2>2. /\ att[a].status \notin {"none", "deleted"}
          /\ att[a].phase = "speaking_pending"
      BY <1>1 DEF Deferred, Exists
    <2>3. att[a] \in AttemptRows /\ att[a].status \notin {"ready", "submitted"}
      BY <2>2, RowsAreWhole DEF Whole
    <2>4. QED
      BY <2>1, <2>2, <2>3 DEF Turns, Whole, AttemptRows, Statuses, Spent
  <1>2. CASE ~Deferred(a)
    BY <1>2, RowsAreWhole, WholeTurns DEF Loaded, Whole
  <1>3. QED
    BY <1>1, <1>2

LEMMA PromoteTurns ==
    ASSUME NEW r, Whole(r)
    PROVE  /\ Turns(r, Promote(r)) /\ Whole(Promote(r))
           /\ Promote(r).status # "ready"
           /\ Promote(r).status = IF r.status = "ready" THEN "in_progress" ELSE r.status
           /\ Promote(r).phase = r.phase
  <1>0. HasGrant \in BOOLEAN
    BY DEF HasGrant
  <1>1. CASE r.status = "ready"
    <2>1. Promote(r) = [r EXCEPT !.status = "in_progress", !.overdue = FALSE, !.entitled = HasGrant]
      BY <1>1 DEF Promote, HasGrant
    <2>2. QED
      BY <1>0, <1>1, <2>1 DEF Whole, Turns, AttemptRows, Statuses, Spent
  <1>2. CASE r.status # "ready"
    BY <1>2, WholeTurns DEF Promote, Whole
  <1>3. QED
    BY <1>1, <1>2

\* Turning twice is turning, if the first turn did not leave onboarding, or the
\* second one leaves entitled alone.
LEMMA TurnsTwice ==
    ASSUME NEW r, NEW s, NEW t, Turns(r, s), Turns(s, t),
           s.entitled = r.entitled \/ s.status # "ready",
           s.status # "ready" \/ r.status = "ready"
    PROVE  Turns(r, t)
  BY DEF Turns, Spent

\* Changes to a row that has been started and goes on.
LEMMA GoesOn ==
    ASSUME NEW r, Whole(r), r.status \in {"in_progress", "expired", "violated"},
           NEW new \in AttemptRows,
           new.retake = r.retake, new.sitting = r.sitting, new.entitled = r.entitled,
           new.status \in {"in_progress", "expired", "violated"}
    PROVE  Turns(r, new)
  BY DEF Turns, Whole, Spent

LEMMA AutoExpireTurns ==
    ASSUME NEW r, Whole(r)
    PROVE  Turns(r, AutoExpire(r)) /\ Turns(r, Viewed(r))
  BY DEF Whole, Turns, Viewed, AutoExpire, AttemptRows, Statuses, Spent

LEMMA SubmittedTurns ==
    ASSUME NEW r, Whole(r), r.status \in {"ready", "in_progress"}, r.phase # "speaking_pending"
    PROVE  Turns(r, Submitted(r))
  <1>1. /\ Turns(r, Promote(r)) /\ Promote(r).status = "in_progress"
        /\ Promote(r).phase # "speaking_pending"
    BY PromoteTurns
  <1>2. Submitted(r) = [Promote(r) EXCEPT !.status = "submitted"]
    BY DEF Submitted
  <1>3. QED
    BY <1>1, <1>2 DEF Turns, AttemptRows, Statuses, Spent

LEMMA Rewritten ==
    ASSUME Structure, NEW a \in AttemptIds, NEW new, Turns(att[a], new),
           att' = [att EXCEPT ![a] = new], UNCHANGED <<paper, retakes, granted, req>>
    PROVE  Moved(a)
  <1>1. att \in [AttemptIds -> AttemptRows]
    BY DEF Structure, TypeOK
  <1>2. new \in AttemptRows
    BY DEF Turns
  <1>3. att'[a] = new
    BY <1>1
  <1>4. QED
    BY <1>1, <1>2, <1>3 DEF Moved

\* The actions that rewrite one row.
RowAction(a) ==
    \/ OpenAttempt(a) \/ Commence(a) \/ BeginDeferredSpeaking(a) \/ Submit(a) \/ Preflight(a)
    \/ \E substantive, speaking \in BOOLEAN : SaveAnswer(a, substantive, speaking)
    \/ \E startNow \in BOOLEAN : SealMainPaper(a, startNow)
    \/ Sweep(a) \/ SweepFails(a) \/ Terminate(a) \/ TimeUp(a)

LEMMA RowActionsMove ==
    ASSUME Structure, NEW a \in AttemptIds, RowAction(a)
    PROVE  Moved(a)
  <1> DEFINE row == att[a]
             loaded == Loaded(a)
             open   == Promote(loaded)
  <1>1. Whole(row) /\ Turns(row, row)
    BY RowsAreWhole, WholeTurns
  <1>2. /\ Turns(row, loaded) /\ Whole(loaded)
        /\ loaded.status \in {row.status, "in_progress"} /\ loaded.entitled = row.entitled
    BY LoadedTurns
  <1>3. Turns(row, Promote(row)) /\ Whole(Promote(row))
    BY <1>1, PromoteTurns
  <1>4. /\ Whole(open) /\ open.status # "ready"
        /\ Turns(row, open)
    <2>1. Turns(loaded, open) /\ Whole(open) /\ open.status # "ready"
      BY <1>2, PromoteTurns
    <2>2. loaded.status # "ready" \/ row.status = "ready"
      BY <1>2
    <2>3. QED
      BY <2>1, <2>2, <1>2, TurnsTwice
  <1> HIDE DEF row, loaded, open
  <1>5. CASE OpenAttempt(a)
    <2>1. Turns(loaded, Viewed(loaded))
      BY <1>2, AutoExpireTurns
    <2>2. Turns(row, Viewed(loaded))
      BY <2>1, <1>2, TurnsTwice
    <2>3. QED
      BY <1>5, <2>2, Rewritten DEF OpenAttempt, row, loaded
  <1>6. CASE Commence(a)
    BY <1>6, <1>3, Rewritten DEF Commence, row
  <1>7. CASE BeginDeferredSpeaking(a)
    <2> DEFINE new == [loaded EXCEPT !.phase = "speaking", !.overdue = FALSE]
    <2>1. loaded.status = "in_progress" /\ att' = [att EXCEPT ![a] = new]
      BY <1>7 DEF BeginDeferredSpeaking, loaded
    <2>2. Turns(loaded, new)
      <3>1. new \in AttemptRows /\ new.status = "in_progress" /\ new.retake = loaded.retake
            /\ new.sitting = loaded.sitting /\ new.entitled = loaded.entitled
        BY <2>1, <1>2 DEF Whole, AttemptRows, Phases
      <3>2. QED
        BY <3>1, <2>1, <1>2, GoesOn
    <2>3. Turns(row, new)
      BY <2>1, <2>2, <1>2, TurnsTwice
    <2>4. QED
      BY <2>1, <2>3, <1>7, Rewritten DEF BeginDeferredSpeaking, row
  <1>8. CASE Submit(a)
    <2>1. Turns(row, Submitted(row))
      BY <1>8, <1>1, SubmittedTurns DEF Submit, row
    <2>2. QED
      BY <1>8, <2>1, Rewritten DEF Submit, row
  <1>9. CASE Preflight(a)
    <2> DEFINE new == [loaded EXCEPT !.terminated = FALSE]
    <2>1. att' = [att EXCEPT ![a] = new]
      BY <1>9 DEF Preflight, loaded
    <2>2. Turns(row, new)
      BY <1>2 DEF Turns, Whole, AttemptRows, Spent
    <2>3. QED
      BY <2>1, <2>2, <1>9, Rewritten DEF Preflight, row
  <1>10. ASSUME NEW substantive \in BOOLEAN, NEW speaking \in BOOLEAN,
                SaveAnswer(a, substantive, speaking)
         PROVE  Moved(a)
    <2>1. PICK others \in {FALSE, open.answered} :
             att' = [att EXCEPT ![a] = [open EXCEPT !.answered = substantive \/ others]]
      BY <1>10 DEF SaveAnswer, open, loaded
    <2>2. open.status = "in_progress"
      BY <1>10 DEF SaveAnswer, AcceptsWork, open, loaded
    <2> DEFINE answered == substantive \/ others
               new == [open EXCEPT !.answered = answered]
    <2>3. answered \in BOOLEAN
      BY <1>4 DEF Whole, AttemptRows
    <2> HIDE DEF answered
    <2>4. new \in AttemptRows /\ new.status = "in_progress" /\ new.retake = open.retake
          /\ new.sitting = open.sitting /\ new.entitled = open.entitled
      BY <2>2, <2>3, <1>4 DEF Whole, AttemptRows
    <2>5. Turns(open, new)
      BY <2>2, <2>4, <1>4, GoesOn
    <2>6. Turns(row, new)
      BY <2>5, <1>4 DEF Turns, Spent
    <2>7. QED
      BY <2>1, <2>6, <1>10, Rewritten DEF SaveAnswer, row, answered
  <1>11. ASSUME NEW startNow \in BOOLEAN, SealMainPaper(a, startNow)
         PROVE  Moved(a)
    <2> DEFINE new == IF startNow THEN [open EXCEPT !.phase = "speaking", !.overdue = FALSE]
                                  ELSE [open EXCEPT !.phase = "speaking_pending"]
    <2>1. att' = [att EXCEPT ![a] = new] /\ open.status = "in_progress"
      BY <1>11 DEF SealMainPaper, AcceptsWork, open, loaded
    <2>2. new \in AttemptRows /\ new.status = "in_progress" /\ new.retake = open.retake
          /\ new.sitting = open.sitting /\ new.entitled = open.entitled
      BY <2>1, <1>4 DEF Whole, AttemptRows, Phases
    <2>3. Turns(open, new)
      BY <2>1, <2>2, <1>4, GoesOn
    <2> HIDE DEF new
    <2>4. Turns(row, new)
      BY <2>3, <2>1, <1>4 DEF Turns, Spent
    <2>5. QED
      BY <2>1, <2>4, <1>11, Rewritten DEF SealMainPaper, row
  <1>12. CASE Sweep(a)
    <2>1. /\ row.status \in {"ready", "in_progress"} /\ row.phase # "speaking_pending"
          /\ \/ att' = [att EXCEPT ![a] = Submitted(row)]
             \/ att' = [att EXCEPT ![a] = AutoExpire(row)]
          /\ UNCHANGED <<paper, retakes, granted, req>>
      BY <1>12 DEF Sweep, row
    <2>2. Turns(row, Submitted(row)) /\ Turns(row, AutoExpire(row))
      BY <2>1, <1>1, SubmittedTurns, AutoExpireTurns
    <2>3. QED
      BY <2>1, <2>2, Rewritten DEF row
  <1>13. CASE SweepFails(a)
    BY <1>13, <1>1, AutoExpireTurns, Rewritten DEF SweepFails, row
  <1>14. CASE Terminate(a)
    <2> DEFINE new == [row EXCEPT !.status = "violated", !.terminated = TRUE]
    <2>1. row.status = "in_progress" /\ att' = [att EXCEPT ![a] = new]
      BY <1>14 DEF Terminate, row
    <2>2. Turns(row, new)
      BY <2>1, <1>1 DEF Turns, Whole, AttemptRows, Statuses, Spent
    <2>3. QED
      BY <2>1, <2>2, <1>14, Rewritten DEF Terminate, row
  <1>15. CASE TimeUp(a)
    <2> DEFINE new == [row EXCEPT !.overdue = TRUE]
    <2>1. att' = [att EXCEPT ![a] = new]
      BY <1>15 DEF TimeUp, row
    <2>2. Turns(row, new)
      BY <1>1 DEF Turns, Whole, AttemptRows, Spent
    <2>3. QED
      BY <2>1, <2>2, <1>15, Rewritten DEF TimeUp, row
  <1>16. QED
    BY <1>5, <1>6, <1>7, <1>8, <1>9, <1>10, <1>11, <1>12, <1>13, <1>14, <1>15 DEF RowAction

-----------------------------------------------------------------------------
(* Steps in which rows turn, and none is opened or deleted                 *)

RowsTurn ==
    /\ att' \in [AttemptIds -> AttemptRows]
    /\ \A b \in AttemptIds : Turns(att[b], att'[b])

NoneEnters == \A b \in AttemptIds : att[b].status = "ready" => att'[b].status = "ready"

LEMMA MovedTurns == ASSUME Structure, NEW a \in AttemptIds, Moved(a) PROVE RowsTurn
  BY RowsAreWhole, WholeTurns DEF Moved, RowsTurn

LEMMA StayTurns == ASSUME Structure, UNCHANGED att PROVE RowsTurn /\ NoneEnters
  BY RowsAreWhole, WholeTurns DEF RowsTurn, NoneEnters, Structure, TypeOK

LEMMA TurnedRows ==
    ASSUME Structure, RowsTurn
    PROVE  /\ SubmittedWhole' /\ ReadyIsBlank' /\ Rows' = Rows
           /\ \A b \in AttemptIds : /\ Exists(b)' <=> Exists(b)
                                    /\ Spent(att[b]) => Spent(att'[b])
                                    /\ att'[b].retake = att[b].retake
  <1>1. \A b \in AttemptIds : Exists(b)' <=> Exists(b)
    BY DEF RowsTurn, Turns, Exists, Spent
  <1>2. \A b \in AttemptIds : Spent(att[b]) => Spent(att'[b])
    BY DEF RowsTurn, Turns, Spent
  <1>3. Rows' = Rows
    BY <1>1 DEF Rows
  <1>4. QED
    BY <1>1, <1>2, <1>3 DEF RowsTurn, Turns, SubmittedWhole, ReadyIsBlank

\* An approval that is kept goes on being pledged, and used once.
LEMMA PledgesStay ==
    ASSUME Structure, RowsTurn,
           \A k \in RetakeIds : retakes[k].status = "approved" =>
               /\ retakes'[k].status = "approved" /\ retakes'[k].of = retakes[k].of
               /\ retakes[k].consumed => retakes'[k].consumed
    PROVE  /\ \A k \in RetakeIds : Pledged(k) => Pledged(k)'
           /\ RowsPledged'
  <1>1. \A k \in RetakeIds : Pledged(k) => Pledged(k)'
    BY TurnedRows DEF Pledged
  <1>2. \A a \in Rows : att[a].retake # 0 => att[a].retake \in RetakeIds
    BY DEF Structure, TypeOK, AttemptRows, Rows, RetakeIds
  <1>3. \A a \in Rows : a \in AttemptIds
    BY DEF Rows
  <1>4. \A a \in Rows' : att'[a].retake = att[a].retake /\ a \in Rows
    BY TurnedRows, <1>3
  <1>5. RowsPledged'
    <2> SUFFICES ASSUME NEW a \in Rows', att'[a].retake # 0
                 PROVE  /\ Pledged(att[a].retake)' /\ retakes'[att[a].retake].consumed
                        /\ \A b \in Rows' \ {a} : att'[b].retake # att[a].retake
      BY <1>4 DEF RowsPledged, Pledged
    <2>1. /\ a \in Rows /\ att[a].retake \in RetakeIds /\ Pledged(att[a].retake)
          /\ retakes[att[a].retake].consumed
          /\ \A b \in Rows \ {a} : att[b].retake # att[a].retake
      BY <1>2, <1>4 DEF Structure, RowsPledged
    <2>2. Pledged(att[a].retake)'
      BY <2>1, <1>4, TurnedRows DEF Pledged
    <2>3. retakes'[att[a].retake].consumed
      BY <2>1 DEF Pledged
    <2>4. QED
      BY <2>1, <2>2, <2>3, <1>4
  <1>6. QED
    BY <1>1, <1>5

LEMMA StayPledged ==
    ASSUME Structure, RowsTurn, UNCHANGED retakes
    PROVE  (\A k \in RetakeIds : Pledged(k) => Pledged(k)') /\ RowsPledged'
  BY PledgesStay

LEMMA MovedStructure ==
    ASSUME Structure, RowsTurn, UNCHANGED <<paper, retakes, req>>, granted' \in 0..MaxGrants
    PROVE  Structure'
  <1>1. TypeOK'
    BY DEF Structure, TypeOK, RowsTurn
  <1>2. RequestsHaveRows'
    BY TurnedRows DEF Structure, RequestsHaveRows
  <1>3. PlansPledged'
    <2> SUFFICES ASSUME NEW r \in Requests, req[r].pc = "decided", req[r].retake # 0
                 PROVE  Pledged(req[r].retake)'
      BY DEF PlansPledged, Pledged
    <2>1. req[r].retake \in RetakeIds /\ Pledged(req[r].retake)
      BY DEF Structure, PlansPledged, TypeOK, Plans, RetakeIds
    <2>2. QED
      BY <2>1, TurnedRows DEF Pledged
  <1>4. QED
    BY <1>1, <1>2, <1>3, TurnedRows, StayPledged DEF Structure

-----------------------------------------------------------------------------
(* What the other actions do to the rows                                   *)

LEMMA UsedIsNatural ==
    /\ IsFiniteSet(Prior) /\ Used \in Nat
    /\ IsFiniteSet(Bought) /\ Cardinality(Bought) \in Nat /\ Cardinality(Bought) <= Used
  <1>1. IsFiniteSet(AttemptIds) /\ Prior \subseteq AttemptIds /\ Bought \subseteq Prior
    BY FS_Interval, SittingsAssumption DEF AttemptIds, Prior, PriorSittings, Bought
  <1>2. IsFiniteSet(Prior)
    BY <1>1, FS_Subset
  <1>3. QED
    BY <1>1, <1>2, FS_Subset, FS_CardinalityType DEF Used

\* What start_attempt may decide: the next sitting, free or paid for, or a
\* retake that is pledged.
GoodPlan(plan) ==
    /\ plan \in Plans /\ plan.pc = "decided"
    /\ \/ /\ plan.retake = 0 /\ plan.sitting = Used + 1
          /\ Used = 0 \/ Cardinality(Bought) < granted
       \/ plan.retake \in RetakeIds /\ Pledged(plan.retake)

LEMMA Decides ==
    ASSUME Structure, NEW r \in Requests, StartDecide(r)
    PROVE  /\ RowsTurn /\ NoneEnters /\ UNCHANGED <<paper, retakes, granted>>
           /\ \/ UNCHANGED req
              \/ \E plan : GoodPlan(plan) /\ req' = [req EXCEPT ![r] = plan]
  <1> DEFINE running == {a \in AttemptIds : att[a].status = "in_progress"}
             rows    == [a \in AttemptIds |-> IF a \in running THEN AutoExpire(att[a]) ELSE att[a]]
             prior   == Cardinality(PriorSittings(rows))
             waiting == {a \in AttemptIds : rows[a].status = "ready" /\ ~rows[a].answered}
             paid    == paper.direct /\ SittingsRemaining(rows) > 0
  <1>1. att' = rows /\ UNCHANGED <<paper, retakes, granted>>
    BY DEF StartDecide
  <1>2. \A a \in AttemptIds : Turns(att[a], rows[a])
    BY RowsAreWhole, WholeTurns, AutoExpireTurns
  <1>3. RowsTurn
    BY <1>1, <1>2 DEF RowsTurn, Turns
  <1>4. \A a \in AttemptIds : /\ rows[a].status = "ready" <=> att[a].status = "ready"
                              /\ Spent(rows[a]) <=> Spent(att[a])
                              /\ rows[a].entitled = att[a].entitled
                              /\ rows[a].retake = att[a].retake
    BY RowsAreWhole DEF AutoExpire, Spent, Whole, AttemptRows, Statuses
  <1>5. NoneEnters
    BY <1>1, <1>4 DEF NoneEnters
  <1>6. PriorSittings(rows) = Prior /\ prior = Used
    BY <1>4 DEF PriorSittings, Prior, Used
  <1>7. paid => Cardinality(Bought) < granted
    <2>1. {a \in PriorSittings(rows) : rows[a].entitled} = Bought
      BY <1>4, <1>6 DEF Bought, Prior, PriorSittings
    <2>2. SittingsRemaining(rows) =
              IF Cardinality(Bought) >= granted THEN 0 ELSE granted - Cardinality(Bought)
      BY <2>1 DEF SittingsRemaining
    <2>3. granted \in Nat
      BY DEF Structure, TypeOK
    <2>4. QED
      BY <2>2, <2>3, UsedIsNatural
  <1>8. waiting = {} => \A a \in AttemptIds : att[a].status # "ready"
    <2>1. \A a \in AttemptIds : rows[a].status = "ready" => ~rows[a].answered
      BY <1>2 DEF Turns
    <2>2. QED
      BY <2>1, <1>4
  <1>9. ASSUME NEW k \in AvailableRetakes, waiting = {}
        PROVE  k \in RetakeIds /\ Pledged(k)
    <2>1. retakes[k].status = "approved" /\ k \in RetakeIds
      BY <1>9 DEF AvailableRetakes
    <2>2. retakes[k].of \in AttemptIds /\ Exists(retakes[k].of)
      BY <2>1 DEF Structure, RequestsHaveRows
    <2>3. QED
      BY <2>1, <2>2, <1>8, <1>9 DEF Pledged, Exists, Spent
  <1> DEFINE next     == [pc |-> "decided", retake |-> 0, sitting |-> prior + 1]
             again(k) == [pc |-> "decided", retake |-> k, sitting |-> prior]
  <1>10. \/ UNCHANGED req
         \/ (prior = 0 \/ paid) /\ req' = [req EXCEPT ![r] = next]
         \/ waiting = {} /\ \E k \in AvailableRetakes : req' = [req EXCEPT ![r] = again(k)]
    BY DEF StartDecide
  <1>11. prior \in Nat
    BY <1>6, UsedIsNatural
  <1>12. \/ UNCHANGED req
         \/ \E plan : GoodPlan(plan) /\ req' = [req EXCEPT ![r] = plan]
    <2>1. CASE UNCHANGED req
      BY <2>1
    <2>2. CASE (prior = 0 \/ paid) /\ req' = [req EXCEPT ![r] = next]
      <3>1. next \in Plans /\ next.pc = "decided" /\ next.retake = 0 /\ next.sitting = Used + 1
        BY <1>6, <1>11, SittingsAssumption DEF Plans
      <3>2. Used = 0 \/ Cardinality(Bought) < granted
        BY <2>2, <1>6, <1>7
      <3>3. GoodPlan(next)
        BY <3>1, <3>2 DEF GoodPlan
      <3>4. QED
        BY <2>2, <3>3
    <2>3. CASE waiting = {} /\ \E k \in AvailableRetakes : req' = [req EXCEPT ![r] = again(k)]
      <3>1. PICK k \in AvailableRetakes : req' = [req EXCEPT ![r] = again(k)]
        BY <2>3
      <3>2. k \in RetakeIds /\ Pledged(k)
        BY <1>9, <2>3
      <3>3. again(k) \in Plans /\ again(k).pc = "decided" /\ again(k).retake = k
        BY <3>2, <1>11, SittingsAssumption DEF Plans, RetakeIds
      <3>4. GoodPlan(again(k))
        BY <3>2, <3>3 DEF GoodPlan
      <3>5. QED
        BY <3>1, <3>4
    <2>4. QED
      BY <1>10, <2>1, <2>2, <2>3
  <1>13. QED
    BY <1>1, <1>3, <1>5, <1>12

LEMMA DecideStructure ==
    ASSUME Structure, NEW r \in Requests, StartDecide(r)
    PROVE  Structure'
  <1>1. RowsTurn /\ UNCHANGED <<paper, retakes, granted>>
    BY Decides
  <1>2. req' \in [Requests -> Plans]
    BY Decides DEF GoodPlan, Structure, TypeOK
  <1>3. TypeOK'
    BY <1>1, <1>2 DEF Structure, TypeOK, RowsTurn
  <1>4. RequestsHaveRows'
    BY <1>1, TurnedRows DEF Structure, RequestsHaveRows
  <1>5. PlansPledged'
    <2> SUFFICES ASSUME NEW q \in Requests, req'[q].pc = "decided", req'[q].retake # 0
                 PROVE  Pledged(req[q].retake)'
      BY DEF PlansPledged
    <2>1. req'[q].retake \in RetakeIds /\ Pledged(req'[q].retake)
      <3>1. CASE req'[q] = req[q]
        BY <3>1, <1>2 DEF Structure, PlansPledged, Plans, RetakeIds
      <3>2. CASE req'[q] # req[q]
        <4>1. GoodPlan(req'[q])
          BY <3>2, Decides DEF Structure, TypeOK
        <4>2. QED
          BY <4>1 DEF GoodPlan
      <3>3. QED
        BY <3>1, <3>2
    <2>2. QED
      BY <2>1, <1>1, TurnedRows DEF Pledged
  <1>6. QED
    BY <1>1, <1>3, <1>4, <1>5, TurnedRows, StayPledged DEF Structure

\* The INSERT of start_attempt.
NewRow(plan) ==
    [NoAttempt EXCEPT !.status = "ready", !.retake = plan.retake, !.sitting = plan.sitting,
                      !.entitled = HasGrant]

Opens(r, a) ==
    /\ req[r].pc = "decided" /\ req' = [req EXCEPT ![r] = Idle]
    /\ ~Conflicts(req[r])
    /\ req[r].retake # 0 => retakes[req[r].retake].status # "deleted"
    /\ att[a].status = "none"
    /\ att' = [att EXCEPT ![a] = NewRow(req[r])]
    /\ retakes' = [k \in RetakeIds |-> IF k = req[r].retake THEN [retakes[k] EXCEPT !.consumed = TRUE]
                                                            ELSE retakes[k]]
    /\ UNCHANGED <<paper, granted>>

LEMMA Commits ==
    ASSUME Structure, NEW r \in Requests, StartCommit(r)
    PROVE  \/ req' = [req EXCEPT ![r] = Idle] /\ UNCHANGED <<paper, att, retakes, granted>>
           \/ \E a \in AttemptIds : Opens(r, a)
  <1>1. CASE UNCHANGED <<att, retakes>>
    BY <1>1 DEF StartCommit
  <1>2. CASE ~UNCHANGED <<att, retakes>>
    <2>1. PICK a \in AttemptIds :
             /\ NextId(a)
             /\ att' = [att EXCEPT ![a] =
                   [NoAttempt EXCEPT !.status = "ready", !.retake = req[r].retake,
                                     !.sitting = req[r].sitting, !.entitled = granted > 0]]
      BY <1>2 DEF StartCommit
    <2>2. att' = [att EXCEPT ![a] = NewRow(req[r])] /\ att[a].status = "none"
      BY <2>1 DEF NewRow, HasGrant, NextId
    <2>3. QED
      BY <1>2, <2>2 DEF StartCommit, Opens, RetakeGone
  <1>3. QED
    BY <1>1, <1>2

LEMMA NewRowIs ==
    ASSUME NEW plan \in Plans
    PROVE  /\ NewRow(plan) \in AttemptRows /\ NewRow(plan).status = "ready"
           /\ NewRow(plan).retake = plan.retake /\ NewRow(plan).sitting = plan.sitting
           /\ NewRow(plan).entitled = HasGrant /\ NewRow(plan).answered = FALSE
           /\ NewRow(plan).phase = "main"
           /\ ~Spent(NewRow(plan))
  <1>1. HasGrant \in BOOLEAN
    BY DEF HasGrant
  <1>2. QED
    BY <1>1 DEF NewRow, NoAttempt, AttemptRows, Statuses, Phases, Plans, Spent

LEMMA OpensStructure ==
    ASSUME Structure, NEW r \in Requests, NEW a \in AttemptIds, Opens(r, a)
    PROVE  Structure'
  <1> DEFINE plan == req[r]
             k    == plan.retake
  <1>0. plan \in Plans /\ NewRow(plan) \in AttemptRows /\ Idle \in Plans
    <2>1. plan \in Plans
      BY DEF Structure, TypeOK
    <2>2. Idle \in Plans
      BY SittingsAssumption DEF Plans, Idle
    <2>3. QED
      BY <2>1, <2>2, NewRowIs
  <1>1. /\ att' \in [AttemptIds -> AttemptRows] /\ att'[a] = NewRow(plan)
        /\ \A b \in AttemptIds \ {a} : att'[b] = att[b]
    BY <1>0 DEF Opens, Structure, TypeOK
  <1>2. /\ retakes' \in [RetakeIds -> RetakeRows]
        /\ \A j \in RetakeIds : /\ retakes'[j].status = retakes[j].status
                                /\ retakes'[j].of = retakes[j].of
                                /\ retakes[j].consumed => retakes'[j].consumed
                                /\ j = k => retakes'[j].consumed
    BY DEF Opens, Structure, TypeOK, RetakeRows
  <1>3. /\ req' \in [Requests -> Plans]
        /\ \A q \in Requests : req'[q].pc = "decided" => req'[q] = req[q]
    BY <1>0 DEF Opens, Structure, TypeOK, Idle
  <1>4. TypeOK'
    BY <1>1, <1>2, <1>3 DEF Opens, Structure, TypeOK
  <1>5. SubmittedWhole' /\ ReadyIsBlank'
    <2>1. att'[a].status = "ready" /\ ~att'[a].answered /\ att'[a].phase = "main"
      BY <1>0, <1>1, NewRowIs
    <2>2. QED
      BY <1>1, <2>1 DEF Structure, SubmittedWhole, ReadyIsBlank
  <1>6. Rows' = Rows \union {a} /\ a \notin Rows
    BY <1>0, <1>1, NewRowIs DEF Rows, Exists, Opens
  <1>7. RequestsHaveRows'
    <2>1. \A b \in AttemptIds : Exists(b) => Exists(b)'
      BY <1>0, <1>1, NewRowIs DEF Exists, Opens
    <2>2. QED
      BY <1>2, <2>1 DEF Structure, RequestsHaveRows
  <1>8. \A b \in AttemptIds : Spent(att[b]) => b # a /\ Spent(att'[b])
    BY <1>1 DEF Spent, Opens
  <1>9. \A j \in RetakeIds : Pledged(j) => Pledged(j)'
    BY <1>2, <1>8 DEF Pledged
  <1>10. PlansPledged'
    <2> SUFFICES ASSUME NEW q \in Requests, req'[q].pc = "decided", req'[q].retake # 0
                 PROVE  Pledged(req[q].retake)'
      BY DEF PlansPledged
    <2>1. req'[q] = req[q] /\ req[q].retake \in RetakeIds /\ Pledged(req[q].retake)
      BY <1>3 DEF Structure, TypeOK, PlansPledged, Plans, RetakeIds
    <2>2. QED
      BY <2>1, <1>2, <1>8 DEF Pledged
  <1>11. k # 0 => /\ k \in RetakeIds /\ Pledged(k)
                  /\ \A b \in Rows : att[b].retake # k
    BY <1>0 DEF Opens, Conflicts, Structure, PlansPledged, Plans, RetakeIds, Rows
  <1>12. RowsPledged'
    <2> SUFFICES ASSUME NEW b \in Rows', att'[b].retake # 0
                 PROVE  /\ Pledged(att[b].retake)' /\ retakes'[att'[b].retake].consumed
                        /\ \A c \in Rows' \ {b} : att'[c].retake # att'[b].retake
      BY DEF RowsPledged
    <2>0. b \in AttemptIds /\ \A c \in Rows : c \in AttemptIds /\ att'[c] = att[c]
      BY <1>1, <1>6 DEF Rows
    <2>1. CASE b = a
      <3>1. att'[b].retake = k
        BY <2>1, <1>0, <1>1, NewRowIs
      <3>2. k \in RetakeIds /\ Pledged(k) /\ \A c \in Rows : att[c].retake # k
        BY <3>1, <1>11
      <3>3. Pledged(att[b].retake)'
        BY <3>1, <3>2, <1>2, <1>8 DEF Pledged
      <3>4. QED
        BY <2>0, <2>1, <3>1, <3>2, <3>3, <1>2, <1>6
    <2>2. CASE b # a
      <3>1. b \in Rows /\ att'[b] = att[b] /\ att[b].retake \in RetakeIds
        BY <2>0, <2>2, <1>6 DEF Structure, TypeOK, AttemptRows, RetakeIds
      <3>2. /\ Pledged(att[b].retake) /\ retakes[att[b].retake].consumed
            /\ \A c \in Rows \ {b} : att[c].retake # att[b].retake
        BY <3>1 DEF Structure, RowsPledged
      <3>3. Pledged(att[b].retake)'
        <4>1. att'[b].retake = att[b].retake
          BY <3>1
        <4>2. QED
          BY <3>1, <3>2, <4>1, <1>2, <1>8 DEF Pledged
      <3>4. att'[a].retake # att'[b].retake
        <4>1. att'[a].retake = k
          BY <1>0, <1>1, NewRowIs
        <4>2. att'[b].retake = att[b].retake /\ att'[b].retake # 0
          BY <3>1
        <4>3. QED
          BY <3>1, <4>1, <4>2, <1>11
      <3>5. QED
        BY <2>0, <3>1, <3>2, <3>3, <3>4, <1>2, <1>6
    <2>3. QED
      BY <2>1, <2>2
  <1>13. QED
    BY <1>4, <1>5, <1>7, <1>10, <1>12 DEF Structure

LEMMA RefusedStructure ==
    ASSUME Structure, NEW r \in Requests, req' = [req EXCEPT ![r] = Idle],
           UNCHANGED <<paper, att, retakes, granted>>
    PROVE  Structure'
  <1>1. Idle \in Plans /\ Idle.pc # "decided"
    BY SittingsAssumption DEF Idle, Plans
  <1>2. /\ req' \in [Requests -> Plans]
        /\ \A q \in Requests : req'[q].pc = "decided" => req'[q] = req[q]
    BY <1>1 DEF Structure, TypeOK
  <1>3. PlansPledged'
    BY <1>2 DEF Structure, PlansPledged, Pledged
  <1>4. TypeOK' /\ SubmittedWhole' /\ ReadyIsBlank' /\ RequestsHaveRows'
    BY <1>2 DEF Structure, TypeOK, SubmittedWhole, ReadyIsBlank, RequestsHaveRows, Exists
  <1>5. RowsPledged'
    BY StayTurns, StayPledged
  <1>6. QED
    BY <1>3, <1>4, <1>5 DEF Structure

LEMMA CancelStructure ==
    ASSUME Structure, NEW a \in AttemptIds, CancelOnboarding(a)
    PROVE  Structure'
  <1> DEFINE gone == [NoAttempt EXCEPT !.status = "deleted"]
  <1>0. gone \in AttemptRows /\ gone.status = "deleted"
    <2>1. NoAttempt \in AttemptRows
      BY SittingsAssumption DEF NoAttempt, AttemptRows, Statuses, Phases
    <2>2. QED
      BY <2>1 DEF AttemptRows, Statuses
  <1> HIDE DEF gone
  <1>1. /\ att' \in [AttemptIds -> AttemptRows] /\ att'[a] = gone
        /\ \A b \in AttemptIds \ {a} : att'[b] = att[b]
    BY <1>0 DEF CancelOnboarding, Structure, TypeOK, gone
  <1>2. /\ retakes' \in [RetakeIds -> RetakeRows]
        /\ \A k \in RetakeIds : IF retakes[k].of = a THEN retakes'[k].status = "deleted"
                                                     ELSE retakes'[k] = retakes[k]
    BY DEF CancelOnboarding, Structure, TypeOK, RetakeRows, RetakeStatuses
  <1>3. att[a].status = "ready" /\ UNCHANGED <<paper, granted, req>>
    BY DEF CancelOnboarding
  <1>4. TypeOK'
    BY <1>1, <1>2, <1>3 DEF Structure, TypeOK
  <1>5. SubmittedWhole' /\ ReadyIsBlank'
    BY <1>0, <1>1 DEF Structure, SubmittedWhole, ReadyIsBlank
  <1>6. \A b \in AttemptIds : /\ Exists(b)' <=> Exists(b) /\ b # a
                              /\ Spent(att[b]) => b # a /\ Spent(att'[b])
    BY <1>0, <1>1, <1>3 DEF Exists, Spent
  <1>7. RequestsHaveRows'
    BY <1>2, <1>6 DEF Structure, RequestsHaveRows
  <1>8. \A k \in RetakeIds : Pledged(k) =>
            retakes'[k] = retakes[k] /\ retakes[k].of \in AttemptIds /\ Spent(att'[retakes[k].of])
    BY <1>2, <1>6 DEF Pledged
  <1>9. PlansPledged'
    <2> SUFFICES ASSUME NEW r \in Requests, req[r].pc = "decided", req[r].retake # 0
                 PROVE  Pledged(req[r].retake)'
      BY <1>3 DEF PlansPledged, Pledged
    <2>1. req[r].retake \in RetakeIds /\ Pledged(req[r].retake) /\ req' = req
      BY <1>3 DEF Structure, PlansPledged, TypeOK, Plans, RetakeIds
    <2>2. QED
      BY <2>1, <1>8 DEF Pledged
  <1>10. RowsPledged'
    <2> SUFFICES ASSUME NEW b \in Rows', att'[b].retake # 0
                 PROVE  /\ Pledged(att[b].retake)' /\ retakes'[att'[b].retake].consumed
                        /\ \A c \in Rows' \ {b} : att'[c].retake # att'[b].retake
      BY DEF RowsPledged
    <2>1. \A c \in Rows' : c \in Rows /\ att'[c] = att[c]
      BY <1>1, <1>6 DEF Rows
    <2>2. b \in Rows /\ att'[b].retake = att[b].retake /\ att[b].retake \in RetakeIds
      BY <2>1 DEF Structure, TypeOK, AttemptRows, RetakeIds, Rows
    <2>3. /\ Pledged(att[b].retake) /\ retakes[att[b].retake].consumed
          /\ \A c \in Rows \ {b} : att[c].retake # att[b].retake
      BY <2>2 DEF Structure, RowsPledged
    <2>4. Pledged(att[b].retake)'
      BY <2>2, <2>3, <1>8 DEF Pledged
    <2>5. QED
      BY <2>1, <2>2, <2>3, <2>4, <1>8
  <1>11. QED
    BY <1>4, <1>5, <1>7, <1>9, <1>10 DEF Structure

\* A request raised or resolved touches no approval.
LEMMA RetakeStructure ==
    ASSUME Structure, RowsTurn, UNCHANGED <<paper, granted, req>>,
           NEW k \in RetakeIds, NEW new \in RetakeRows,
           retakes' = [retakes EXCEPT ![k] = new],
           retakes[k].status # "approved",
           new.of \in AttemptIds /\ Exists(new.of)
    PROVE  Structure'
  <1>1. /\ retakes' \in [RetakeIds -> RetakeRows] /\ retakes'[k] = new
        /\ \A j \in RetakeIds \ {k} : retakes'[j] = retakes[j]
    BY DEF Structure, TypeOK
  <1>2. TypeOK'
    BY <1>1 DEF Structure, TypeOK, RowsTurn
  <1>3. RequestsHaveRows'
    BY <1>1, TurnedRows DEF Structure, RequestsHaveRows
  <1>4. \A j \in RetakeIds : retakes[j].status = "approved" => retakes'[j] = retakes[j]
    BY <1>1
  <1>5. (\A j \in RetakeIds : Pledged(j) => Pledged(j)') /\ RowsPledged'
    BY <1>4, PledgesStay
  <1>6. PlansPledged'
    <2> SUFFICES ASSUME NEW r \in Requests, req[r].pc = "decided", req[r].retake # 0
                 PROVE  Pledged(req[r].retake)'
      BY DEF PlansPledged, Pledged
    <2>1. req[r].retake \in RetakeIds /\ Pledged(req[r].retake) /\ req' = req
      BY DEF Structure, PlansPledged, TypeOK, Plans, RetakeIds
    <2>2. QED
      BY <2>1, <1>4, TurnedRows DEF Pledged
  <1>7. QED
    BY <1>2, <1>3, <1>5, <1>6, TurnedRows DEF Structure

LEMMA Requested ==
    ASSUME Structure, NEW a \in AttemptIds, RequestRetake(a)
    PROVE  RowsTurn /\ NoneEnters /\ Structure'
  <1>1. att[a].status = "ready" => Loaded(a).status = "ready"
    BY LoadedTurns
  <1>2. PICK k \in RetakeIds :
            /\ retakes[k].status = "none"
            /\ retakes' = [retakes EXCEPT ![k] = [status |-> "pending", of |-> a, consumed |-> FALSE]]
    BY DEF RequestRetake
  <1>3. [status |-> "pending", of |-> a, consumed |-> FALSE] \in RetakeRows
    BY SittingsAssumption DEF RetakeRows, RetakeStatuses, AttemptIds
  <1>4. Exists(a) /\ UNCHANGED <<paper, granted, req>>
    BY DEF RequestRetake
  <1>5. /\ att' = [att EXCEPT ![a] = Loaded(a)] /\ Turns(att[a], Loaded(a))
    BY LoadedTurns DEF RequestRetake
  <1>6. RowsTurn
    BY <1>5, RowsAreWhole, WholeTurns DEF RowsTurn, Turns, Structure, TypeOK
  <1>7. NoneEnters
    BY <1>1, <1>5 DEF NoneEnters, Structure, TypeOK
  <1>8. QED
    BY <1>2, <1>3, <1>4, <1>6, <1>7, RetakeStructure

LEMMA Resolved ==
    ASSUME Structure, NEW k \in RetakeIds, NEW resolution \in {"approved", "rejected"},
           ResolveRetake(k, resolution)
    PROVE  Structure'
  <1> DEFINE new == [retakes[k] EXCEPT !.status = resolution]
  <1>1. new \in RetakeRows /\ new.of = retakes[k].of
    BY DEF Structure, TypeOK, RetakeRows, RetakeStatuses
  <1>2. retakes[k].status = "pending" /\ retakes' = [retakes EXCEPT ![k] = new]
        /\ UNCHANGED <<paper, att, granted, req>>
    BY DEF ResolveRetake
  <1>3. new.of \in AttemptIds /\ Exists(new.of)
    BY <1>1, <1>2 DEF Structure, RequestsHaveRows
  <1>4. RowsTurn
    BY <1>2, StayTurns
  <1> HIDE DEF new
  <1>5. QED
    BY <1>1, <1>2, <1>3, <1>4, RetakeStructure

-----------------------------------------------------------------------------
(* The structure of the rows                                               *)

LEMMA NextIs ==
    ASSUME [Next]_vars
    PROVE  \/ \E r \in Requests : StartDecide(r) \/ StartCommit(r)
           \/ \E a \in AttemptIds : RowAction(a) \/ CancelOnboarding(a) \/ RequestRetake(a)
           \/ \E k \in RetakeIds : \E resolution \in {"approved", "rejected"} :
                 ResolveRetake(k, resolution)
           \/ Purchase
           \/ UNCHANGED vars
  BY DEF Next, StudentStep, RowAction

LEMMA InitStructure == ASSUME Init PROVE Structure
  <1>1. NoAttempt \in AttemptRows /\ NoRetake \in RetakeRows /\ Idle \in Plans
    BY SittingsAssumption DEF NoAttempt, AttemptRows, Statuses, Phases, NoRetake, RetakeRows,
       RetakeStatuses, Idle, Plans
  <1>2. paper \in Papers /\ granted \in 0..MaxGrants
    BY SittingsAssumption DEF Init
  <1>3. TypeOK
    BY <1>1, <1>2 DEF Init, TypeOK
  <1>4. \A a \in AttemptIds : att[a].status = "none"
    BY DEF Init, NoAttempt
  <1>5. \A k \in RetakeIds : retakes[k].status = "none"
    BY DEF Init, NoRetake
  <1>6. \A r \in Requests : req[r].pc = "idle"
    BY DEF Init, Idle
  <1>7. Rows = {}
    BY <1>4 DEF Rows, Exists
  <1>8. QED
    BY <1>3, <1>4, <1>5, <1>6, <1>7 DEF Structure, SubmittedWhole, ReadyIsBlank, RequestsHaveRows,
       PlansPledged, RowsPledged

LEMMA NextStructure == ASSUME Structure, [Next]_vars PROVE Structure'
  <1>0. granted \in 0..MaxGrants
    BY DEF Structure, TypeOK
  <1>1. ASSUME NEW r \in Requests, StartDecide(r) PROVE Structure'
    BY <1>1, DecideStructure
  <1>2. ASSUME NEW r \in Requests, StartCommit(r) PROVE Structure'
    BY <1>2, Commits, RefusedStructure, OpensStructure
  <1>3. ASSUME NEW a \in AttemptIds, RowAction(a) PROVE Structure'
    <2>1. Moved(a) /\ RowsTurn
      BY <1>3, RowActionsMove, MovedTurns
    <2>2. QED
      BY <2>1, <1>0, MovedStructure DEF Moved
  <1>4. ASSUME NEW a \in AttemptIds, CancelOnboarding(a) PROVE Structure'
    BY <1>4, CancelStructure
  <1>5. ASSUME NEW a \in AttemptIds, RequestRetake(a) PROVE Structure'
    BY <1>5, Requested
  <1>6. ASSUME NEW k \in RetakeIds, NEW resolution \in {"approved", "rejected"},
               ResolveRetake(k, resolution)
        PROVE  Structure'
    BY <1>6, Resolved
  <1>7. CASE Purchase
    <2>1. UNCHANGED <<paper, att, retakes, req>> /\ granted' \in 0..MaxGrants
      BY <1>0, <1>7, SittingsAssumption DEF Purchase
    <2>2. QED
      BY <2>1, StayTurns, MovedStructure
  <1>8. CASE UNCHANGED vars
    <2>1. UNCHANGED <<paper, att, retakes, req>> /\ granted' \in 0..MaxGrants
      BY <1>0, <1>8 DEF vars
    <2>2. QED
      BY <2>1, StayTurns, MovedStructure
  <1>9. QED
    BY <1>1, <1>2, <1>3, <1>4, <1>5, <1>6, <1>7, <1>8, NextIs

LEMMA StructureHolds == Spec => []Structure
  BY InitStructure, NextStructure, PTL DEF Spec

\* The rows of attempts and retakes, and what starts have planned, are what the
\* handlers write, for any number of requests and rows.
THEOREM SittingsTypeCorrect == Spec => []TypeOK
  <1>1. Structure => TypeOK
    BY DEF Structure
  <1>2. QED
    BY <1>1, StructureHolds, PTL

\* A retake request is redeemed at most once and only when it was approved,
\* however starts race, and no approval in use is withdrawn.
THEOREM RetakesAreRedeemedOnce == Spec => []RetakeRedeemedOnce
  <1>1. Structure => RetakeRedeemedOnce
    BY DEF Structure, RowsPledged, Pledged, RetakeRedeemedOnce
  <1>2. QED
    BY <1>1, StructureHolds, PTL

LEMMA SubmittedStep ==
    ASSUME Structure, [Next]_vars, NEW a \in AttemptIds, att[a].status = "submitted"
    PROVE  att'[a].status = "submitted"
  <1>1. RowsTurn => att'[a].status = "submitted"
    BY DEF RowsTurn, Turns
  <1>2. ASSUME NEW b \in AttemptIds, att[b].status \in {"none", "ready"},
               \A c \in AttemptIds \ {b} : att'[c] = att[c]
        PROVE  att'[a].status = "submitted"
    BY <1>2
  <1>3. ASSUME NEW r \in Requests, StartCommit(r) PROVE att'[a].status = "submitted"
    <2>1. CASE UNCHANGED att
      BY <2>1
    <2>2. ASSUME NEW b \in AttemptIds, Opens(r, b) PROVE att'[a].status = "submitted"
      <3>1. att[b].status = "none" /\ \A c \in AttemptIds \ {b} : att'[c] = att[c]
        BY <2>2 DEF Opens, Structure, TypeOK
      <3>2. QED
        BY <3>1, <1>2
    <2>3. QED
      BY <2>1, <2>2, <1>3, Commits
  <1>4. ASSUME NEW b \in AttemptIds, CancelOnboarding(b) PROVE att'[a].status = "submitted"
    <2>1. att[b].status = "ready" /\ \A c \in AttemptIds \ {b} : att'[c] = att[c]
      BY <1>4 DEF CancelOnboarding, Structure, TypeOK
    <2>2. QED
      BY <2>1, <1>2
  <1>5. CASE UNCHANGED att
    BY <1>5
  <1>6. QED
    BY <1>1, <1>3, <1>4, <1>5, NextIs, Decides, RowActionsMove, MovedTurns, Requested
       DEF ResolveRetake, Purchase, vars

\* Work once submitted stays submitted, whatever reopens deferred Speaking,
\* retries a request or sweeps.
THEOREM SubmittedStaysSubmitted == Spec => SubmittedIsFinal
  <1>1. ASSUME Structure, [Next]_vars
        PROVE  [\A a \in AttemptIds :
                   att[a].status = "submitted" => att'[a].status = "submitted"]_vars
    BY <1>1, SubmittedStep
  <1>2. QED
    BY <1>1, StructureHolds, PTL DEF Spec, SubmittedIsFinal

-----------------------------------------------------------------------------
(* The sittings: who has used one, and who waits for the next              *)

NoFreshEnters ==
    \A b \in AttemptIds : att[b].status = "ready" /\ att[b].retake = 0 => att'[b].status = "ready"

SameSittings ==
    /\ Prior' = Prior /\ Used' = Used /\ Bought' = Bought /\ Waiting' = Waiting
    /\ \A b \in Prior \union Waiting : att'[b].sitting = att[b].sitting
    /\ \A b \in Waiting : att'[b].entitled = att[b].entitled

LEMMA Members ==
    \A b : /\ b \in Prior <=> b \in AttemptIds /\ att[b].retake = 0 /\ Spent(att[b])
           /\ b \in Waiting <=> b \in AttemptIds /\ att[b].retake = 0 /\ att[b].status = "ready"
           /\ b \in Bought <=> b \in Prior /\ att[b].entitled
           /\ b \in Rows <=> b \in AttemptIds /\ (Spent(att[b]) \/ att[b].status = "ready")
  BY DEF Prior, PriorSittings, Waiting, Bought, Spent, Rows, Exists

LEMMA MembersNext ==
    \A b : /\ b \in Prior' <=> b \in AttemptIds /\ att'[b].retake = 0 /\ Spent(att'[b])
           /\ b \in Waiting' <=> b \in AttemptIds /\ att'[b].retake = 0 /\ att'[b].status = "ready"
           /\ b \in Bought' <=> b \in Prior' /\ att'[b].entitled
           /\ b \in Rows' <=> b \in AttemptIds /\ (Spent(att'[b]) \/ att'[b].status = "ready")
  BY DEF Prior, PriorSittings, Waiting, Bought, Spent, Rows, Exists

LEMMA TurnedSittings ==
    ASSUME Structure, RowsTurn, NoFreshEnters
    PROVE  SameSittings
  <1>1. \A b \in AttemptIds :
            /\ att'[b].retake = att[b].retake /\ att'[b].sitting = att[b].sitting
            /\ att[b].retake = 0 => /\ Spent(att'[b]) <=> Spent(att[b])
                                    /\ att'[b].status = "ready" <=> att[b].status = "ready"
                                    /\ att'[b].entitled = att[b].entitled
    BY DEF RowsTurn, Turns, NoFreshEnters, Spent
  <1>2. Prior' = Prior
    BY <1>1 DEF Prior, PriorSittings
  <1>3. Waiting' = Waiting
    BY <1>1 DEF Waiting
  <1>4. \A b \in Prior \union Waiting : b \in AttemptIds /\ att[b].retake = 0
    BY Members
  <1>5. Bought' = Bought
    BY <1>1, <1>2, <1>4 DEF Bought
  <1>6. QED
    BY <1>1, <1>2, <1>3, <1>4, <1>5 DEF SameSittings, Used

\* The row that waits is entered, or lost: it uses the next sitting.
LEMMA NextIsUsed ==
    ASSUME Structure, SittingsFilled, NEW a \in Waiting, Moved(a), att'[a].status # "ready"
    PROVE  /\ Prior' = Prior \union {a} /\ a \notin Prior /\ Used' = Used + 1
           /\ Waiting' = {} /\ Waiting = {a}
           /\ Bought' = Bought \union (IF att'[a].entitled THEN {a} ELSE {})
           /\ \A b \in Prior : b # a /\ att'[b] = att[b]
           /\ att'[a].sitting = Used + 1
           /\ att'[a].entitled = att[a].entitled \/ att'[a].entitled = HasGrant
  <1>1. a \in AttemptIds /\ att[a].retake = 0 /\ att[a].status = "ready" /\ ~Spent(att[a])
    BY Members DEF Spent
  <1>2. /\ Spent(att'[a]) /\ att'[a].retake = 0 /\ att'[a].sitting = att[a].sitting
        /\ att'[a].entitled = att[a].entitled \/ att'[a].entitled = HasGrant
    BY <1>1 DEF Moved, Turns
  <1>3. \A b \in AttemptIds \ {a} : att'[b] = att[b]
    BY DEF Moved
  <1>4. Waiting = {a} /\ att[a].sitting = Used + 1
    BY DEF SittingsFilled
  <1>5. a \notin Prior /\ \A b \in Prior : b # a /\ b \in AttemptIds /\ att'[b] = att[b]
    BY <1>1, <1>3, Members
  <1>6. Prior' = Prior \union {a}
    BY <1>1, <1>2, <1>3, <1>5, Members, MembersNext
  <1>7. Waiting' = {}
    BY <1>2, <1>3, <1>4, Members, MembersNext DEF Spent
  <1>8. Used' = Used + 1
    BY <1>5, <1>6, UsedIsNatural, FS_AddElement DEF Used
  <1>9. Bought' = Bought \union (IF att'[a].entitled THEN {a} ELSE {})
    BY <1>5, <1>6, Members, MembersNext
  <1>10. QED
    BY <1>2, <1>4, <1>5, <1>6, <1>7, <1>8, <1>9

\* The numbers while the sittings stay as they are.
LEMMA SameFilled ==
    ASSUME SittingsFilled, SameSittings
    PROVE  SittingsFilled'
  <1>1. {att'[a].sitting : a \in Prior'} = {att[a].sitting : a \in Prior}
    BY DEF SameSittings
  <1>2. QED
    BY <1>1 DEF SittingsFilled, SameSittings

LEMMA UsedFilled ==
    ASSUME Structure, SittingsFilled, NEW a \in Waiting, Moved(a), att'[a].status # "ready"
    PROVE  SittingsFilled'
  <1>1. /\ Prior' = Prior \union {a} /\ Used' = Used + 1 /\ Waiting' = {}
        /\ \A b \in Prior : att'[b] = att[b]
        /\ att'[a].sitting = Used + 1
    BY NextIsUsed
  <1>2. {att'[b].sitting : b \in Prior'} = {att[b].sitting : b \in Prior} \union {Used + 1}
    BY <1>1
  <1>3. (1..Used) \union {Used + 1} = 1..Used'
    BY <1>1, UsedIsNatural
  <1>4. QED
    BY <1>1, <1>2, <1>3 DEF SittingsFilled

\* A retake is opened, or a row at onboarding deleted: no sitting is used.
LEMMA OpensRetake ==
    ASSUME Structure, NEW r \in Requests, NEW a \in AttemptIds, Opens(r, a), req[r].retake # 0
    PROVE  SameSittings
  <1>1. /\ att'[a].retake # 0 /\ ~Spent(att[a]) /\ att[a].status # "ready"
        /\ \A b \in AttemptIds \ {a} : att'[b] = att[b]
    <2>1. req[r] \in Plans
      BY DEF Structure, TypeOK
    <2>2. att'[a] = NewRow(req[r]) /\ att[a].status = "none"
          /\ \A b \in AttemptIds \ {a} : att'[b] = att[b]
      BY DEF Opens, Structure, TypeOK
    <2>3. QED
      BY <2>1, <2>2, NewRowIs DEF Spent
  <1>2. Prior' = Prior /\ Waiting' = Waiting
    <2>1. \A b : b \in Prior' <=> b \in Prior
      BY <1>1, Members, MembersNext
    <2>2. \A b : b \in Waiting' <=> b \in Waiting
      BY <1>1, Members, MembersNext
    <2>3. QED
      BY <2>1, <2>2
  <1>3. \A b \in Prior \union Waiting : b # a /\ b \in AttemptIds /\ att'[b] = att[b]
    BY <1>1, Members
  <1>4. Bought' = Bought
    BY <1>2, <1>3, Members, MembersNext
  <1>5. QED
    BY <1>2, <1>3, <1>4 DEF SameSittings, Used

LEMMA OpensNext ==
    ASSUME Structure, Numbered, SittingIndexUnique,
           NEW r \in Requests, NEW a \in AttemptIds, Opens(r, a), req[r].retake = 0
    PROVE  /\ req[r].pc = "decided" /\ req[r].sitting = Used + 1 /\ Waiting = {}
           /\ Prior' = Prior /\ Used' = Used /\ Bought' = Bought /\ Waiting' = {a}
           /\ \A b \in Prior : att'[b] = att[b]
           /\ att'[a].sitting = Used + 1 /\ att'[a].entitled = HasGrant
  <1>1. req[r] \in Plans
    BY DEF Structure, TypeOK
  <1>2. /\ att'[a] = NewRow(req[r]) /\ att[a].status = "none"
        /\ \A b \in AttemptIds \ {a} : att'[b] = att[b]
    BY <1>1, NewRowIs DEF Opens, Structure, TypeOK
  <1>3. /\ att'[a].retake = 0 /\ att'[a].status = "ready" /\ ~Spent(att'[a])
        /\ att'[a].sitting = req[r].sitting /\ att'[a].entitled = HasGrant
    BY <1>1, <1>2, NewRowIs
  <1>4. req[r].pc = "decided" /\ req[r].sitting \in 1..(Used + 1)
    BY DEF Opens, Numbered, PlansNext
  <1>5. \A b \in Prior \union Waiting : att[b].sitting # req[r].sitting
    <2>1. \A b \in Prior \union Waiting : b \in AttemptIds /\ Exists(b) /\ att[b].retake = 0
      BY Members DEF Exists, Spent
    <2>2. QED
      BY <2>1 DEF Opens, Conflicts
  <1>6. req[r].sitting \notin 1..Used
    <2>1. \A s \in 1..Used : \E b \in Prior : att[b].sitting = s
      BY DEF Numbered, SittingsFilled
    <2>2. QED
      BY <2>1, <1>5
  <1>7. req[r].sitting = Used + 1
    BY <1>4, <1>6, UsedIsNatural
  <1>8. Waiting = {}
    BY <1>5, <1>7 DEF Numbered, SittingsFilled
  <1>9. \A b \in Prior : b # a /\ att'[b] = att[b]
    BY <1>2, Members DEF Spent
  <1>10. Prior' = Prior /\ Waiting' = {a}
    <2>0. ~Spent(att[a])
      BY <1>2 DEF Spent
    <2>1. \A b : b \in Prior' <=> b \in Prior
      BY <2>0, <1>2, <1>3, Members, MembersNext
    <2>2. \A b : b \in Waiting' <=> b = a
      BY <1>2, <1>3, <1>8, Members, MembersNext
    <2>3. QED
      BY <2>1, <2>2
  <1>11. Bought' = Bought
    BY <1>9, <1>10, Members, MembersNext
  <1>12. QED
    BY <1>3, <1>4, <1>7, <1>8, <1>9, <1>10, <1>11 DEF Used

LEMMA CancelSittings ==
    ASSUME Structure, NEW a \in AttemptIds, CancelOnboarding(a)
    PROVE  /\ Prior' = Prior /\ Used' = Used /\ Bought' = Bought /\ Waiting' \subseteq Waiting
           /\ \A b \in Prior \union Waiting' : att'[b] = att[b]
           /\ \A b \in Rows' : b \in Rows /\ att'[b] = att[b]
  <1>1. /\ att[a].status = "ready" /\ att'[a].status = "deleted"
        /\ \A b \in AttemptIds \ {a} : att'[b] = att[b]
    BY DEF CancelOnboarding, Structure, TypeOK, NoAttempt
  <1>2. Prior' = Prior /\ Waiting' \subseteq Waiting
    <2>0. ~Spent(att[a]) /\ ~Spent(att'[a])
      BY <1>1 DEF Spent
    <2>1. \A b : b \in Prior' <=> b \in Prior
      BY <2>0, <1>1, Members, MembersNext
    <2>2. \A b \in Waiting' : b \in Waiting
      BY <1>1, Members, MembersNext
    <2>3. QED
      BY <2>1, <2>2
  <1>3. \A b \in Prior \union Waiting' : b # a /\ b \in AttemptIds /\ att'[b] = att[b]
    BY <1>1, Members, MembersNext DEF Spent
  <1>4. Bought' = Bought
    BY <1>2, <1>3, Members, MembersNext
  <1>5. \A b \in Rows' : b \in Rows /\ att'[b] = att[b]
    BY <1>1, Members, MembersNext DEF Spent
  <1>6. QED
    BY <1>2, <1>3, <1>4, <1>5 DEF Used

-----------------------------------------------------------------------------
(* The numbers of the sittings                                             *)

\* Plans that are kept, or made for the sitting after those used.
LEMMA PlansKept ==
    ASSUME PlansNext, Used' \in {Used, Used + 1},
           \A q \in Requests : req'[q].pc = "decided" /\ req'[q].retake = 0 =>
               req'[q] = req[q] \/ req'[q].sitting = Used + 1
    PROVE  PlansNext'
  BY UsedIsNatural DEF PlansNext

\* What a step may do to the plans of other requests: nothing.
LEMMA PlansOf ==
    ASSUME Structure, NEW r \in Requests, NEW plan,
           req' = [req EXCEPT ![r] = plan]
    PROVE  \A q \in Requests : req'[q] = IF q = r THEN plan ELSE req[q]
  BY DEF Structure, TypeOK

LEMMA InitNumbered == ASSUME Init PROVE Numbered /\ Paid
  <1>1. \A a \in AttemptIds : att[a].status = "none"
    BY DEF Init, NoAttempt
  <1>2. Prior = {} /\ Waiting = {} /\ Bought = {} /\ Rows = {}
    BY <1>1, Members DEF Spent
  <1>3. Used = 0 /\ Cardinality(Bought) = 0
    BY <1>2, FS_EmptySet DEF Used
  <1>4. \A r \in Requests : req[r].pc = "idle"
    BY DEF Init, Idle
  <1>5. granted \in Nat
    BY DEF Init
  <1>6. SittingsFilled
    BY <1>2, <1>3 DEF SittingsFilled
  <1>7. QED
    BY <1>2, <1>3, <1>4, <1>5, <1>6 DEF Numbered, PlansNext, Paid, NextIsPaid, EntitledByGrant,
       FirstIsFree, BoughtFit

LEMMA NextNumbered ==
    ASSUME Structure, Numbered, SittingIndexUnique, [Next]_vars
    PROVE  Numbered'
  <1>0. SittingsFilled /\ PlansNext /\ Used \in Nat
    BY UsedIsNatural DEF Numbered
  <1>1. ASSUME RowsTurn, NoFreshEnters, UNCHANGED req PROVE Numbered'
    <2>1. SameSittings
      BY <1>1, TurnedSittings
    <2>2. QED
      BY <1>0, <1>1, <2>1, SameFilled, PlansKept DEF SameSittings, Numbered
  <1>2. ASSUME NEW r \in Requests, StartDecide(r) PROVE Numbered'
    <2>1. RowsTurn /\ NoFreshEnters
      BY <1>2, Decides DEF NoFreshEnters, NoneEnters
    <2>2. SameSittings
      BY <2>1, TurnedSittings
    <2>3. \A q \in Requests : req'[q].pc = "decided" /\ req'[q].retake = 0 =>
              req'[q] = req[q] \/ req'[q].sitting = Used + 1
      <3>1. CASE UNCHANGED req
        BY <3>1
      <3>2. ASSUME NEW plan, GoodPlan(plan), req' = [req EXCEPT ![r] = plan]
            PROVE  \A q \in Requests : req'[q].pc = "decided" /\ req'[q].retake = 0 =>
                      req'[q] = req[q] \/ req'[q].sitting = Used + 1
        BY <3>2, PlansOf DEF GoodPlan, RetakeIds
      <3>3. QED
        BY <1>2, <3>1, <3>2, Decides
    <2>4. QED
      BY <1>0, <2>2, <2>3, SameFilled, PlansKept DEF SameSittings, Numbered
  <1>3. ASSUME NEW r \in Requests, StartCommit(r) PROVE Numbered'
    <2>1. \A q \in Requests : req'[q].pc = "decided" => req'[q] = req[q]
      <3>1. req' = [req EXCEPT ![r] = Idle]
        BY <1>3 DEF StartCommit
      <3>2. QED
        BY <3>1, PlansOf DEF Idle
    <2>2. CASE UNCHANGED <<att, granted>>
      <3>1. SameSittings
        BY <2>2, StayTurns, TurnedSittings DEF NoFreshEnters
      <3>2. QED
        BY <1>0, <2>1, <3>1, SameFilled, PlansKept DEF SameSittings, Numbered
    <2>3. ASSUME NEW a \in AttemptIds, Opens(r, a), req[r].retake # 0 PROVE Numbered'
      <3>1. SameSittings
        BY <2>3, OpensRetake
      <3>2. QED
        BY <1>0, <2>1, <3>1, SameFilled, PlansKept DEF SameSittings, Numbered
    <2>4. ASSUME NEW a \in AttemptIds, Opens(r, a), req[r].retake = 0 PROVE Numbered'
      <3>1. /\ Prior' = Prior /\ Used' = Used /\ Waiting' = {a} /\ att'[a].sitting = Used + 1
            /\ \A b \in Prior : att'[b] = att[b]
        BY <2>4, OpensNext
      <3>2. {att'[b].sitting : b \in Prior'} = {att[b].sitting : b \in Prior}
        BY <3>1
      <3>3. SittingsFilled'
        BY <1>0, <3>1, <3>2 DEF SittingsFilled
      <3>4. QED
        BY <1>0, <2>1, <3>1, <3>3, PlansKept DEF Numbered
    <2>5. QED
      BY <1>3, <2>2, <2>3, <2>4, Commits
  <1>4. ASSUME NEW a \in AttemptIds, RowAction(a) PROVE Numbered'
    <2>1. Moved(a) /\ RowsTurn /\ UNCHANGED req
      BY <1>4, RowActionsMove, MovedTurns DEF Moved
    <2>2. CASE NoFreshEnters
      BY <1>1, <2>1, <2>2
    <2>3. CASE ~NoFreshEnters
      <3>1. a \in Waiting /\ att'[a].status # "ready"
        BY <2>1, <2>3, Members DEF NoFreshEnters, Moved
      <3>2. SittingsFilled' /\ Used' = Used + 1
        BY <1>0, <2>1, <3>1, UsedFilled, NextIsUsed
      <3>3. QED
        BY <1>0, <2>1, <3>2, PlansKept DEF Numbered
    <2>4. QED
      BY <2>2, <2>3
  <1>5. ASSUME NEW a \in AttemptIds, CancelOnboarding(a) PROVE Numbered'
    <2>1. /\ Prior' = Prior /\ Used' = Used /\ Waiting' \subseteq Waiting
          /\ \A b \in Prior \union Waiting' : att'[b] = att[b]
      BY <1>5, CancelSittings
    <2>2. {att'[b].sitting : b \in Prior'} = {att[b].sitting : b \in Prior}
      BY <2>1
    <2>3. SittingsFilled'
      BY <1>0, <2>1, <2>2 DEF SittingsFilled
    <2>4. UNCHANGED req
      BY <1>5 DEF CancelOnboarding
    <2>5. QED
      BY <1>0, <2>1, <2>3, <2>4, PlansKept DEF Numbered
  <1>6. ASSUME NEW a \in AttemptIds, RequestRetake(a) PROVE Numbered'
    <2>1. RowsTurn /\ NoFreshEnters /\ UNCHANGED req
      BY <1>6, Requested DEF NoFreshEnters, NoneEnters, RequestRetake
    <2>2. QED
      BY <2>1, <1>1
  <1>7. ASSUME UNCHANGED <<att, req>> PROVE Numbered'
    <2>1. RowsTurn /\ NoFreshEnters
      BY <1>7, StayTurns DEF NoFreshEnters
    <2>2. QED
      BY <1>7, <2>1, <1>1
  <1>8. QED
    BY <1>2, <1>3, <1>4, <1>5, <1>6, <1>7, NextIs DEF ResolveRetake, Purchase, vars

-----------------------------------------------------------------------------
(* The sittings are paid for                                               *)

LEMMA PaidSame ==
    ASSUME Structure, Paid, Used' = Used, Bought' = Bought, granted' \in Nat, granted' >= granted,
           NextIsPlanned' => Used = 0 \/ Cardinality(Bought) < granted,
           EntitledByGrant', FirstIsFree'
    PROVE  Paid'
  <1>1. granted \in Nat /\ Cardinality(Bought)' = Cardinality(Bought)
    BY DEF Structure, TypeOK
  <1>2. NextIsPaid'
    BY <1>1, UsedIsNatural DEF NextIsPaid
  <1>3. BoughtFit'
    BY <1>1, UsedIsNatural DEF Paid, BoughtFit
  <1>4. QED
    BY <1>2, <1>3 DEF Paid

LEMMA TurnedEntitled ==
    ASSUME Structure, EntitledByGrant, RowsTurn, granted' \in Nat, granted' >= granted
    PROVE  EntitledByGrant'
  <1>1. \A b \in Rows' : b \in Rows /\ b \in AttemptIds
    BY TurnedRows DEF Rows
  <1>2. \A b \in AttemptIds : att'[b].entitled = att[b].entitled \/ att'[b].entitled = HasGrant
    BY DEF RowsTurn, Turns
  <1>3. \A b \in Rows' : att'[b].entitled => granted > 0
    BY <1>1, <1>2 DEF EntitledByGrant, HasGrant
  <1>4. granted \in Nat
    BY DEF Structure, TypeOK
  <1>5. QED
    BY <1>3, <1>4 DEF EntitledByGrant

\* Rows turn and nobody takes the next sitting.
LEMMA TurnedPaid ==
    ASSUME Structure, Paid, RowsTurn, NoFreshEnters, granted' \in Nat, granted' >= granted,
           NextIsPlanned' => NextIsPlanned \/ Used = 0 \/ Cardinality(Bought) < granted
    PROVE  Paid'
  <1>1. SameSittings
    BY TurnedSittings
  <1>2. EntitledByGrant'
    BY TurnedEntitled DEF Paid
  <1>3. FirstIsFree'
    BY <1>1 DEF Paid, FirstIsFree, SameSittings
  <1>4. NextIsPlanned' => Used = 0 \/ Cardinality(Bought) < granted
    BY DEF Paid, NextIsPaid
  <1>5. QED
    BY <1>1, <1>2, <1>3, <1>4, PaidSame DEF SameSittings

LEMMA UsedPaid ==
    ASSUME Structure, Numbered, Paid, NEW a \in Waiting, Moved(a), att'[a].status # "ready"
    PROVE  Paid'
  <1>0. /\ SittingsFilled /\ a \in AttemptIds /\ UNCHANGED <<granted, req>> /\ granted \in Nat
        /\ att'[a] \in AttemptRows
    BY Members DEF Numbered, Moved, Structure, TypeOK, Turns
  <1>1. /\ Used' = Used + 1 /\ Waiting' = {} /\ a \notin Prior
        /\ Bought' = Bought \union (IF att'[a].entitled THEN {a} ELSE {})
        /\ att'[a].entitled = att[a].entitled \/ att'[a].entitled = HasGrant
    BY <1>0, NextIsUsed
  <1>2. ~NextIsPlanned'
    BY <1>0, <1>1, UsedIsNatural DEF NextIsPlanned, Numbered, PlansNext
  <1>3. EntitledByGrant'
    BY <1>0, MovedTurns, TurnedEntitled DEF Paid
  <1>4. Used = 0 \/ Cardinality(Bought) < granted
    BY DEF Paid, NextIsPaid, NextIsPlanned
  <1>5. att'[a].entitled => granted > 0
    <2>1. a \in Rows
      BY Members
    <2>2. QED
      BY <2>1, <1>1 DEF Paid, EntitledByGrant, HasGrant
  <1>6. ~att'[a].entitled => Used = 0
    <2>1. CASE att'[a].entitled = att[a].entitled
      BY <2>1 DEF Paid, FirstIsFree
    <2>2. CASE att'[a].entitled = HasGrant
      <3>1. ~HasGrant => Used = 0
        BY <1>0, <1>4, UsedIsNatural DEF HasGrant
      <3>2. QED
        BY <2>2, <3>1
    <2>3. QED
      BY <1>1, <2>1, <2>2
  <1>7. Used = 0 => Cardinality(Bought) = 0
    BY UsedIsNatural
  <1>8. a \notin Bought
    BY <1>1, Members
  <1>9. CASE att'[a].entitled
    <2>1. Bought' = Bought \union {a}
      BY <1>1, <1>9
    <2>2. Cardinality(Bought)' = Cardinality(Bought) + 1
      BY <2>1, <1>8, UsedIsNatural, FS_AddElement
    <2>3. BoughtFit'
      BY <2>2, <1>0, <1>1, <1>4, <1>5, <1>7, <1>9, UsedIsNatural DEF Paid, BoughtFit
    <2>4. QED
      BY <2>3, <1>1, <1>2, <1>3 DEF Paid, NextIsPaid, FirstIsFree
  <1>10. CASE ~att'[a].entitled
    <2>1. Bought' = Bought /\ Used = 0
      BY <1>1, <1>6, <1>10
    <2>2. BoughtFit'
      BY <2>1, <1>0, <1>1, <1>7, UsedIsNatural DEF BoughtFit
    <2>3. QED
      BY <2>2, <1>1, <1>2, <1>3 DEF Paid, NextIsPaid, FirstIsFree
  <1>11. QED
    BY <1>9, <1>10

LEMMA NextPaid ==
    ASSUME Structure, Numbered, Paid, SittingIndexUnique, [Next]_vars
    PROVE  Paid'
  <1>0. granted \in Nat /\ Used \in Nat /\ Cardinality(Bought) \in Nat
    BY UsedIsNatural DEF Structure, TypeOK
  <1>1. ASSUME RowsTurn, NoFreshEnters, UNCHANGED req, granted' \in Nat, granted' >= granted
        PROVE  Paid'
    <2>1. NextIsPlanned' => NextIsPlanned
      BY <1>1, TurnedSittings DEF NextIsPlanned, SameSittings
    <2>2. QED
      BY <1>1, <2>1, TurnedPaid
  <1>2. ASSUME NEW r \in Requests, StartDecide(r) PROVE Paid'
    <2>1. RowsTurn /\ NoFreshEnters /\ granted' = granted
      BY <1>2, Decides DEF NoFreshEnters, NoneEnters
    <2>2. SameSittings
      BY <2>1, TurnedSittings
    <2>3. NextIsPlanned' => NextIsPlanned \/ Used = 0 \/ Cardinality(Bought) < granted
      <3>1. CASE UNCHANGED req
        BY <3>1, <2>2 DEF NextIsPlanned, SameSittings
      <3>2. ASSUME NEW plan, GoodPlan(plan), req' = [req EXCEPT ![r] = plan]
            PROVE  NextIsPlanned' => NextIsPlanned \/ Used = 0 \/ Cardinality(Bought) < granted
        BY <2>2, <3>2, PlansOf DEF NextIsPlanned, SameSittings, GoodPlan, RetakeIds
      <3>3. QED
        BY <1>2, <3>1, <3>2, Decides
    <2>4. QED
      BY <1>0, <2>1, <2>3, TurnedPaid
  <1>3. ASSUME NEW r \in Requests, StartCommit(r) PROVE Paid'
    <2>1. \A q \in Requests : req'[q].pc = "decided" => req'[q] = req[q]
      <3>1. req' = [req EXCEPT ![r] = Idle]
        BY <1>3 DEF StartCommit
      <3>2. QED
        BY <3>1, PlansOf DEF Idle
    <2>2. CASE UNCHANGED <<att, granted>>
      <3>1. RowsTurn /\ NoFreshEnters /\ SameSittings
        BY <2>2, StayTurns, TurnedSittings DEF NoFreshEnters
      <3>2. NextIsPlanned' => NextIsPlanned
        BY <2>1, <3>1 DEF NextIsPlanned, SameSittings
      <3>3. QED
        BY <1>0, <2>2, <3>1, <3>2, TurnedPaid
    <2>3. ASSUME NEW a \in AttemptIds, Opens(r, a) PROVE Paid'
      <3>1. UNCHANGED granted /\ att'[a].entitled = HasGrant
            /\ \A b \in AttemptIds \ {a} : att'[b] = att[b]
        <4>1. req[r] \in Plans
          BY DEF Structure, TypeOK
        <4>2. QED
          BY <2>3, <4>1, NewRowIs DEF Opens, Structure, TypeOK
      <3>2. EntitledByGrant'
        <4>1. \A b \in Rows' : b \in AttemptIds /\ (b = a \/ b \in Rows)
          BY <3>1, Members, MembersNext
        <4>2. QED
          BY <3>1, <4>1 DEF Paid, EntitledByGrant, HasGrant
      <3>3. CASE req[r].retake # 0
        <4>1. SameSittings
          BY <2>3, <3>3, OpensRetake
        <4>2. NextIsPlanned' => NextIsPlanned
          BY <2>1, <4>1 DEF NextIsPlanned, SameSittings
        <4>3. FirstIsFree'
          BY <4>1 DEF Paid, FirstIsFree, SameSittings
        <4>4. QED
          BY <1>0, <3>1, <3>2, <4>1, <4>2, <4>3, PaidSame DEF Paid, NextIsPaid, SameSittings
      <3>4. CASE req[r].retake = 0
        <4>1. /\ req[r].pc = "decided" /\ req[r].sitting = Used + 1
              /\ Used' = Used /\ Bought' = Bought /\ Waiting' = {a}
          BY <2>3, <3>4, OpensNext
        <4>2. Used = 0 \/ Cardinality(Bought) < granted
          BY <3>4, <4>1 DEF Paid, NextIsPaid, NextIsPlanned
        <4>3. ~HasGrant => Used = 0
          BY <1>0, <4>2 DEF HasGrant
        <4>4. FirstIsFree'
          BY <3>1, <4>1, <4>3 DEF FirstIsFree
        <4>5. QED
          BY <1>0, <3>1, <3>2, <4>1, <4>2, <4>4, PaidSame
      <3>5. QED
        BY <3>3, <3>4
    <2>4. QED
      BY <1>3, <2>2, <2>3, Commits
  <1>4. ASSUME NEW a \in AttemptIds, RowAction(a) PROVE Paid'
    <2>1. Moved(a) /\ RowsTurn /\ UNCHANGED <<req, granted>>
      BY <1>4, RowActionsMove, MovedTurns DEF Moved
    <2>2. CASE NoFreshEnters
      BY <1>0, <1>1, <2>1, <2>2
    <2>3. CASE ~NoFreshEnters
      <3>1. a \in Waiting /\ att'[a].status # "ready"
        BY <2>1, <2>3, Members DEF NoFreshEnters, Moved
      <3>2. QED
        BY <2>1, <3>1, UsedPaid
    <2>4. QED
      BY <2>2, <2>3
  <1>5. ASSUME NEW a \in AttemptIds, CancelOnboarding(a) PROVE Paid'
    <2>1. /\ Used' = Used /\ Bought' = Bought /\ Waiting' \subseteq Waiting
          /\ \A b \in Waiting' : att'[b] = att[b]
          /\ \A b \in Rows' : b \in Rows /\ att'[b] = att[b]
      BY <1>5, CancelSittings
    <2>2. UNCHANGED <<granted, req>>
      BY <1>5 DEF CancelOnboarding
    <2>3. EntitledByGrant' /\ FirstIsFree'
      BY <2>1, <2>2 DEF Paid, EntitledByGrant, FirstIsFree
    <2>4. NextIsPlanned' => NextIsPlanned
      BY <2>1, <2>2 DEF NextIsPlanned
    <2>5. QED
      BY <1>0, <2>1, <2>2, <2>3, <2>4, PaidSame DEF Paid, NextIsPaid
  <1>6. ASSUME NEW a \in AttemptIds, RequestRetake(a) PROVE Paid'
    <2>1. RowsTurn /\ NoFreshEnters /\ UNCHANGED <<req, granted>>
      BY <1>6, Requested DEF NoFreshEnters, NoneEnters, RequestRetake
    <2>2. QED
      BY <1>0, <2>1, <1>1
  <1>7. ASSUME UNCHANGED <<att, req>>, granted' \in Nat, granted' >= granted PROVE Paid'
    <2>1. RowsTurn /\ NoFreshEnters
      BY <1>7, StayTurns DEF NoFreshEnters
    <2>2. QED
      BY <1>7, <2>1, <1>1
  <1>8. CASE Purchase
    BY <1>0, <1>7, <1>8 DEF Purchase
  <1>9. ASSUME UNCHANGED <<att, req, granted>> PROVE Paid'
    BY <1>0, <1>7, <1>9
  <1>10. QED
    BY <1>2, <1>3, <1>4, <1>5, <1>6, <1>8, <1>9, NextIs DEF ResolveRetake, vars

\* What follows for all that were sat, retakes included.
LEMMA PaidSuffices == ASSUME Inv PROVE SittingsPaidFor
  <1> DEFINE redeemed == {k \in RetakeIds : retakes[k].status = "approved" /\ retakes[k].consumed}
             again    == {a \in Sat : att[a].retake # 0}
             f        == [a \in again |-> att[a].retake]
  <1>0. granted \in Nat
    BY DEF Inv, Structure, TypeOK
  <1>1. IsFiniteSet(redeemed)
    <2>1. IsFiniteSet(RetakeIds) /\ redeemed \subseteq RetakeIds
      BY FS_Interval, SittingsAssumption DEF RetakeIds
    <2>2. QED
      BY <2>1, FS_Subset
  <1>2. IsFiniteSet(again)
    <2>1. IsFiniteSet(AttemptIds) /\ again \subseteq AttemptIds
      BY FS_Interval, SittingsAssumption DEF AttemptIds, Sat
    <2>2. QED
      BY <2>1, FS_Subset
  <1>3. \A a \in again : /\ a \in Rows /\ att[a].retake \in redeemed
                         /\ \A b \in again : att[b].retake = att[a].retake => b = a
    <2>1. \A a \in again : a \in Rows /\ att[a].retake # 0 /\ att[a].retake \in RetakeIds
      BY Members DEF Sat, Inv, Structure, TypeOK, AttemptRows, RetakeIds
    <2>2. QED
      BY <2>1 DEF Inv, Structure, RowsPledged, Pledged
  <1>4. f \in Injection(again, redeemed)
    BY <1>3 DEF Injection, IsInjective
  <1>5. Cardinality(again) <= Cardinality(redeemed)
    BY <1>1, <1>4, FS_Injection
  <1>6. Sat = Prior \union again /\ Prior \intersect again = {}
    BY Members DEF Sat
  <1>7. /\ Cardinality(Sat) = Used + Cardinality(again)
        /\ Cardinality(again) \in Nat /\ Cardinality(redeemed) \in Nat
    <2>1. Cardinality(Sat) = Cardinality(Prior) + Cardinality(again) - Cardinality({})
      BY <1>2, <1>6, UsedIsNatural, FS_Union
    <2>2. QED
      BY <2>1, <1>1, <1>2, UsedIsNatural, FS_EmptySet, FS_CardinalityType DEF Used
  <1>8. Cardinality(Bought) <= granted /\ Used <= Cardinality(Bought) + 1
    BY DEF Inv, Paid, BoughtFit
  <1>9. Used <= granted + 1 /\ Cardinality(Sat) <= granted + 1 + Cardinality(redeemed)
    BY <1>0, <1>5, <1>7, <1>8, UsedIsNatural
  <1>10. QED
    BY <1>8, <1>9 DEF SittingsPaidFor, Bought, Prior, Used

LEMMA NumberedSuffices == ASSUME Inv PROVE SittingsNumbered
  <1>1. SittingsFilled
    BY DEF Inv, Numbered
  <1>2. Cardinality(Waiting) <= 1
    <2>1. CASE Waiting = {}
      BY <2>1, FS_EmptySet
    <2>2. ASSUME NEW a \in Waiting PROVE Cardinality(Waiting) <= 1
      <3>1. Waiting = {a}
        BY <1>1 DEF SittingsFilled
      <3>2. QED
        BY <3>1, FS_Singleton
    <2>3. QED
      BY <2>1, <2>2
  <1>3. QED
    BY <1>1, <1>2 DEF SittingsNumbered, SittingsFilled, Prior, Used, Waiting

LEMMA InvHolds == ASSUME SittingIndexUnique PROVE Spec => []Inv
  <1>1. Init => Inv
    BY InitStructure, InitNumbered DEF Inv
  <1>2. Inv /\ [Next]_vars => Inv'
    BY NextStructure, NextNumbered, NextPaid DEF Inv
  <1>3. QED
    BY <1>1, <1>2, PTL DEF Spec

\* Where the index of sitting numbers is unique, the sittings used are numbered
\* without gap or repetition and at most one more waits, however many starts
\* race.
THEOREM SittingsAreNumbered == ASSUME SittingIndexUnique PROVE Spec => []SittingsNumbered
  <1>1. Inv => SittingsNumbered
    BY NumberedSuffices
  <1>2. QED
    BY <1>1, InvHolds, PTL

\* There, nobody sits more often than was paid for or granted, for any number of
\* starts, attempts, retakes and purchases.
THEOREM SittingsArePaidFor == ASSUME SittingIndexUnique PROVE Spec => []SittingsPaidFor
  <1>1. Inv => SittingsPaidFor
    BY PaidSuffices
  <1>2. QED
    BY <1>1, InvHolds, PTL
=============================================================================
