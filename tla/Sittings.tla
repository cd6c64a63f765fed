------------------------------ MODULE Sittings ------------------------------
(***************************************************************************)
(* The sittings one student has of one test module: rows of test_attempts, *)
(* the retake requests raised against them and the purchased sittings of   *)
(* the module's entitlement (backend/app/services/attempt_service.py,      *)
(* retake_service.py, entitlement_service.py).                             *)
(*                                                                         *)
(* Every action is one database transaction, taken to be isolated.  The    *)
(* one handler that decides on rows it has read and is protected by unique *)
(* indexes only when it inserts, start_attempt, is two actions,            *)
(* StartDecide and StartCommit, so that starts of two tabs or two uvicorn  *)
(* workers interleave between them.                                        *)
(***************************************************************************)
EXTENDS Naturals, FiniteSets

CONSTANTS
    Requests,            \* concurrent POST /modules/{id}/attempts handlers
    MaxAttempts,         \* bound on test_attempts rows
    MaxRetakes,          \* bound on retake_requests rows
    MaxGrants,           \* bound on sittings_granted
    SittingIndexUnique   \* uq_test_attempt_original_user_module is UNIQUE: TRUE
                         \* on SQLite and PostgreSQL, FALSE on MySQL (0085)

ASSUME SittingsAssumption ==
    /\ MaxAttempts \in Nat \ {0}
    /\ MaxRetakes \in Nat
    /\ MaxGrants \in Nat \ {0}
    /\ SittingIndexUnique \in BOOLEAN

VARIABLES
    paper,     \* the exam module and the kind of student, fixed by Init
    att,       \* test_attempts rows by id
    retakes,   \* retake_requests rows by id
    granted,   \* module_entitlements.sittings_granted
    req        \* what each start_attempt handler has decided to insert

vars == <<paper, att, retakes, granted, req>>

AttemptIds == 1..MaxAttempts
RetakeIds  == 1..MaxRetakes

\* submitted stands for SUBMITTED, GRADING and GRADED (module Grading).
Statuses == {"none", "ready", "in_progress", "submitted", "expired", "violated", "deleted"}
Phases   == {"main", "speaking_pending", "speaking"}
RetakeStatuses == {"none", "pending", "approved", "rejected", "deleted"}

\* final: a Final Test.  split: a full mock or Final Test with a Speaking
\* section.  direct: the student belongs to no institute.
Papers == [final : BOOLEAN, split : BOOLEAN, direct : BOOLEAN]

\* retake = 0 is is_retake false; entitled: started_at is not before the
\* first subscription; terminated: the violation marks in security_media_state.
AttemptRows ==
    [status : Statuses, retake : 0..MaxRetakes, sitting : Nat,
     answered : BOOLEAN, overdue : BOOLEAN, phase : Phases,
     entitled : BOOLEAN, terminated : BOOLEAN]

RetakeRows == [status : RetakeStatuses, of : 0..MaxAttempts, consumed : BOOLEAN]

Idle  == [pc |-> "idle", retake |-> 0, sitting |-> 0]
Plans == [pc : {"idle", "decided"}, retake : 0..MaxRetakes, sitting : Nat]

NoAttempt == [status |-> "none", retake |-> 0, sitting |-> 0,
              answered |-> FALSE, overdue |-> FALSE, phase |-> "main",
              entitled |-> FALSE, terminated |-> FALSE]

NoRetake == [status |-> "none", of |-> 0, consumed |-> FALSE]

-----------------------------------------------------------------------------
(* Queries over the rows                                                   *)

Exists(a) == att[a].status \notin {"none", "deleted"}
Rows      == {a \in AttemptIds : Exists(a)}
Spent(r)  == r.status \notin {"none", "deleted", "ready"}

\* The attempts that count as a sitting of the module: not retakes, and past
\* onboarding.
PriorSittings(rows) == {a \in AttemptIds : rows[a].retake = 0 /\ Spent(rows[a])}

\* Mutant: an expired sitting is not counted as used.
SittingsRemainingOfSubmitted(rows) ==
    LET used == Cardinality({a \in PriorSittings(rows) : rows[a].entitled /\ rows[a].status = "submitted"})
    IN  IF used >= granted THEN 0 ELSE granted - used

SittingsRemaining(rows) ==
    LET used == Cardinality({a \in PriorSittings(rows) : rows[a].entitled})
    IN  IF used >= granted THEN 0 ELSE granted - used

AvailableRetakes == {k \in RetakeIds : retakes[k].status = "approved" /\ ~retakes[k].consumed}

\* uq_test_attempt_active_user_module: one row in progress at a time.
NoOtherActive(a) == \A b \in AttemptIds \ {a} : att[b].status # "in_progress"

-----------------------------------------------------------------------------
(* Rows as the handlers rewrite them                                       *)

\* _restore_deferred_speaking_attempt runs whenever an attempt is loaded.
Deferred(a) ==
    /\ Exists(a)
    /\ att[a].phase = "speaking_pending"
    /\ att[a].status # "in_progress"
    /\ NoOtherActive(a)

Loaded(a) == IF Deferred(a) THEN [att[a] EXCEPT !.status = "in_progress"] ELSE att[a]

\* READY -> IN_PROGRESS: the clock starts afresh.
Promote(r) ==
    IF r.status = "ready"
      THEN [r EXCEPT !.status = "in_progress", !.overdue = FALSE, !.entitled = granted > 0]
      ELSE r

\* Mutant: the status the queries of start_attempt name and nothing writes.
AutoExpireCancels(r) == IF r.status \in {"ready", "in_progress"} THEN [r EXCEPT !.status = "cancelled"] ELSE r

AutoExpire(r) == IF r.status \in {"ready", "in_progress"} THEN [r EXCEPT !.status = "expired"] ELSE r

\* get_student_view expires an attempt whose time is up when it is looked at.
Viewed(r) ==
    IF r.status = "in_progress" /\ r.overdue /\ r.phase # "speaking_pending"
      THEN AutoExpire(r)
      ELSE r

\* Mutant: the deadline is not looked at.
AcceptsLateWork(a, r) ==
    /\ r.status = "in_progress"
    /\ Loaded(a).status = "ready" => NoOtherActive(a)

\* _require_in_progress, after the READY row has been promoted.
AcceptsWork(a, r) ==
    /\ r.status = "in_progress"
    /\ ~r.overdue \/ r.phase = "speaking_pending"
    /\ Loaded(a).status = "ready" => NoOtherActive(a)

Submitted(r) == [Promote(r) EXCEPT !.status = "submitted"]

-----------------------------------------------------------------------------
Init ==
    /\ paper \in {p \in Papers : p.final => p.split}
    /\ att = [a \in AttemptIds |-> NoAttempt]
    /\ retakes = [k \in RetakeIds |-> NoRetake]
    /\ granted \in IF paper.direct THEN {0, 1} ELSE {0}
    /\ req = [r \in Requests |-> Idle]

(* start_attempt, up to the INSERT: a running attempt is resumed or, when  *)
(* its time is up, expired in a transaction of its own; an attempt waiting *)
(* at onboarding is handed back; otherwise the next sitting, or the retake *)
(* that pays for this one, is decided from the rows read.                  *)
StartDecide(r) ==
    LET running == {a \in AttemptIds : att[a].status = "in_progress"}
        rows    == [a \in AttemptIds |-> IF a \in running THEN AutoExpire(att[a]) ELSE att[a]]
        prior   == Cardinality(PriorSittings(rows))
        paid    == paper.direct /\ SittingsRemaining(rows) > 0
        waiting == {a \in AttemptIds : rows[a].status = "ready" /\ ~rows[a].answered}
        barred  == \E a \in AttemptIds : Exists(a)
                                          /\ (rows[a].status = "violated" \/ rows[a].terminated)
    IN  /\ req[r].pc = "idle"
        /\ \A a \in running : att[a].overdue
        /\ att' = rows
        /\ \/ /\ waiting # {} \/ barred
              /\ UNCHANGED req
           \/ /\ waiting = {} /\ ~barred
              /\ prior = 0 \/ paid
              /\ req' = [req EXCEPT ![r] = [pc |-> "decided", retake |-> 0, sitting |-> prior + 1]]
           \/ /\ waiting = {} /\ ~barred
              /\ prior > 0 /\ ~paid /\ ~paper.final
              /\ \E k \in AvailableRetakes :
                    req' = [req EXCEPT ![r] = [pc |-> "decided", retake |-> k, sitting |-> prior]]
           \/ /\ waiting = {} /\ ~barred
              /\ prior > 0 /\ ~paid /\ (paper.final \/ AvailableRetakes = {})
              /\ UNCHANGED req
        /\ UNCHANGED <<paper, retakes, granted>>

\* Mutant: sittings are unique only while they run.
ConflictsWithRunning(plan) ==
    \E b \in AttemptIds :
        /\ att[b].status = "in_progress"
        /\ \/ plan.retake = 0 /\ att[b].retake = 0 /\ att[b].sitting = plan.sitting
           \/ plan.retake # 0 /\ att[b].retake = plan.retake

\* Mutant: retake_request_id is not unique.
ConflictsOfSittings(plan) ==
    \E b \in AttemptIds :
        Exists(b) /\ plan.retake = 0 /\ att[b].retake = 0 /\ att[b].sitting = plan.sitting

\* The unique indexes an INSERT of this plan runs into.
Conflicts(plan) ==
    \E b \in AttemptIds :
        /\ Exists(b)
        /\ \/ /\ SittingIndexUnique
              /\ plan.retake = 0 /\ att[b].retake = 0
              /\ att[b].sitting = plan.sitting
           \/ plan.retake # 0 /\ att[b].retake = plan.retake

\* The retake request the plan consumes was deleted with its attempt.
RetakeGone(plan) == plan.retake # 0 /\ retakes[plan.retake].status = "deleted"

NextId(a) == att[a].status = "none" /\ \A b \in AttemptIds : b < a => att[b].status # "none"

(* start_attempt, the INSERT and its commit: the retake is consumed with   *)
(* it, and an IntegrityError rolls both back.                              *)
StartCommit(r) ==
    /\ req[r].pc = "decided"
    /\ req' = [req EXCEPT ![r] = Idle]
    /\ \/ /\ Conflicts(req[r]) \/ RetakeGone(req[r])
          /\ UNCHANGED <<att, retakes>>
       \/ /\ ~Conflicts(req[r]) /\ ~RetakeGone(req[r])
          /\ \E a \in AttemptIds :
                /\ NextId(a)
                /\ att' = [att EXCEPT ![a] =
                      [NoAttempt EXCEPT !.status = "ready", !.retake = req[r].retake,
                                        !.sitting = req[r].sitting, !.entitled = granted > 0]]
          /\ retakes' = [k \in RetakeIds |->
                            IF k = req[r].retake THEN [retakes[k] EXCEPT !.consumed = TRUE]
                                                 ELSE retakes[k]]
    /\ UNCHANGED <<paper, granted>>

(* GET /attempts/{id}: a deferred attempt is restored, an overdue one is   *)
(* expired.  A request refused after its attempt was loaded leaves the     *)
(* restored row too.                                                       *)
OpenAttempt(a) ==
    /\ Exists(a)
    /\ att' = [att EXCEPT ![a] = Viewed(Loaded(a))]
    /\ UNCHANGED <<paper, retakes, granted, req>>

(* commence_attempt, and begin_secure_attempt on a READY Final Test.       *)
Commence(a) ==
    /\ att[a].status = "ready"
    /\ NoOtherActive(a)
    /\ att' = [att EXCEPT ![a] = Promote(@)]
    /\ UNCHANGED <<paper, retakes, granted, req>>

(* begin_secure_attempt on an attempt whose Speaking was deferred.         *)
BeginDeferredSpeaking(a) ==
    /\ paper.final
    /\ Exists(a)
    /\ Loaded(a).status = "in_progress"
    /\ Loaded(a).phase = "speaking_pending"
    /\ att' = [att EXCEPT ![a] = [Loaded(a) EXCEPT !.phase = "speaking", !.overdue = FALSE]]
    /\ UNCHANGED <<paper, retakes, granted, req>>

(* cancel_onboarding_attempt: a READY row is deleted, with the retake      *)
(* requests raised against it.  For a retake the handler imports a module  *)
(* that does not exist and fails before it changes anything.               *)
CancelOnboarding(a) ==
    /\ att[a].status = "ready" /\ ~att[a].answered
    /\ att[a].retake = 0
    /\ att' = [att EXCEPT ![a] = [NoAttempt EXCEPT !.status = "deleted"]]
    /\ retakes' = [k \in RetakeIds |->
                      IF retakes[k].of = a THEN [retakes[k] EXCEPT !.status = "deleted"] ELSE retakes[k]]
    /\ UNCHANGED <<paper, granted, req>>

(* save_answer and save_audio_answer: the response saved may be empty, and *)
(* may replace the only one that was not.  Once the main paper is sealed   *)
(* only Speaking answers are taken.                                        *)
SaveAnswer(a, substantive, speaking) ==
    LET r == Promote(Loaded(a))
    IN  /\ Exists(a)
        /\ AcceptsWork(a, r)
        /\ r.phase # "main" => speaking
        /\ speaking => paper.split
        /\ \E others \in {FALSE, r.answered} :
              att' = [att EXCEPT ![a] = [r EXCEPT !.answered = substantive \/ others]]
        /\ UNCHANGED <<paper, retakes, granted, req>>

(* seal_main_paper_for_speaking, to sit the interview now or later.        *)
SealMainPaper(a, startNow) ==
    LET r == Promote(Loaded(a))
    IN  /\ Exists(a)
        /\ AcceptsWork(a, r)
        /\ paper.split
        /\ att' = [att EXCEPT ![a] =
              IF startNow THEN [r EXCEPT !.phase = "speaking", !.overdue = FALSE]
                          ELSE [r EXCEPT !.phase = "speaking_pending"]]
        /\ UNCHANGED <<paper, retakes, granted, req>>

\* Mutant: a deferred attempt is submitted too.
SubmitDeferred(a) ==
    /\ att[a].status \in {"ready", "in_progress"}
    /\ att' = [att EXCEPT ![a] = Submitted(@)]
    /\ UNCHANGED <<paper, retakes, granted, req>>

(* submit_attempt from the student.  An attempt whose Speaking is deferred *)
(* is returned as it is; any status but READY and IN_PROGRESS is a retry.  *)
Submit(a) ==
    /\ att[a].status \in {"ready", "in_progress"}
    /\ att[a].phase # "speaking_pending"
    /\ att' = [att EXCEPT ![a] = Submitted(@)]
    /\ UNCHANGED <<paper, retakes, granted, req>>

(* One attempt of sweep_expired_attempts: answered work is submitted,      *)
(* anything else is expired.                                               *)
Sweep(a) ==
    /\ att[a].status \in {"ready", "in_progress"}
    /\ att[a].overdue
    /\ att[a].phase # "speaking_pending"
    /\ \/ /\ att[a].answered
          /\ att' = [att EXCEPT ![a] = Submitted(@)]
       \/ /\ ~att[a].answered
          /\ att' = [att EXCEPT ![a] = AutoExpire(@)]
    /\ UNCHANGED <<paper, retakes, granted, req>>

(* The submission raises: the sweep rolls it back and expires the attempt. *)
SweepFails(a) ==
    /\ att[a].status \in {"ready", "in_progress"}
    /\ att[a].overdue /\ att[a].answered
    /\ att[a].phase # "speaking_pending"
    /\ att' = [att EXCEPT ![a] = AutoExpire(@)]
    /\ UNCHANGED <<paper, retakes, granted, req>>

(* _maybe_auto_submit_for_violations at the third proctoring violation.    *)
Terminate(a) ==
    /\ paper.final
    /\ att[a].status = "in_progress"
    /\ att' = [att EXCEPT ![a] = [@ EXCEPT !.status = "violated", !.terminated = TRUE]]
    /\ UNCHANGED <<paper, retakes, granted, req>>

(* secure_preflight replaces security_media_state, marks and all.          *)
Preflight(a) ==
    /\ paper.final
    /\ Exists(a)
    /\ Loaded(a).status \in {"ready", "in_progress"}
    /\ att' = [att EXCEPT ![a] = [Loaded(a) EXCEPT !.terminated = FALSE]]
    /\ UNCHANGED <<paper, retakes, granted, req>>

(* expires_at passes.                                                      *)
TimeUp(a) ==
    /\ att[a].status \in {"ready", "in_progress"}
    /\ ~att[a].overdue
    /\ att' = [att EXCEPT ![a].overdue = TRUE]
    /\ UNCHANGED <<paper, retakes, granted, req>>

-----------------------------------------------------------------------------
(* retake_service.request_retake: no request of this attempt may be open,  *)
(* or approved and not yet used.                                           *)
RequestRetake(a) ==
    /\ Exists(a)
    /\ ~paper.final
    /\ \A k \in RetakeIds : retakes[k].of = a =>
          /\ retakes[k].status # "pending"
          /\ retakes[k].status = "approved" => retakes[k].consumed
    /\ \E k \in RetakeIds :
          /\ retakes[k].status = "none" /\ \A j \in RetakeIds : j < k => retakes[j].status # "none"
          /\ retakes' = [retakes EXCEPT ![k] = [status |-> "pending", of |-> a, consumed |-> FALSE]]
    /\ att' = [att EXCEPT ![a] = Loaded(a)]
    /\ UNCHANGED <<paper, granted, req>>

(* retake_service.resolve_retake by the Super Admin.                       *)
ResolveRetake(k, resolution) ==
    /\ retakes[k].status = "pending"
    /\ retakes' = [retakes EXCEPT ![k].status = resolution]
    /\ UNCHANGED <<paper, att, granted, req>>

(* entitlement_service.grant_plan for this module: one more sitting.       *)
Purchase ==
    /\ paper.direct
    /\ granted < MaxGrants
    /\ granted' = granted + 1
    /\ UNCHANGED <<paper, att, retakes, req>>

-----------------------------------------------------------------------------
StudentStep(a) ==
    \/ OpenAttempt(a) \/ Commence(a) \/ BeginDeferredSpeaking(a)
    \/ CancelOnboarding(a) \/ Submit(a) \/ Preflight(a) \/ RequestRetake(a)
    \/ \E substantive, speaking \in BOOLEAN : SaveAnswer(a, substantive, speaking)
    \/ \E startNow \in BOOLEAN : SealMainPaper(a, startNow)

Next ==
    \/ \E r \in Requests : StartDecide(r) \/ StartCommit(r)
    \/ \E a \in AttemptIds :
          \/ StudentStep(a) \/ Sweep(a) \/ SweepFails(a)
          \/ Terminate(a) \/ TimeUp(a)
    \/ \E k \in RetakeIds : \E resolution \in {"approved", "rejected"} : ResolveRetake(k, resolution)
    \/ Purchase

Spec == Init /\ [][Next]_vars

\* The scheduler thread sweeps every minute.
FairSpec == Spec /\ \A a \in AttemptIds : WF_vars(Sweep(a) \/ SweepFails(a))

-----------------------------------------------------------------------------
(* Properties                                                              *)

\* Every row and every handler's plan is one the code can write.
TypeOK ==
    /\ paper \in Papers
    /\ att \in [AttemptIds -> AttemptRows]
    /\ retakes \in [RetakeIds -> RetakeRows]
    /\ granted \in 0..MaxGrants
    /\ req \in [Requests -> Plans]

Sat == {a \in AttemptIds : Spent(att[a])}

\* Nobody sits a module more often than was paid for or granted: racing
\* starts, purchases between them and deferred or expired papers included, the
\* purchased sittings used stay within those bought (one sitting comes free),
\* and every other sitting is covered by a retake request of its own.
SittingsPaidFor ==
    LET bought   == {a \in PriorSittings(att) : att[a].entitled}
        redeemed == {k \in RetakeIds : retakes[k].status = "approved" /\ retakes[k].consumed}
    IN  /\ Cardinality(bought) <= granted
        /\ Cardinality(PriorSittings(att)) <= granted + 1
        /\ Cardinality(Sat) <= granted + 1 + Cardinality(redeemed)

\* The sittings used are numbered 1, 2, ... without gap or repetition, and at
\* most one more waits at onboarding, with the next number: the number a start
\* computes from a count of rows is the one the unique index expects.
SittingsNumbered ==
    LET n       == Cardinality(PriorSittings(att))
        waiting == {a \in AttemptIds : att[a].status = "ready" /\ att[a].retake = 0}
    IN  /\ {att[a].sitting : a \in PriorSittings(att)} = 1..n
        /\ \A a \in waiting : att[a].sitting = n + 1
        /\ Cardinality(waiting) <= 1

\* A retake request is redeemed at most once, and only when it was approved:
\* two starts that both read it as available cannot both open an attempt.
RetakeRedeemedOnce ==
    \A a \in Rows : att[a].retake # 0 =>
        /\ retakes[att[a].retake].status = "approved"
        /\ retakes[att[a].retake].consumed
        /\ \A b \in Rows \ {a} : att[b].retake # att[a].retake

\* Submitted work never goes back to the candidate: it is not reopened by the
\* restoring of deferred Speaking, by a retried request or by the sweep.
SubmittedIsFinal ==
    [][\A a \in AttemptIds :
          att[a].status = "submitted" => att'[a].status = "submitted"]_vars

Overdue(a) ==
    /\ att[a].status = "in_progress"
    /\ att[a].overdue
    /\ att[a].phase # "speaking_pending"

\* Closed when its time was up.
Settled(a) ==
    /\ att[a].status \in {"submitted", "expired", "violated"}
    /\ att[a].overdue
    /\ att[a].phase # "speaking_pending"

\* A paper whose time is up is settled, and stays settled: the sweep reaches
\* it whatever the candidate's client goes on sending, and nothing the client
\* sends buys it more time.
OverdueIsSettled ==
    /\ \A a \in AttemptIds : []<>~Overdue(a)
    /\ [][\A a \in AttemptIds :
             /\ Overdue(a) => Overdue(a)' \/ Settled(a)'
             /\ Settled(a) => Settled(a)']_vars

\* Backing out of onboarding, or never coming back to it, spends no sitting:
\* a row the candidate never entered does not become a used one.
OnboardingSpendsNothing ==
    [][\A a \in AttemptIds : att[a].status = "ready" => att'[a].status # "expired"]_vars

\* Answered work whose time is up is submitted, not thrown away: only a
\* submission that raised leaves it expired.
AnsweredWorkIsSubmitted ==
    [][\A a \in AttemptIds :
          (att[a].status = "in_progress" /\ att[a].answered /\ att'[a].status = "expired")
              => SweepFails(a)]_vars

\* Two concurrent starts never open two attempts with one sitting number.
NoDuplicateSitting ==
    \A a, b \in Rows :
        (att[a].retake = 0 /\ att[b].retake = 0 /\ att[a].sitting = att[b].sitting) => a = b
=============================================================================
