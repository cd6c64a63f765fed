------------------------------ MODULE Grading ------------------------------
(***************************************************************************)
(* The marking of one submitted attempt by AI evaluators and instructors:  *)
(* its AttemptPartGrade rows, its GradingQueueEntry and its                *)
(* ReevaluationRequest (backend/app/services/grading_service.py,           *)
(* ai_evaluation_service.py and the grading part of attempt_service.py).   *)
(*                                                                         *)
(* Every action is one database transaction, taken to be isolated.  An AI  *)
(* evaluation spans several: it checks the part, waits for the row lock of *)
(* the student's monthly bucket, asks the provider while it holds the      *)
(* lock, commits the answer, and applies it to the grade rows in a         *)
(* transaction of its own.                                                 *)
(***************************************************************************)
EXTENDS FiniteSets

CONSTANTS
    Parts,        \* the parts of the module that are not auto marked
    AiParts,      \* those with ai_evaluation_enabled
    DirectParts,  \* those marked while the paper is still being sat
    Instructors,
    Evaluators,   \* background tasks and job workers that run an AI evaluation
    Student,      \* the student's own requests
    NoOne,
    MayCrash      \* whether a process may die between two transactions

ASSUME GradingAssumption ==
    /\ AiParts \subseteq Parts
    /\ DirectParts \subseteq AiParts
    /\ NoOne \notin Instructors \union Evaluators \union {Student}
    /\ Student \notin Instructors \union Evaluators
    /\ Instructors \intersect Evaluators = {}
    /\ MayCrash \in BOOLEAN

VARIABLES
    attempt,     \* test_attempts.status: in_progress, grading or graded
    grades,      \* attempt_part_grades by part
    queue,       \* the grading_queue row
    review,      \* the reevaluation_requests row
    session,     \* the AI evaluations under way
    bucket,      \* who holds the row lock of the student's monthly bucket
    finalizing   \* who has committed grades and not yet run _finalize_if_all_graded

vars == <<attempt, grades, queue, review, session, bucket, finalizing>>

Handlers == Instructors \union Evaluators \union {Student}

\* full: the criteria of the grade cover the rubric of the part.
Grades == [status : {"none", "pending", "draft", "graded", "ai_graded"},
           grader : Instructors \union {NoOne}, full : BOOLEAN]

\* stale: claimed_at is further back than GRADING_CLAIM_TTL.
Entries == [status : {"none", "pending", "claimed", "completed"},
            owner : Instructors \union {NoOne}, stale : BOOLEAN]

Reviews == [status : {"none", "pending", "in_review", "resolved", "rejected"},
            owner : Instructors \union {NoOne}]

\* job: an ai_auto_grade job, else the direct evaluation of one part.
\* todo: the parts still to be marked; asked: those the provider is marking.
Sessions == [pc : {"idle", "checked", "asking", "answered"}, job : BOOLEAN,
             todo : SUBSET Parts, asked : SUBSET Parts]

Unmarked == [status |-> "pending", grader |-> NoOne, full |-> FALSE]
AiMark   == [status |-> "ai_graded", grader |-> NoOne, full |-> TRUE]
Waiting  == [status |-> "pending", owner |-> NoOne, stale |-> FALSE]
NoSession == [pc |-> "idle", job |-> FALSE, todo |-> {}, asked |-> {}]

Checked(job, todo) == [pc |-> "checked", job |-> job, todo |-> todo, asked |-> {}]

-----------------------------------------------------------------------------
(* Queries                                                                 *)

Untouched(p) == grades[p].status \in {"none", "pending"}

\* Mutant: a draft counts as published.
PublishedOrDrafted(g) == g.status \in {"graded", "ai_graded", "draft"}

Published(g) == g.status \in {"graded", "ai_graded"}

AllPublished == \A p \in Parts : Published(grades[p])
ReviewIsOpen == review.status \in {"pending", "in_review"}

\* Mutant: whoever asks has the entry.
MayAlwaysClaim(i) == TRUE

\* The WHERE clause of _claim_entry.
MayClaim(i) == queue.owner \in {NoOne, i} \/ queue.stale

\* require_or_claim: completed grading is read-only without a reevaluation.
MayOpen(i) == (queue.status = "completed" => ReviewIsOpen) /\ MayClaim(i)

Claimed(i) == [status |-> "claimed", owner |-> i, stale |-> FALSE]

\* ensure_queue_entry.
Queued == IF queue.status = "none" THEN Waiting ELSE queue

\* complete_if_ready.
Completed ==
    [queue EXCEPT !.status = IF ~ReviewIsOpen THEN "completed"
                             ELSE IF queue.owner # NoOne THEN "claimed" ELSE "pending"]

\* An AiEvaluation row that is flushed and not committed is seen by the
\* transaction that wrote it and by no other.
Visible(reader, writer) == reader = writer

EvaluationInFlight(e, p) ==
    \E f \in Evaluators : Visible(e, f) /\ session[f].pc = "asking" /\ p \in session[f].asked

-----------------------------------------------------------------------------
Init ==
    /\ attempt = "in_progress"
    /\ grades = [p \in Parts |-> [status |-> "none", grader |-> NoOne, full |-> FALSE]]
    /\ queue = [status |-> "none", owner |-> NoOne, stale |-> FALSE]
    /\ review = [status |-> "none", owner |-> NoOne]
    /\ session = [e \in Evaluators |-> NoSession]
    /\ bucket = NoOne
    /\ finalizing = {}

(* submit_attempt: a grade row for every part that has none, and a zero    *)
(* for the parts that are blank; only then does it look for a finish.      *)
Submit ==
    /\ attempt = "in_progress"
    /\ attempt' = "grading"
    /\ \E blank \in SUBSET {p \in Parts : Untouched(p)} :
          /\ grades' = [p \in Parts |-> IF p \in blank THEN AiMark
                                        ELSE IF Untouched(p) THEN Unmarked ELSE grades[p]]
          /\ finalizing' = IF blank # {} THEN finalizing \union {Student} ELSE finalizing
    /\ queue' = Queued
    /\ UNCHANGED <<review, session, bucket>>

\* Mutant: the entry is completed before the parts are looked at.
FinalizeCompletesFirst(h) ==
    /\ h \in finalizing
    /\ finalizing' = finalizing \ {h}
    /\ queue' = Completed
    /\ attempt' = IF attempt = "grading" /\ AllPublished THEN "graded" ELSE attempt
    /\ UNCHANGED <<grades, review, session, bucket>>

(* _finalize_if_all_graded, in the transaction after the grades'.         *)
Finalize(h) ==
    /\ h \in finalizing
    /\ finalizing' = finalizing \ {h}
    /\ IF attempt = "grading" /\ AllPublished
         THEN attempt' = "graded" /\ queue' = Completed
         ELSE UNCHANGED <<attempt, queue>>
    /\ UNCHANGED <<grades, review, session, bucket>>

-----------------------------------------------------------------------------
(* The AI                                                                  *)

Idle(e) == session[e].pc = "idle" /\ e \notin finalizing

(* evaluate_attempt_part_directly, up to its call of request_suggestion.   *)
Trigger(e, p) ==
    /\ Idle(e)
    /\ p \in DirectParts
    /\ Untouched(p)
    /\ ~EvaluationInFlight(e, p)
    /\ session' = [session EXCEPT ![e] = Checked(FALSE, {p})]
    /\ UNCHANGED <<attempt, grades, queue, review, bucket, finalizing>>

\* A session goes on with the parts in rest; a job, or an evaluation that
\* has marked its part, ends by looking for a finish.
Continue(e, rest, done) ==
    IF rest # {}
      THEN /\ session' = [session EXCEPT ![e] = Checked(session[e].job, rest)]
           /\ UNCHANGED finalizing
      ELSE /\ session' = [session EXCEPT ![e] = NoSession]
           /\ finalizing' = IF done THEN finalizing \union {e} ELSE finalizing

(* auto_evaluate_submission: the parts nobody has marked, those with       *)
(* nothing to send settled at zero.                                        *)
BeginJob(e) ==
    LET pending == {p \in AiParts : Untouched(p)}
    IN  /\ Idle(e)
        /\ attempt # "in_progress"
        /\ \E blank \in SUBSET pending :
              /\ grades' = [p \in Parts |-> IF p \in blank THEN AiMark ELSE grades[p]]
              /\ IF pending \ blank # {}
                   THEN /\ session' = [session EXCEPT ![e] = Checked(TRUE, pending \ blank)]
                        /\ UNCHANGED finalizing
                   ELSE /\ finalizing' = finalizing \union {e}
                        /\ UNCHANGED session
        /\ UNCHANGED <<attempt, queue, review, bucket>>

(* request_suggestion and request_batch_suggestions: the bucket's row is   *)
(* locked, the running record flushed, and the provider asked for one part *)
(* or for all that remain.                                                 *)
Ask(e) ==
    /\ session[e].pc = "checked"
    /\ bucket = NoOne
    /\ bucket' = e
    /\ \E asked \in {session[e].todo} \union {{p} : p \in session[e].todo} :
          session' = [session EXCEPT ![e] = [@ EXCEPT !.pc = "asking", !.asked = asked]]
    /\ UNCHANGED <<attempt, grades, queue, review, finalizing>>

(* A provider's daily quota is spent: the refusal is committed, and the    *)
(* next provider of the plan is asked without the lock.                    *)
QuotaSpent(e) ==
    /\ session[e].pc = "asking"
    /\ bucket = e
    /\ bucket' = NoOne
    /\ UNCHANGED <<attempt, grades, queue, review, session, finalizing>>

\* Mutant: the lock is kept until the grades are applied, and forgotten.
AnswerKeepsLock(e) ==
    /\ session[e].pc = "asking"
    /\ session' = [session EXCEPT ![e].pc = "answered"]
    /\ UNCHANGED <<attempt, grades, queue, review, finalizing, bucket>>

(* The provider answers for some of the parts: the record is committed and *)
(* the bucket released.                                                    *)
Answer(e) ==
    /\ session[e].pc = "asking"
    /\ \E marked \in (SUBSET session[e].asked) \ {{}} :
          session' = [session EXCEPT ![e] = [@ EXCEPT !.pc = "answered", !.asked = marked]]
    /\ bucket' = IF bucket = e THEN NoOne ELSE bucket
    /\ UNCHANGED <<attempt, grades, queue, review, finalizing>>

(* _apply_ai_grade on the rows as they are now, whoever has written them   *)
(* since the check.                                                        *)
Apply(e) ==
    /\ session[e].pc = "answered"
    /\ grades' = [p \in Parts |-> IF p \in session[e].asked THEN AiMark ELSE grades[p]]
    /\ queue' = IF session[e].job THEN queue ELSE Queued
    /\ Continue(e, session[e].todo \ session[e].asked, TRUE)
    /\ UNCHANGED <<attempt, review, bucket>>

(* The lock times out, nothing is configured or the provider refuses: some *)
(* of the parts are left to an instructor or to a later job.               *)
Refuse(e) ==
    /\ session[e].pc \in {"checked", "asking"}
    /\ \E rest \in (SUBSET session[e].todo) \ {session[e].todo} :
          Continue(e, rest, session[e].job)
    /\ bucket' = IF bucket = e THEN NoOne ELSE bucket
    /\ UNCHANGED <<attempt, grades, queue, review>>

(* retry_attempt_evaluation when nothing that is pending can be sent: the  *)
(* parts are settled at zero.  Otherwise it queues a job (BeginJob).       *)
RetrySettles ==
    LET pending == {p \in AiParts : Untouched(p)}
    IN  /\ attempt = "grading"
        /\ pending # {}
        /\ Student \notin finalizing
        /\ grades' = [p \in Parts |-> IF p \in pending THEN AiMark ELSE grades[p]]
        /\ finalizing' = finalizing \union {Student}
        /\ UNCHANGED <<attempt, queue, review, session, bucket>>

-----------------------------------------------------------------------------
(* Instructors                                                             *)

(* grading_service.claim, and the claim start_grading makes.               *)
Claim(i) ==
    /\ MayOpen(i)
    /\ queue' = Claimed(i)
    /\ review' = IF ReviewIsOpen THEN [status |-> "in_review", owner |-> i] ELSE review
    /\ UNCHANGED <<attempt, grades, session, bucket, finalizing>>

(* request_ai_suggestion: the entry is claimed, nothing is scored and the  *)
(* reevaluation is not touched.                                            *)
Suggest(i) ==
    /\ MayOpen(i)
    /\ queue' = Claimed(i)
    /\ UNCHANGED <<attempt, grades, review, session, bucket, finalizing>>

\* Mutant: the reevaluation stays with an instructor who has let go.
ReleaseEntryOnly(i) ==
    /\ queue.owner = i
    /\ queue' = Waiting
    /\ UNCHANGED <<attempt, grades, review, session, bucket, finalizing>>

(* grading_service.release: the entry's status is not looked at.           *)
Release(i) ==
    /\ queue.owner = i
    /\ queue' = Waiting
    /\ review' = IF ReviewIsOpen THEN [status |-> "pending", owner |-> NoOne] ELSE review
    /\ UNCHANGED <<attempt, grades, session, bucket, finalizing>>

(* GRADING_CLAIM_TTL passes.                                               *)
ClaimAges ==
    /\ queue.owner # NoOne /\ ~queue.stale
    /\ queue' = [queue EXCEPT !.stale = TRUE]
    /\ UNCHANGED <<attempt, grades, review, session, bucket, finalizing>>

(* _expire_stale_entry, when an instructor lists the queue or opens it.    *)
ExpireStaleClaim ==
    /\ queue.status = "claimed" /\ queue.stale
    /\ queue' = Waiting
    /\ review' = IF ReviewIsOpen THEN [status |-> "pending", owner |-> NoOne] ELSE review
    /\ UNCHANGED <<attempt, grades, session, bucket, finalizing>>

\* Mutant: only a published attempt is corrected in place.
SaveDraftOfMarked(i, p, full) ==
    LET correction == attempt = "graded"
    IN  /\ attempt \in {"grading", "graded"}
        /\ MayOpen(i) /\ i \notin finalizing
        /\ correction => full
        /\ queue' = Claimed(i)
        /\ grades' = [grades EXCEPT ![p] =
              [status |-> IF correction THEN "graded" ELSE "draft", grader |-> i, full |-> full]]
        /\ finalizing' = IF correction THEN finalizing \union {i} ELSE finalizing
        /\ UNCHANGED <<attempt, review, session, bucket>>

\* Mutant: the status of the attempt is not looked at.
SaveDraftWhileSat(i, p, full) ==
    LET correction == attempt = "graded" \/ Published(grades[p])
    IN  /\ MayOpen(i) /\ i \notin finalizing
        /\ correction => full
        /\ queue' = Claimed(i)
        /\ grades' = [grades EXCEPT ![p] =
              [status |-> IF correction THEN "graded" ELSE "draft", grader |-> i, full |-> full]]
        /\ finalizing' = IF correction THEN finalizing \union {i} ELSE finalizing
        /\ UNCHANGED <<attempt, review, session, bucket>>

(* save_part_draft: a part that is already published is corrected in place *)
(* and published again.                                                    *)
SaveDraft(i, p, full) ==
    LET correction == attempt = "graded" \/ Published(grades[p])
    IN  /\ attempt \in {"grading", "graded"}
        /\ MayOpen(i) /\ i \notin finalizing
        /\ correction => full
        /\ queue' = Claimed(i)
        /\ grades' = [grades EXCEPT ![p] =
              [status |-> IF correction THEN "graded" ELSE "draft", grader |-> i, full |-> full]]
        /\ finalizing' = IF correction THEN finalizing \union {i} ELSE finalizing
        /\ UNCHANGED <<attempt, review, session, bucket>>

(* submit_grading: every draft is published at once.                       *)
SubmitGrading(i) ==
    /\ attempt = "grading"
    /\ MayOpen(i) /\ i \notin finalizing
    /\ \A p \in Parts : grades[p].full
    /\ queue' = Claimed(i)
    /\ grades' = [p \in Parts |-> IF grades[p].status = "draft"
                                  THEN [status |-> "graded", grader |-> i, full |-> TRUE]
                                  ELSE grades[p]]
    /\ finalizing' = finalizing \union {i}
    /\ UNCHANGED <<attempt, review, session, bucket>>

(* request_reevaluation by the student: the claim on the entry is dropped. *)
RequestReevaluation ==
    /\ attempt \in {"grading", "graded"}
    /\ review.status = "none"
    /\ review' = [status |-> "pending", owner |-> NoOne]
    /\ queue' = Waiting
    /\ UNCHANGED <<attempt, grades, session, bucket, finalizing>>

(* resolve_reevaluation: the entry is completed.                           *)
ResolveReevaluation(i, resolution) ==
    /\ ReviewIsOpen
    /\ MayOpen(i)
    /\ review' = [status |-> resolution, owner |-> i]
    /\ queue' = [Claimed(i) EXCEPT !.status = "completed"]
    /\ UNCHANGED <<attempt, grades, session, bucket, finalizing>>

(* A process dies: its open transaction is rolled back, what it had        *)
(* committed stays, and nobody takes up the rest.                          *)
Crash(h) ==
    /\ MayCrash
    /\ h \in finalizing \/ (h \in Evaluators /\ session[h].pc # "idle")
    /\ session' = [e \in Evaluators |-> IF e = h THEN NoSession ELSE session[e]]
    /\ bucket' = IF bucket = h THEN NoOne ELSE bucket
    /\ finalizing' = finalizing \ {h}
    /\ UNCHANGED <<attempt, grades, queue, review>>

-----------------------------------------------------------------------------
EvaluatorStep(e) ==
    \/ \E p \in Parts : Trigger(e, p)
    \/ BeginJob(e) \/ Ask(e) \/ QuotaSpent(e) \/ Answer(e) \/ Apply(e) \/ Refuse(e)

InstructorStep(i) ==
    \/ Claim(i) \/ Suggest(i) \/ Release(i) \/ SubmitGrading(i)
    \/ \E p \in Parts, full \in BOOLEAN : SaveDraft(i, p, full)
    \/ \E resolution \in {"resolved", "rejected"} : ResolveReevaluation(i, resolution)

Next ==
    \/ Submit \/ RetrySettles \/ RequestReevaluation
    \/ ClaimAges \/ ExpireStaleClaim
    \/ \E e \in Evaluators : EvaluatorStep(e)
    \/ \E i \in Instructors : InstructorStep(i)
    \/ \E h \in Handlers : Finalize(h) \/ Crash(h)

Spec == Init /\ [][Next]_vars

-----------------------------------------------------------------------------
(* Properties                                                              *)

\* The rows hold what the code writes, and whoever holds the bucket's lock
\* is with the provider.
TypeOK ==
    /\ attempt \in {"in_progress", "grading", "graded"}
    /\ grades \in [Parts -> Grades]
    /\ queue \in Entries
    /\ review \in Reviews
    /\ session \in [Evaluators -> Sessions]
    /\ bucket \in Evaluators \union {NoOne}
    /\ bucket # NoOne => session[bucket].pc = "asking"
    /\ finalizing \subseteq Handlers

\* A result is never shown half marked: once the attempt is graded every
\* part has a published mark, and no correction, late answer of the AI or
\* retry takes one back.
GradedIsComplete ==
    attempt = "graded" => \A p \in Parts : grades[p].status \in {"graded", "ai_graded"}

\* The queue does not call an attempt done before its marking is: an entry is
\* completed only for a graded attempt, or by the closing of a reevaluation.
CompletedMeansMarked ==
    queue.status = "completed" => attempt = "graded" \/ review.status \in {"resolved", "rejected"}

\* Queue entry and reevaluation agree about who is at work: a claimed entry
\* has an owner, a waiting one has none, and a reevaluation in review is
\* claimed - through takeovers, releases, stale claims and late finishes.
QueueAgreesWithReview ==
    /\ queue.status = "claimed" => queue.owner # NoOne
    /\ queue.status \in {"none", "pending"} => queue.owner = NoOne
    /\ review.status = "in_review" => queue.status = "claimed"

\* Two instructors do not mark one submission at a time: a mark is written by
\* an instructor only when nobody else holds a claim that is still fresh.
MarkedUnderOwnClaim ==
    [][\A i \in Instructors :
          (\E p \in Parts : grades'[p] # grades[p] /\ grades'[p].grader = i)
              => queue.owner \in {NoOne, i} \/ queue.stale]_vars

\* A published mark may be corrected and never withdrawn: no draft, retry or
\* submission puts a part the student has seen back to unmarked.
PublishedStaysPublished ==
    [][\A p \in Parts : grades[p].status \in {"graded", "ai_graded"} =>
                            grades'[p].status \in {"graded", "ai_graded"}]_vars

\* The rows, read as the student is shown them.
StageShown ==
    CASE attempt = "in_progress" -> "sitting"
      [] attempt = "grading"     -> "marking"
      [] attempt = "graded"      -> "shown"

MarkShown(g) == IF Published(g) THEN "published" ELSE IF g.status = "draft" THEN "drafted" ELSE "open"

Shown == INSTANCE Marking WITH stage <- StageShown, marks <- [p \in Parts |-> MarkShown(grades[p])]

\* Whatever evaluators, retries, instructors and crashes do to the rows, the
\* student sees what Marking promises: marks come out for good, and the result
\* appears in one step, complete.
ImplementsMarking == Shown!Spec

\* Once an instructor has scored a part the AI leaves it alone.
InstructorMarkStands ==
    [][\A p \in Parts : grades[p].grader \in Instructors => grades'[p].grader \in Instructors]_vars

\* While an evaluation of a part is with the provider, leaving the part again
\* does not start another.
DuplicateTriggerIsSkipped ==
    [][\A e, f \in Evaluators, p \in Parts :
          Trigger(e, p) => ~(session[f].pc = "asking" /\ p \in session[f].asked)]_vars

\* An attempt whose parts are all marked does not sit in the grading queue:
\* someone is about to finish it.
MarkedIsFinished == (attempt = "grading" /\ AllPublished) => finalizing # {}
=============================================================================
