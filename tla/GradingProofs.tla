--------------------------- MODULE GradingProofs ---------------------------
(* Proofs about how a submitted attempt is marked: Grading, for any set of *)
(* parts, instructors and evaluators, and then JobQueue, for any number of *)
(* processes, requests and jobs.                                           *)
EXTENDS Grading, JobQueue, FiniteSetTheorems, TLAPS

-----------------------------------------------------------------------------
(* Type correctness                                                        *)

\* The conditions on the records the handlers write.
LEMMA RecordTypes ==
    ASSUME TypeOK
    PROVE  /\ Unmarked \in Grades /\ AiMark \in Grades
           /\ Waiting \in Entries /\ Queued \in Entries /\ Completed \in Entries
           /\ \A i \in Instructors : Claimed(i) \in Entries
           /\ NoSession \in Sessions
  <1>1. /\ Unmarked \in Grades /\ AiMark \in Grades
        /\ Waiting \in Entries
        /\ \A i \in Instructors : Claimed(i) \in Entries
        /\ NoSession \in Sessions
    BY DEF Unmarked, AiMark, Waiting, Claimed, NoSession, Grades, Entries, Sessions
  <1>2. Queued \in Entries
    BY <1>1 DEF Queued, TypeOK
  <1>3. Completed \in Entries
    <2> DEFINE status == IF ~ReviewIsOpen THEN "completed"
                         ELSE IF queue.owner # NoOne THEN "claimed" ELSE "pending"
    <2>1. status \in {"none", "pending", "claimed", "completed"}
      OBVIOUS
    <2>2. Completed = [queue EXCEPT !.status = status]
      BY DEF Completed
    <2> HIDE DEF status
    <2> QED BY <2>1, <2>2 DEF TypeOK, Entries
  <1> QED BY <1>1, <1>2, <1>3

\* Continue leaves well formed sessions, and touches only the session of e.
LEMMA ContinueTypes ==
    ASSUME TypeOK, NEW e \in Evaluators, NEW rest \in SUBSET Parts,
           NEW done \in BOOLEAN, Continue(e, rest, done)
    PROVE  /\ session' \in [Evaluators -> Sessions]
           /\ finalizing' \subseteq Handlers
           /\ \A f \in Evaluators \ {e} : session'[f] = session[f]
  <1>1. NoSession \in Sessions
    BY RecordTypes
  <1>2. CASE rest # {}
    <2>1. Checked(session[e].job, rest) \in Sessions
      BY DEF Checked, TypeOK, Sessions
    <2> QED BY <1>2, <2>1 DEF Continue, TypeOK
  <1>3. CASE rest = {}
    BY <1>1, <1>3 DEF Continue, TypeOK, Handlers
  <1> QED BY <1>2, <1>3

LEMMA TypeInit == Init => TypeOK
  BY DEF Init, TypeOK, NoSession, Grades, Entries, Reviews, Sessions

LEMMA TypeNext == TypeOK /\ [Next]_vars => TypeOK'
  <1> SUFFICES ASSUME TypeOK, [Next]_vars
               PROVE  TypeOK'
    OBVIOUS
  <1>t. /\ Unmarked \in Grades /\ AiMark \in Grades
        /\ Waiting \in Entries /\ Queued \in Entries /\ Completed \in Entries
        /\ \A i \in Instructors : Claimed(i) \in Entries
        /\ NoSession \in Sessions
    BY RecordTypes
  <1>1. CASE Submit
    BY <1>1, <1>t DEF Submit, TypeOK, Handlers
  <1>2. CASE RetrySettles
    BY <1>2, <1>t DEF RetrySettles, TypeOK, Handlers
  <1>3. CASE RequestReevaluation
    BY <1>3, <1>t DEF RequestReevaluation, TypeOK, Reviews
  <1>4. CASE ClaimAges
    BY <1>4 DEF ClaimAges, TypeOK, Entries
  <1>5. CASE ExpireStaleClaim
    BY <1>5, <1>t DEF ExpireStaleClaim, TypeOK, Reviews
  <1>6. ASSUME NEW e \in Evaluators, EvaluatorStep(e)
        PROVE  TypeOK'
    <2>1. ASSUME NEW p \in Parts, Trigger(e, p) PROVE TypeOK'
      <3>1. session' \in [Evaluators -> Sessions]
        BY <2>1, <1>t DEF Trigger, TypeOK, Checked, Sessions
      <3>2. bucket # e
        BY <2>1, GradingAssumption DEF Trigger, Idle, TypeOK
      <3> QED BY <2>1, <3>1, <3>2 DEF Trigger, TypeOK
    <2>2. CASE BeginJob(e)
      <3>1. bucket # e
        BY <2>2, GradingAssumption DEF BeginJob, Idle, TypeOK
      <3> DEFINE pending == {p \in AiParts : Untouched(p)}
      <3>a. PICK blank \in SUBSET pending :
                IF pending \ blank # {}
                  THEN session' = [session EXCEPT ![e] = Checked(TRUE, pending \ blank)]
                  ELSE session' = session
        BY <2>2 DEF BeginJob
      <3>b. Checked(TRUE, pending \ blank) \in Sessions
        BY GradingAssumption DEF Checked, Sessions
      <3>2. session' \in [Evaluators -> Sessions]
        <4> HIDE DEF pending
        <4> QED BY <3>a, <3>b DEF TypeOK
      <3>3. grades' \in [Parts -> Grades] /\ finalizing' \subseteq Handlers
        BY <2>2, <1>t DEF BeginJob, TypeOK, Handlers
      <3>4. \A f \in Evaluators \ {e} : session'[f] = session[f]
        BY <2>2 DEF BeginJob, TypeOK
      <3> QED BY <2>2, <3>1, <3>2, <3>3, <3>4 DEF BeginJob, TypeOK
    <2>3. CASE Ask(e)
      <3>1. PICK asked \in {session[e].todo} \union {{p} : p \in session[e].todo} :
                session' = [session EXCEPT ![e] = [@ EXCEPT !.pc = "asking", !.asked = asked]]
        BY <2>3 DEF Ask
      <3>2. asked \in SUBSET Parts
        BY <3>1 DEF TypeOK, Sessions
      <3>3. session' \in [Evaluators -> Sessions] /\ session'[e].pc = "asking"
        BY <3>1, <3>2 DEF TypeOK, Sessions
      <3> QED BY <2>3, <3>3 DEF Ask, TypeOK
    <2>4. CASE Answer(e)
      <3>1. PICK marked \in (SUBSET session[e].asked) \ {{}} :
                session' = [session EXCEPT ![e] = [@ EXCEPT !.pc = "answered", !.asked = marked]]
        BY <2>4 DEF Answer
      <3>2. session' \in [Evaluators -> Sessions]
        BY <3>1, ZenonT(60) DEF TypeOK, Sessions
      <3> QED BY <2>4, <3>2 DEF Answer, TypeOK
    <2>5. CASE Apply(e)
      <3>1. bucket # e
        BY <2>5, GradingAssumption DEF Apply, TypeOK
      <3>2. /\ session' \in [Evaluators -> Sessions]
            /\ finalizing' \subseteq Handlers
            /\ \A f \in Evaluators \ {e} : session'[f] = session[f]
        <4>1. session[e].todo \ session[e].asked \in SUBSET Parts
          BY DEF TypeOK, Sessions
        <4> QED BY <2>5, <4>1, ContinueTypes DEF Apply
      <3>3. grades' \in [Parts -> Grades] /\ queue' \in Entries
        BY <2>5, <1>t DEF Apply, TypeOK
      <3> QED BY <2>5, <3>1, <3>2, <3>3 DEF Apply, TypeOK
    <2>6. CASE Refuse(e)
      <3>1. PICK rest \in (SUBSET session[e].todo) \ {session[e].todo} :
                Continue(e, rest, session[e].job)
        BY <2>6 DEF Refuse
      <3>2. rest \in SUBSET Parts /\ session[e].job \in BOOLEAN
        BY <3>1 DEF TypeOK, Sessions
      <3>3. /\ session' \in [Evaluators -> Sessions]
            /\ finalizing' \subseteq Handlers
            /\ \A f \in Evaluators \ {e} : session'[f] = session[f]
        BY <3>1, <3>2, ContinueTypes
      <3> QED BY <2>6, <3>3 DEF Refuse, TypeOK
    <2>7. CASE QuotaSpent(e)
      BY <2>7 DEF QuotaSpent, TypeOK
    <2> QED BY <1>6, <2>1, <2>2, <2>3, <2>4, <2>5, <2>6, <2>7 DEF EvaluatorStep
  <1>7. ASSUME NEW i \in Instructors, InstructorStep(i)
        PROVE  TypeOK'
    <2>1. CASE Claim(i)
      BY <2>1, <1>t DEF Claim, TypeOK, Reviews
    <2>2. CASE Suggest(i)
      BY <2>2, <1>t DEF Suggest, TypeOK
    <2>3. CASE Release(i)
      BY <2>3, <1>t DEF Release, TypeOK, Reviews
    <2>4. CASE SubmitGrading(i)
      <3>1. grades' \in [Parts -> Grades]
        BY <2>4 DEF SubmitGrading, TypeOK, Grades
      <3> QED BY <2>4, <3>1, <1>t DEF SubmitGrading, TypeOK, Handlers
    <2>5. ASSUME NEW p \in Parts, NEW full \in BOOLEAN, SaveDraft(i, p, full) PROVE TypeOK'
      <3>1. grades' \in [Parts -> Grades]
        BY <2>5 DEF SaveDraft, TypeOK, Grades
      <3> QED BY <2>5, <3>1, <1>t DEF SaveDraft, TypeOK, Handlers
    <2>6. ASSUME NEW resolution \in {"resolved", "rejected"}, ResolveReevaluation(i, resolution)
          PROVE  TypeOK'
      BY <2>6 DEF ResolveReevaluation, TypeOK, Claimed, Entries, Reviews
    <2> QED BY <1>7, <2>1, <2>2, <2>3, <2>4, <2>5, <2>6 DEF InstructorStep
  <1>8. ASSUME NEW h \in Handlers, Finalize(h) PROVE TypeOK'
    BY <1>8, <1>t DEF Finalize, TypeOK
  <1>9. ASSUME NEW h \in Handlers, Crash(h) PROVE TypeOK'
    BY <1>9, <1>t DEF Crash, TypeOK
  <1>10. CASE UNCHANGED vars
    BY <1>10 DEF vars, TypeOK
  <1> QED
    BY <1>1, <1>2, <1>3, <1>4, <1>5, <1>6, <1>7, <1>8, <1>9, <1>10 DEF Next

\* Every behaviour keeps to the types.
THEOREM TypeCorrect == Spec => []TypeOK
  BY TypeInit, TypeNext, PTL DEF Spec

-----------------------------------------------------------------------------
(* Published marks                                                         *)

IsPublished(status) == status \in {"graded", "ai_graded"}

LEMMA PublishedStep ==
    ASSUME TypeOK, [Next]_vars, NEW p \in Parts, IsPublished(grades[p].status)
    PROVE  IsPublished(grades'[p].status)
  <1>a. AiMark.status = "ai_graded"
    BY DEF AiMark
  <1>u. ~Untouched(p)
    BY DEF Untouched, IsPublished
  <1>g. grades \in [Parts -> Grades]
    BY DEF TypeOK
  <1>1. CASE Submit
    <2>1. PICK blank \in SUBSET {q \in Parts : Untouched(q)} :
              grades' = [q \in Parts |-> IF q \in blank THEN AiMark
                                         ELSE IF Untouched(q) THEN Unmarked ELSE grades[q]]
      BY <1>1 DEF Submit
    <2>2. p \notin blank
      BY <1>u
    <2>3. grades'[p] = grades[p]
      BY <2>1, <2>2, <1>u
    <2> QED BY <2>3
  <1>2. CASE RetrySettles
    BY <1>2, <1>a, <1>g DEF RetrySettles, IsPublished
  <1>3. ASSUME NEW e \in Evaluators, EvaluatorStep(e)
        PROVE  IsPublished(grades'[p].status)
    <2>1. ASSUME NEW q \in Parts, Trigger(e, q) PROVE IsPublished(grades'[p].status)
      BY <2>1 DEF Trigger
    <2>2. CASE BeginJob(e)
      BY <2>2, <1>a, <1>g DEF BeginJob, IsPublished
    <2>3. CASE Ask(e) \/ QuotaSpent(e) \/ Answer(e) \/ Refuse(e)
      BY <2>3 DEF Ask, QuotaSpent, Answer, Refuse
    <2>4. CASE Apply(e)
      BY <2>4, <1>a, <1>g DEF Apply, IsPublished
    <2> QED BY <1>3, <2>1, <2>2, <2>3, <2>4 DEF EvaluatorStep
  <1>4. ASSUME NEW i \in Instructors, InstructorStep(i)
        PROVE  IsPublished(grades'[p].status)
    <2>1. CASE Claim(i) \/ Suggest(i) \/ Release(i)
      BY <2>1 DEF Claim, Suggest, Release
    <2>2. CASE SubmitGrading(i)
      BY <2>2, <1>g DEF SubmitGrading, IsPublished
    <2>3. ASSUME NEW q \in Parts, NEW full \in BOOLEAN, SaveDraft(i, q, full)
          PROVE  IsPublished(grades'[p].status)
      \* A published part is corrected, so it is published again.
      BY <2>3, <1>g DEF SaveDraft, Published, IsPublished
    <2>4. ASSUME NEW resolution \in {"resolved", "rejected"}, ResolveReevaluation(i, resolution)
          PROVE  IsPublished(grades'[p].status)
      BY <2>4 DEF ResolveReevaluation
    <2> QED BY <1>4, <2>1, <2>2, <2>3, <2>4 DEF InstructorStep
  <1>5. CASE RequestReevaluation \/ ClaimAges \/ ExpireStaleClaim
    BY <1>5 DEF RequestReevaluation, ClaimAges, ExpireStaleClaim
  <1>6. ASSUME NEW h \in Handlers, Finalize(h) \/ Crash(h)
        PROVE  IsPublished(grades'[p].status)
    BY <1>6 DEF Finalize, Crash
  <1>7. CASE UNCHANGED vars
    BY <1>7 DEF vars
  <1> QED BY <1>1, <1>2, <1>3, <1>4, <1>5, <1>6, <1>7 DEF Next

\* No step takes a published mark back.
THEOREM MarksStayPublished == Spec => PublishedStaysPublished
  <1>1. TypeOK /\ [Next]_vars =>
            [\A p \in Parts : grades[p].status \in {"graded", "ai_graded"} =>
                                  grades'[p].status \in {"graded", "ai_graded"}]_vars
    BY PublishedStep DEF IsPublished
  <1> QED BY <1>1, TypeCorrect, PTL DEF Spec, PublishedStaysPublished

-----------------------------------------------------------------------------
(* Marks and claims                                                        *)

\* A mark that names instructor i comes from save_part_draft or
\* submit_grading, and both pass require_or_claim first.
LEMMA MarkedByClaimant ==
    ASSUME TypeOK, [Next]_vars, NEW i \in Instructors, NEW p \in Parts,
           grades'[p] # grades[p], grades'[p].grader = i
    PROVE  MayClaim(i)
  <1>n. AiMark.grader # i /\ Unmarked.grader # i
    BY GradingAssumption DEF AiMark, Unmarked
  <1>g. grades \in [Parts -> Grades]
    BY DEF TypeOK
  <1>1. CASE Submit
    <2>1. PICK blank \in SUBSET {q \in Parts : Untouched(q)} :
              grades' = [q \in Parts |-> IF q \in blank THEN AiMark
                                         ELSE IF Untouched(q) THEN Unmarked ELSE grades[q]]
      BY <1>1 DEF Submit
    <2>2. grades'[p] \in {AiMark, Unmarked}
      BY <2>1
    <2> QED BY <2>2, <1>n
  <1>2. CASE RetrySettles
    <2>1. grades'[p] = AiMark
      BY <1>2 DEF RetrySettles
    <2> QED BY <2>1, <1>n
  <1>3. ASSUME NEW e \in Evaluators, EvaluatorStep(e) PROVE MayClaim(i)
    <2>1. ASSUME NEW q \in Parts, Trigger(e, q) PROVE FALSE
      BY <2>1 DEF Trigger
    <2>2. CASE BeginJob(e)
      <3>1. grades'[p] = AiMark
        BY <2>2 DEF BeginJob
      <3> QED BY <3>1, <1>n
    <2>3. CASE Ask(e) \/ QuotaSpent(e) \/ Answer(e) \/ Refuse(e)
      BY <2>3 DEF Ask, QuotaSpent, Answer, Refuse
    <2>4. CASE Apply(e)
      <3>1. grades'[p] = AiMark
        BY <2>4 DEF Apply
      <3> QED BY <3>1, <1>n
    <2> QED BY <1>3, <2>1, <2>2, <2>3, <2>4 DEF EvaluatorStep
  <1>4. ASSUME NEW j \in Instructors, InstructorStep(j) PROVE MayClaim(i)
    <2>1. CASE Claim(j) \/ Suggest(j) \/ Release(j)
      BY <2>1 DEF Claim, Suggest, Release
    <2>2. CASE SubmitGrading(j)
      <3>1. grades'[p].grader = j
        BY <2>2 DEF SubmitGrading
      <3> QED BY <2>2, <3>1 DEF SubmitGrading, MayOpen
    <2>3. ASSUME NEW q \in Parts, NEW full \in BOOLEAN, SaveDraft(j, q, full)
          PROVE  MayClaim(i)
      <3>1. grades'[p].grader = j
        BY <2>3, <1>g DEF SaveDraft
      <3> QED BY <2>3, <3>1 DEF SaveDraft, MayOpen
    <2>4. ASSUME NEW resolution \in {"resolved", "rejected"}, ResolveReevaluation(j, resolution)
          PROVE  FALSE
      BY <2>4 DEF ResolveReevaluation
    <2> QED BY <1>4, <2>1, <2>2, <2>3, <2>4 DEF InstructorStep
  <1>5. CASE RequestReevaluation \/ ClaimAges \/ ExpireStaleClaim
    BY <1>5 DEF RequestReevaluation, ClaimAges, ExpireStaleClaim
  <1>6. ASSUME NEW h \in Handlers, Finalize(h) \/ Crash(h) PROVE FALSE
    BY <1>6 DEF Finalize, Crash
  <1>7. CASE UNCHANGED vars
    BY <1>7 DEF vars
  <1> QED BY <1>1, <1>2, <1>3, <1>4, <1>5, <1>6, <1>7 DEF Next

\* An instructor marks only while nobody else holds a claim that is fresh.
THEOREM MarksUnderOwnClaim == Spec => MarkedUnderOwnClaim
  <1>1. TypeOK /\ [Next]_vars =>
            [\A i \in Instructors :
                (\E p \in Parts : grades'[p] # grades[p] /\ grades'[p].grader = i)
                    => queue.owner \in {NoOne, i} \/ queue.stale]_vars
    BY MarkedByClaimant DEF MayClaim
  <1> QED BY <1>1, TypeCorrect, PTL DEF Spec, MarkedUnderOwnClaim

-----------------------------------------------------------------------------
(* The attempt, its queue entry and its reevaluation                       *)

\* The inductive invariant: the three properties support one another only
\* through the types.
Consistent == TypeOK /\ GradedIsComplete /\ CompletedMeansMarked /\ QueueAgreesWithReview

LEMMA ConsistentInit == Init => Consistent
  <1> SUFFICES ASSUME Init PROVE Consistent
    OBVIOUS
  <1>1. TypeOK
    BY TypeInit
  <1>2. GradedIsComplete /\ CompletedMeansMarked /\ QueueAgreesWithReview
    BY DEF Init, GradedIsComplete, CompletedMeansMarked, QueueAgreesWithReview
  <1> QED BY <1>1, <1>2 DEF Consistent

\* The attempt is graded by _finalize_if_all_graded alone, which looks at
\* every part, and no published mark is withdrawn afterwards.
LEMMA CompleteNext ==
    ASSUME TypeOK, GradedIsComplete, [Next]_vars
    PROVE  GradedIsComplete'
  <1> SUFFICES ASSUME attempt' = "graded", NEW p \in Parts
               PROVE  IsPublished(grades'[p].status)
    BY DEF GradedIsComplete, IsPublished
  <1>1. CASE attempt = "graded"
    <2>1. IsPublished(grades[p].status)
      BY <1>1 DEF GradedIsComplete, IsPublished
    <2> QED BY <2>1, PublishedStep
  <1>2. CASE attempt # "graded"
    <2>1. PICK h \in Handlers : Finalize(h)
      BY <1>2 DEF Next, Submit, RetrySettles, RequestReevaluation, ClaimAges, ExpireStaleClaim,
                  EvaluatorStep, Trigger, BeginJob, Ask, QuotaSpent, Answer, Apply, Refuse,
                  InstructorStep, Claim, Suggest, Release, SubmitGrading, SaveDraft,
                  ResolveReevaluation, Crash, vars
    <2> QED BY <1>2, <2>1 DEF Finalize, AllPublished, Published, IsPublished
  <1> QED BY <1>1, <1>2

\* Every writer of the entry keeps it in step with the attempt and the review.
LEMMA QueueNext ==
    ASSUME TypeOK, CompletedMeansMarked, QueueAgreesWithReview, [Next]_vars
    PROVE  CompletedMeansMarked' /\ QueueAgreesWithReview'
  <1> DEFINE Goal == CompletedMeansMarked' /\ QueueAgreesWithReview'
  <1>q. /\ queue \in Entries
        /\ Waiting.status = "pending" /\ Waiting.owner = NoOne
        /\ \A i \in Instructors : /\ Claimed(i).status = "claimed" /\ Claimed(i).owner = i
                                   /\ i # NoOne
    BY GradingAssumption DEF TypeOK, Waiting, Claimed
  <1>1. CASE Submit
    BY <1>1, <1>q DEF Submit, Queued, CompletedMeansMarked, QueueAgreesWithReview
  <1>2. CASE RetrySettles
    BY <1>2 DEF RetrySettles, CompletedMeansMarked, QueueAgreesWithReview
  <1>3. CASE RequestReevaluation
    BY <1>3, <1>q DEF RequestReevaluation, CompletedMeansMarked, QueueAgreesWithReview
  <1>4. CASE ClaimAges
    <2>1. queue'.status = queue.status /\ queue'.owner = queue.owner
      BY <1>4, <1>q DEF ClaimAges, Entries
    <2> QED BY <1>4, <2>1 DEF ClaimAges, CompletedMeansMarked, QueueAgreesWithReview
  <1>5. CASE ExpireStaleClaim
    BY <1>5, <1>q DEF ExpireStaleClaim, ReviewIsOpen, CompletedMeansMarked, QueueAgreesWithReview
  <1>6. ASSUME NEW e \in Evaluators, EvaluatorStep(e)
        PROVE  Goal
    <2>1. attempt' = attempt /\ review' = review /\ queue' \in {queue, Queued}
      BY <1>6 DEF EvaluatorStep, Trigger, BeginJob, Ask, QuotaSpent, Answer, Apply, Refuse
    <2> QED BY <2>1, <1>q DEF Queued, CompletedMeansMarked, QueueAgreesWithReview
  <1>7. ASSUME NEW i \in Instructors, InstructorStep(i)
        PROVE  Goal
    <2>1. CASE Claim(i)
      BY <2>1, <1>q DEF Claim, ReviewIsOpen, CompletedMeansMarked, QueueAgreesWithReview
    <2>2. CASE Suggest(i) \/ SubmitGrading(i) \/ \E p \in Parts, full \in BOOLEAN : SaveDraft(i, p, full)
      <3>1. queue' = Claimed(i)
        BY <2>2 DEF Suggest, SubmitGrading, SaveDraft
      <3> QED BY <3>1, <1>q DEF CompletedMeansMarked, QueueAgreesWithReview
    <2>3. CASE Release(i)
      BY <2>3, <1>q DEF Release, ReviewIsOpen, CompletedMeansMarked, QueueAgreesWithReview
    <2>4. ASSUME NEW resolution \in {"resolved", "rejected"}, ResolveReevaluation(i, resolution)
          PROVE  Goal
      <3>1. /\ queue'.status = "completed" /\ queue'.owner = i
            /\ review'.status = resolution
        BY <2>4 DEF ResolveReevaluation, Claimed
      <3> QED BY <3>1, <1>q DEF CompletedMeansMarked, QueueAgreesWithReview
    <2> QED BY <1>7, <2>1, <2>2, <2>3, <2>4 DEF InstructorStep
  <1>8. ASSUME NEW h \in Handlers, Finalize(h)
        PROVE  Goal
    <2>1. CASE attempt = "grading" /\ AllPublished
      <3>1. attempt' = "graded" /\ queue' = Completed /\ review' = review
        BY <1>8, <2>1 DEF Finalize
      <3>2. /\ Completed.owner = queue.owner
            /\ ~ReviewIsOpen => Completed.status = "completed"
            /\ ReviewIsOpen => Completed.status = IF queue.owner # NoOne THEN "claimed" ELSE "pending"
        <4> HIDE DEF ReviewIsOpen
        <4>1. CASE ReviewIsOpen
          BY <4>1, <1>q DEF Completed, Entries
        <4>2. CASE ~ReviewIsOpen
          BY <4>2, <1>q DEF Completed, Entries
        <4> QED BY <4>1, <4>2
      <3>3. CompletedMeansMarked'
        BY <3>1 DEF CompletedMeansMarked
      <3>4. review.status = "in_review" => queue.owner # NoOne
        BY DEF QueueAgreesWithReview
      <3>5. QueueAgreesWithReview'
        BY <3>1, <3>2, <3>4 DEF QueueAgreesWithReview, ReviewIsOpen
      <3> QED BY <3>3, <3>5
    <2>2. CASE ~(attempt = "grading" /\ AllPublished)
      BY <1>8, <2>2 DEF Finalize, CompletedMeansMarked, QueueAgreesWithReview
    <2> QED BY <2>1, <2>2
  <1>9. ASSUME NEW h \in Handlers, Crash(h)
        PROVE  Goal
    BY <1>9 DEF Crash, CompletedMeansMarked, QueueAgreesWithReview
  <1>10. CASE UNCHANGED vars
    BY <1>10 DEF vars, CompletedMeansMarked, QueueAgreesWithReview
  <1> QED BY <1>1, <1>2, <1>3, <1>4, <1>5, <1>6, <1>7, <1>8, <1>9, <1>10 DEF Next

LEMMA ConsistentNext == Consistent /\ [Next]_vars => Consistent'
  BY TypeNext, CompleteNext, QueueNext DEF Consistent

\* A graded attempt is marked in every part.
THEOREM GradedAttemptsAreComplete == Spec => []GradedIsComplete
  <1>1. Consistent => GradedIsComplete
    BY DEF Consistent
  <1> QED BY <1>1, ConsistentInit, ConsistentNext, PTL DEF Spec

\* The queue calls an attempt done only when it is, or when a reevaluation
\* was closed.
THEOREM CompletedAttemptsAreMarked == Spec => []CompletedMeansMarked
  <1>1. Consistent => CompletedMeansMarked
    BY DEF Consistent
  <1> QED BY <1>1, ConsistentInit, ConsistentNext, PTL DEF Spec

\* Queue entry and reevaluation agree about who is at work.
THEOREM QueueAndReviewAgree == Spec => []QueueAgreesWithReview
  <1>1. Consistent => QueueAgreesWithReview
    BY DEF Consistent
  <1> QED BY <1>1, ConsistentInit, ConsistentNext, PTL DEF Spec

-----------------------------------------------------------------------------
(* Grading implements Marking                                              *)

\* What marks[p] is in the instance, before and after a step.
LEMMA ShownMarks ==
    ASSUME NEW S \in SUBSET Parts, UNCHANGED attempt,
           \A p \in S : Published(grades'[p]),
           \A p \in Parts \ S : grades'[p] = grades[p]
    PROVE  Shown!Publish
  <1>1. [p \in Parts |-> MarkShown(grades[p])]' =
            [p \in Parts |-> IF p \in S THEN "published"
                             ELSE [q \in Parts |-> MarkShown(grades[q])][p]]
    BY DEF MarkShown, Published
  <1>2. StageShown' = StageShown
    BY DEF StageShown
  <1> QED BY <1>1, <1>2 DEF Shown!Publish

\* Steps that touch neither the attempt nor the grades stutter.
LEMMA ShownStutters ==
    ASSUME UNCHANGED <<attempt, grades>> PROVE UNCHANGED Shown!vars
  BY DEF Shown!vars, StageShown, MarkShown, Published

LEMMA ShownInit == Init => Shown!Init
  BY DEF Init, Shown!Init, StageShown, MarkShown, Published

\* Every step of the handlers is a step of Marking, or is not seen.
LEMMA ShownNext == TypeOK /\ [Next]_vars => [Shown!Next]_(Shown!vars)
  <1> SUFFICES ASSUME TypeOK, [Next]_vars PROVE Shown!Next \/ UNCHANGED Shown!vars
    OBVIOUS
  <1>g. grades \in [Parts -> Grades]
    BY DEF TypeOK
  <1>a. Published(AiMark)
    BY DEF AiMark, Published
  <1>p. ASSUME UNCHANGED attempt,
               \A p \in Parts : Published(grades'[p]) \/ grades'[p] = grades[p]
        PROVE  Shown!Next
    <2> DEFINE S == {p \in Parts : Published(grades'[p])}
    <2>1. S \in SUBSET Parts /\ (\A p \in S : Published(grades'[p]))
                             /\ \A p \in Parts \ S : grades'[p] = grades[p]
      BY <1>p
    <2> HIDE DEF S
    <2>2. Shown!Publish
      BY <2>1, <1>p, ShownMarks
    <2> QED BY <2>2 DEF Shown!Next
  <1>1. CASE Submit
    <2>1. PICK blank \in SUBSET {q \in Parts : Untouched(q)} :
              grades' = [q \in Parts |-> IF q \in blank THEN AiMark
                                         ELSE IF Untouched(q) THEN Unmarked ELSE grades[q]]
      BY <1>1 DEF Submit
    <2>2. StageShown = "sitting" /\ StageShown' = "marking"
      BY <1>1 DEF Submit, StageShown
    <2>3. [p \in Parts |-> MarkShown(grades[p])]' =
              [p \in Parts |-> IF p \in blank THEN "published"
                               ELSE [q \in Parts |-> MarkShown(grades[q])][p]]
      <3>1. ASSUME NEW p \in Parts
            PROVE  MarkShown(grades'[p]) = IF p \in blank THEN "published" ELSE MarkShown(grades[p])
        BY <2>1, <1>a DEF MarkShown, Published, Untouched, Unmarked
      <3> QED BY <3>1
    <2>4. Shown!HandIn
      BY <2>2, <2>3 DEF Shown!HandIn
    <2> QED BY <2>4 DEF Shown!Next
  <1>2. CASE RetrySettles
    BY <1>2, <1>p, <1>a DEF RetrySettles
  <1>3. ASSUME NEW e \in Evaluators, EvaluatorStep(e)
        PROVE  Shown!Next \/ UNCHANGED Shown!vars
    <2>1. ASSUME NEW q \in Parts, Trigger(e, q) PROVE UNCHANGED Shown!vars
      BY <2>1, ShownStutters DEF Trigger
    <2>2. CASE BeginJob(e)
      BY <2>2, <1>p, <1>a DEF BeginJob
    <2>3. CASE Ask(e) \/ QuotaSpent(e) \/ Answer(e) \/ Refuse(e)
      BY <2>3, ShownStutters DEF Ask, QuotaSpent, Answer, Refuse
    <2>4. CASE Apply(e)
      BY <2>4, <1>p, <1>a DEF Apply
    <2> QED BY <1>3, <2>1, <2>2, <2>3, <2>4 DEF EvaluatorStep
  <1>4. ASSUME NEW i \in Instructors, InstructorStep(i)
        PROVE  Shown!Next \/ UNCHANGED Shown!vars
    <2>1. CASE Claim(i) \/ Suggest(i) \/ Release(i)
      BY <2>1, ShownStutters DEF Claim, Suggest, Release
    <2>2. CASE SubmitGrading(i)
      BY <2>2, <1>p DEF SubmitGrading, Published
    <2>3. ASSUME NEW q \in Parts, NEW full \in BOOLEAN, SaveDraft(i, q, full)
          PROVE  Shown!Next
      <3> DEFINE correction == attempt = "graded" \/ Published(grades[q])
      <3>1. UNCHANGED attempt /\ attempt \in {"grading", "graded"} /\
            grades' = [grades EXCEPT ![q] =
                [status |-> IF correction THEN "graded" ELSE "draft", grader |-> i, full |-> full]]
        BY <2>3 DEF SaveDraft
      <3>2. CASE correction
        BY <3>1, <3>2, <1>g, <1>p DEF Published
      <3>3. CASE ~correction
        <4>1. StageShown = "marking" /\ StageShown' = StageShown
          BY <3>1, <3>3 DEF StageShown
        <4>2. ASSUME NEW p \in Parts
              PROVE  MarkShown(grades'[p]) = IF p = q THEN "drafted" ELSE MarkShown(grades[p])
          BY <3>1, <3>3, <1>g DEF MarkShown, Published
        <4>3. [p \in Parts |-> MarkShown(grades[p])]' =
                  [[p \in Parts |-> MarkShown(grades[p])] EXCEPT ![q] = "drafted"]
          BY <4>2
        <4>4. MarkShown(grades[q]) # "published"
          BY <3>3 DEF MarkShown
        <4> HIDE DEF correction
        <4>5. Shown!Draft(q)
          BY <4>1, <4>3, <4>4 DEF Shown!Draft
        <4> QED BY <4>5 DEF Shown!Next
      <3> QED BY <3>2, <3>3
    <2>4. ASSUME NEW resolution \in {"resolved", "rejected"}, ResolveReevaluation(i, resolution)
          PROVE  UNCHANGED Shown!vars
      BY <2>4, ShownStutters DEF ResolveReevaluation
    <2> QED BY <1>4, <2>1, <2>2, <2>3, <2>4 DEF InstructorStep
  <1>5. CASE RequestReevaluation \/ ClaimAges \/ ExpireStaleClaim
    BY <1>5, ShownStutters DEF RequestReevaluation, ClaimAges, ExpireStaleClaim
  <1>6. ASSUME NEW h \in Handlers, Finalize(h)
        PROVE  Shown!Next \/ UNCHANGED Shown!vars
    <2>1. CASE attempt = "grading" /\ AllPublished
      <3>1. StageShown = "marking" /\ StageShown' = "shown"
        BY <1>6, <2>1 DEF Finalize, StageShown
      <3>2. \A p \in Parts : MarkShown(grades[p]) = "published"
        BY <2>1 DEF AllPublished, MarkShown
      <3>3. UNCHANGED grades
        BY <1>6 DEF Finalize
      <3>4. Shown!Show
        BY <3>1, <3>2, <3>3 DEF Shown!Show
      <3> QED BY <3>4 DEF Shown!Next
    <2>2. CASE ~(attempt = "grading" /\ AllPublished)
      BY <1>6, <2>2, ShownStutters DEF Finalize
    <2> QED BY <2>1, <2>2
  <1>7. ASSUME NEW h \in Handlers, Crash(h) PROVE UNCHANGED Shown!vars
    BY <1>7, ShownStutters DEF Crash
  <1>8. CASE UNCHANGED vars
    BY <1>8, ShownStutters DEF vars
  <1> QED BY <1>1, <1>2, <1>3, <1>4, <1>5, <1>6, <1>7, <1>8 DEF Next

\* The rows, read as the student sees them, behave as Marking promises.
THEOREM GradingImplementsMarking == Spec => ImplementsMarking
  <1>1. Init => Shown!Init
    BY ShownInit
  <1>2. TypeOK /\ [Next]_vars => [Shown!Next]_(Shown!vars)
    BY ShownNext
  <1> QED BY <1>1, <1>2, TypeCorrect, PTL DEF Spec, ImplementsMarking, Shown!Spec

-----------------------------------------------------------------------------
(* JobQueue: the rows                                                      *)

\* A step that neither inserts a row nor rewrites who inserted it leaves the
\* sets of rows and of automatic rows alone.
LEMMA SameRows ==
    ASSUME \A j \in JobIds : /\ jobs'[j].by = jobs[j].by
                             /\ jobs'[j].status = "none" <=> jobs[j].status = "none"
    PROVE  Rows' = Rows /\ Automatic' = Automatic
  BY DEF Rows, Automatic

\* Rows are inserted in order: Enqueue adds one, behind those that are there.
LEMMA OneMoreRow ==
    ASSUME JobsTypeOK, NEW c \in Callers, Enqueue(c)
    PROVE  \E j \in JobIds :
              /\ NextRow(j)
              /\ jobs' \in [JobIds -> JobRows]
              /\ jobs' = [jobs EXCEPT ![j] = [status |-> "pending", by |-> c]]
              /\ Rows' = Rows \union {j}
              /\ Automatic' = IF c \in Processes THEN Automatic \union {j} ELSE Automatic
  <1>1. PICK j \in JobIds :
            /\ NextRow(j)
            /\ jobs' = [jobs EXCEPT ![j] = [status |-> "pending", by |-> c]]
    BY DEF Enqueue
  <1>2. [status |-> "pending", by |-> c] \in JobRows
    BY DEF JobRows, Statuses
  <1>3. jobs' \in [JobIds -> JobRows]
    BY <1>1, <1>2 DEF JobsTypeOK
  <1>4. /\ jobs'[j].status = "pending" /\ jobs'[j].by = c
        /\ \A k \in JobIds \ {j} : jobs'[k] = jobs[k]
    BY <1>1 DEF JobsTypeOK
  <1>5. Rows' = Rows \union {j}
    BY <1>4 DEF Rows
  <1>6. Automatic' = IF c \in Processes THEN Automatic \union {j} ELSE Automatic
    BY <1>1, <1>4, <1>5 DEF Automatic, NextRow
  <1> QED BY <1>1, <1>3, <1>5, <1>6

\* A job a worker is executing has a row, so finishing it inserts none: the
\* types are inductive only together with OneWorkerPerJob.
LEMMA StatusSteps ==
    ASSUME JobsTypeOK, OneWorkerPerJob, NEW w \in Processes, Work(w) \/ Restart(w)
    PROVE  /\ jobs' \in [JobIds -> JobRows]
           /\ Rows' = Rows /\ Automatic' = Automatic
  <1> DEFINE Goal == /\ jobs' \in [JobIds -> JobRows]
                     /\ \A j \in JobIds : /\ jobs'[j].by = jobs[j].by
                                          /\ jobs'[j].status = "none" <=> jobs[j].status = "none"
  <1> SUFFICES Goal
    BY SameRows
  <1>t. \A j \in JobIds : jobs[j] \in JobRows
    BY DEF JobsTypeOK
  <1>1. CASE TakeJob(w)
    <2>1. PICK j \in JobIds : NextPending(j) /\ jobs' = [jobs EXCEPT ![j].status = "running"]
      BY <1>1 DEF TakeJob
    <2> QED BY <2>1, <1>t DEF JobsTypeOK, JobRows, Statuses, NextPending
  <1>2. ASSUME NEW status \in {"done", "failed"}, FinishJob(w, status)
        PROVE  Goal
    <2> DEFINE j == working[w]
    <2>1. /\ j \in JobIds /\ jobs[j].status # "none"
          /\ jobs' = [jobs EXCEPT ![j].status = status]
      BY <1>2 DEF FinishJob, JobsTypeOK, OneWorkerPerJob
    <2> HIDE DEF j
    <2> QED BY <2>1, <1>t DEF JobsTypeOK, JobRows, Statuses
  <1>3. CASE Restart(w)
    BY <1>3, <1>t DEF Restart, JobsTypeOK, JobRows, Statuses
  <1> QED BY <1>1, <1>2, <1>3 DEF Work

-----------------------------------------------------------------------------
(* Types, and one worker per job                                           *)

JobsInv == JobsTypeOK /\ OneWorkerPerJob

LEMMA JobsInvInit == JobsInit => JobsInv
  BY JobQueueAssumption DEF JobsInit, JobsInv, JobsTypeOK, OneWorkerPerJob, JobRows, NoRow, Statuses, Rows

LEMMA JobsTypeNext ==
    ASSUME JobsTypeOK, OneWorkerPerJob, [JobsNext]_jobsVars
    PROVE  JobsTypeOK'
  <1>r. \A j, k \in JobIds : j < k /\ k \in Rows => j \in Rows
    BY DEF JobsTypeOK
  <1>1. ASSUME NEW c \in Requests, RequestMarking(c) PROVE JobsTypeOK'
    BY <1>1, SameRows DEF RequestMarking, JobsTypeOK, Callers
  <1>2. ASSUME NEW w \in Processes, SchedulerTick(w) PROVE JobsTypeOK'
    BY <1>2, SameRows DEF SchedulerTick, JobsTypeOK, Callers
  <1>3. ASSUME NEW c \in Callers, Enqueue(c) PROVE JobsTypeOK'
    <2>1. PICK j \in JobIds : /\ NextRow(j)
                              /\ jobs' \in [JobIds -> JobRows]
                              /\ Rows' = Rows \union {j}
      BY <1>3, OneMoreRow
    <2>2. \A i, k \in JobIds : i < k /\ k \in Rows' => i \in Rows'
      BY <2>1, <1>r DEF NextRow
    <2> QED BY <1>3, <2>1, <2>2 DEF Enqueue, JobsTypeOK
  <1>4. ASSUME NEW w \in Processes, Work(w) \/ Restart(w) PROVE JobsTypeOK'
    <2>1. jobs' \in [JobIds -> JobRows] /\ Rows' = Rows
      BY <1>4, StatusSteps
    <2>2. /\ up' \subseteq Processes /\ deciding' \subseteq Callers
          /\ working' \in [Processes -> JobIds \union {NoJob}]
          /\ unmarked' \in BOOLEAN /\ cooled' \in BOOLEAN
          /\ crashes' = crashes /\ broken' = broken
      <3>1. CASE TakeJob(w)
        BY <3>1 DEF TakeJob, JobsTypeOK
      <3>2. CASE \E status \in {"done", "failed"} : FinishJob(w, status)
        BY <3>2 DEF FinishJob, JobsTypeOK
      <3>3. CASE Restart(w)
        BY <3>3 DEF Restart, JobsTypeOK
      <3> QED BY <1>4, <3>1, <3>2, <3>3 DEF Work
    <2> QED BY <2>1, <2>2, <1>r DEF JobsTypeOK
  <1>5. ASSUME NEW w \in Processes, LoseOutcome(w) PROVE JobsTypeOK'
    <2>1. broken' \in 0..MaxBroken
      BY <1>5, JobQueueAssumption DEF LoseOutcome, JobsTypeOK
    <2> QED BY <1>5, <2>1, SameRows DEF LoseOutcome, JobsTypeOK
  <1>6. ASSUME NEW w \in Processes, CrashProcess(w) PROVE JobsTypeOK'
    <2>1. crashes' \in 0..MaxCrashes
      BY <1>6, JobQueueAssumption DEF CrashProcess, JobsTypeOK
    <2> QED BY <1>6, <2>1, SameRows DEF CrashProcess, JobsTypeOK
  <1>7. CASE MarkByHand \/ CoolDown \/ UNCHANGED jobsVars
    BY <1>7, SameRows DEF MarkByHand, CoolDown, jobsVars, JobsTypeOK
  <1> QED BY <1>1, <1>2, <1>3, <1>4, <1>5, <1>6, <1>7 DEF JobsNext

LEMMA OneWorkerNext ==
    ASSUME JobsTypeOK, OneWorkerPerJob, [JobsNext]_jobsVars
    PROVE  OneWorkerPerJob'
  <1>w. \A w \in Processes : working[w] # NoJob =>
            /\ w \in up /\ working[w] \in JobIds
            /\ jobs[working[w]].status \notin {"none", "pending"}
            /\ \A v \in Processes \ {w} : working[v] # working[w]
    BY DEF OneWorkerPerJob, JobsTypeOK
  <1>1. ASSUME NEW c \in Callers, Enqueue(c) PROVE OneWorkerPerJob'
    \* The new row is nobody's.
    <2>1. PICK j \in JobIds : /\ NextRow(j)
                              /\ jobs' = [jobs EXCEPT ![j] = [status |-> "pending", by |-> c]]
      BY <1>1 DEF Enqueue
    <2>2. \A w \in Processes : working[w] # NoJob => jobs'[working[w]] = jobs[working[w]]
      BY <2>1, <1>w DEF JobsTypeOK, NextRow, Rows
    <2> QED BY <1>1, <2>2, <1>w DEF Enqueue, OneWorkerPerJob
  <1>2. ASSUME NEW w \in Processes, TakeJob(w) PROVE OneWorkerPerJob'
    \* A pending job is nobody's.
    <2>1. PICK j \in JobIds : /\ jobs[j].status = "pending"
                              /\ jobs' = [jobs EXCEPT ![j].status = "running"]
                              /\ working' = [working EXCEPT ![w] = j]
      BY <1>2 DEF TakeJob, NextPending
    <2>2. \A v \in Processes \ {w} : working'[v] = working[v] /\ working'[v] # j
      BY <2>1, <1>w, JobQueueAssumption DEF JobsTypeOK, JobIds
    <2>3. jobs'[j].status = "running" /\ \A k \in JobIds \ {j} : jobs'[k] = jobs[k]
      BY <2>1 DEF JobsTypeOK, JobRows
    <2> QED BY <1>2, <2>1, <2>2, <2>3, <1>w DEF TakeJob, OneWorkerPerJob, JobsTypeOK
  <1>3. ASSUME NEW w \in Processes, NEW status \in {"done", "failed"}, FinishJob(w, status)
        PROVE  OneWorkerPerJob'
    <2>1. /\ jobs' = [jobs EXCEPT ![working[w]].status = status]
          /\ working' = [working EXCEPT ![w] = NoJob] /\ up' = up
      BY <1>3 DEF FinishJob
    <2>2. \A v \in Processes \ {w} : working[v] # NoJob => jobs'[working[v]] = jobs[working[v]]
      BY <1>3, <2>1, <1>w DEF JobsTypeOK, FinishJob
    <2> QED BY <2>1, <2>2, <1>w DEF OneWorkerPerJob, JobsTypeOK
  <1>4. ASSUME NEW w \in Processes, Restart(w) PROVE OneWorkerPerJob'
    <2>1. \A j \in JobIds : jobs[j].status \notin {"none", "pending"}
                              => jobs'[j].status \notin {"none", "pending"}
      BY <1>4 DEF Restart, JobsTypeOK, JobRows
    <2> QED BY <1>4, <2>1, <1>w DEF Restart, OneWorkerPerJob
  <1>5. ASSUME NEW w \in Processes, LoseOutcome(w) \/ CrashProcess(w) PROVE OneWorkerPerJob'
    <2>1. /\ working' = [working EXCEPT ![w] = NoJob] /\ jobs' = jobs
          /\ up' \in {up, up \ {w}}
      BY <1>5 DEF LoseOutcome, CrashProcess
    <2> QED BY <2>1, <1>w DEF OneWorkerPerJob, JobsTypeOK
  <1>6. ASSUME UNCHANGED <<jobs, up, working>> PROVE OneWorkerPerJob'
    BY <1>6 DEF OneWorkerPerJob
  <1> QED BY <1>1, <1>2, <1>3, <1>4, <1>5, <1>6
          DEF JobsNext, Work, RequestMarking, SchedulerTick, MarkByHand, CoolDown, jobsVars

LEMMA JobsInvNext == JobsInv /\ [JobsNext]_jobsVars => JobsInv'
  BY JobsTypeNext, OneWorkerNext DEF JobsInv

\* Every behaviour keeps to the types.
THEOREM JobsTypeCorrect == JobsSpec => []JobsTypeOK
  <1>1. JobsInv => JobsTypeOK
    BY DEF JobsInv
  <1> QED BY <1>1, JobsInvInit, JobsInvNext, PTL DEF JobsSpec

\* A job is executed by one process at a time, whatever crashes, restarts and
\* lost outcomes do to its row.
THEOREM JobsHaveOneWorker == JobsSpec => []OneWorkerPerJob
  <1>1. JobsInv => OneWorkerPerJob
    BY DEF JobsInv
  <1> QED BY <1>1, JobsInvInit, JobsInvNext, PTL DEF JobsSpec

-----------------------------------------------------------------------------
(* The retry budget                                                        *)

Pending == deciding \intersect up
Allowed == AI_MAX_AUTOMATIC_ATTEMPTS - 1 + Cardinality(Processes)

\* RetryBudget is inductive once no dead process is about to insert a row.
Budget == RetryBudget /\ deciding \intersect Processes \subseteq up

LEMMA FiniteRows ==
    ASSUME JobsTypeOK
    PROVE  /\ IsFiniteSet(Rows) /\ IsFiniteSet(Automatic) /\ IsFiniteSet(Pending)
           /\ Cardinality(Rows) \in Nat /\ Cardinality(Automatic) \in Nat
           /\ Cardinality(Pending) \in Nat /\ Cardinality(Processes) \in Nat
           /\ Cardinality(Automatic) <= Cardinality(Rows)
           /\ Allowed \in Nat
  <1>1. IsFiniteSet(JobIds)
    BY JobQueueAssumption, FS_Interval DEF JobIds
  <1>2. Rows \in SUBSET JobIds /\ Automatic \in SUBSET Rows /\ Pending \in SUBSET Processes
    BY DEF Rows, Automatic, Pending, JobsTypeOK
  <1>3. IsFiniteSet(Rows)
    BY <1>1, <1>2, FS_Subset
  <1>4. IsFiniteSet(Automatic) /\ Cardinality(Automatic) <= Cardinality(Rows)
    BY <1>2, <1>3, FS_Subset
  <1>5. IsFiniteSet(Pending)
    BY <1>2, JobQueueAssumption, FS_Subset
  <1>6. /\ Cardinality(Rows) \in Nat /\ Cardinality(Automatic) \in Nat
        /\ Cardinality(Pending) \in Nat /\ Cardinality(Processes) \in Nat
    BY <1>3, <1>4, <1>5, JobQueueAssumption, FS_CardinalityType
  <1>7. Allowed \in Nat
    BY <1>6, JobQueueAssumption DEF Allowed
  <1> QED BY <1>3, <1>4, <1>5, <1>6, <1>7

LEMMA BudgetInit == JobsInit => Budget
  <1> SUFFICES ASSUME JobsInit PROVE Budget
    OBVIOUS
  <1>1. Automatic = {} /\ Pending = {}
    BY DEF JobsInit, Automatic, Rows, NoRow, Pending
  <1>2. JobsTypeOK
    BY JobsInvInit DEF JobsInv
  <1>3. Cardinality(Automatic) = 0 /\ Cardinality(Pending) = 0
    BY <1>1, FS_EmptySet
  <1>4. Cardinality(Automatic) + Cardinality(Pending) <= Allowed
    BY <1>2, <1>3, FiniteRows
  <1> QED BY <1>4 DEF Budget, RetryBudget, JobsInit, Pending, Allowed

\* A scheduler may decide only below the budget, and each decides for one run
\* at a time; what it then inserts it had decided.
LEMMA BudgetNext ==
    ASSUME JobsTypeOK, JobsTypeOK', OneWorkerPerJob, Budget, [JobsNext]_jobsVars
    PROVE  Budget'
  <1>b. Cardinality(Automatic) + Cardinality(Pending) <= Allowed
    BY DEF Budget, RetryBudget, Pending, Allowed
  <1>d. deciding \intersect Processes \subseteq up
    BY DEF Budget
  <1> SUFFICES /\ Cardinality(Automatic') + Cardinality(Pending') <= Allowed
               /\ deciding' \intersect Processes \subseteq up'
    BY DEF Budget, RetryBudget, Pending, Allowed
  <1>n. /\ IsFiniteSet(Automatic) /\ IsFiniteSet(Pending) /\ Allowed \in Nat
        /\ Cardinality(Automatic) \in Nat /\ Cardinality(Pending) \in Nat
        /\ Cardinality(Processes) \in Nat
        /\ Cardinality(Rows) \in Nat /\ Cardinality(Automatic) <= Cardinality(Rows)
    BY FiniteRows
  <1>p. \A S \in SUBSET Processes : Cardinality(S) \in Nat /\ Cardinality(S) <= Cardinality(Processes)
    BY JobQueueAssumption, FS_Subset, FS_CardinalityType
  <1>s. ASSUME Automatic' = Automatic, Pending' \subseteq Pending
        PROVE  Cardinality(Automatic') + Cardinality(Pending') <= Allowed
    <2>1. Cardinality(Pending') <= Cardinality(Pending) /\ Cardinality(Pending') \in Nat
      BY <1>s, <1>n, FS_Subset, FS_CardinalityType
    <2> QED BY <1>s, <1>b, <1>n, <2>1
  <1>1. ASSUME NEW c \in Requests, RequestMarking(c)
        PROVE  /\ Automatic' = Automatic /\ Pending' = Pending
               /\ deciding' \intersect Processes \subseteq up'
    <2>1. c \notin Processes
      BY JobQueueAssumption
    <2> QED BY <1>1, <1>d, <2>1, SameRows DEF RequestMarking, Pending, JobsTypeOK
  <1>2. ASSUME NEW w \in Processes, SchedulerTick(w)
        PROVE  /\ Cardinality(Automatic') + Cardinality(Pending') <= Allowed
               /\ deciding' \intersect Processes \subseteq up'
    <2>1. Automatic' = Automatic
      BY <1>2, SameRows DEF SchedulerTick
    <2>2. Cardinality(Rows) <= AI_MAX_AUTOMATIC_ATTEMPTS - 1
      BY <1>2, <1>n, JobQueueAssumption DEF SchedulerTick
    <2>3. Pending' \in SUBSET Processes
      BY <1>2 DEF SchedulerTick, Pending, JobsTypeOK
    <2>4. Cardinality(Pending') \in Nat /\ Cardinality(Pending') <= Cardinality(Processes)
      BY <2>3, <1>p
    <2>5. Cardinality(Automatic') + Cardinality(Pending') <= Allowed
      BY <2>1, <2>2, <2>4, <1>n, JobQueueAssumption DEF Allowed
    <2> QED BY <1>2, <2>5, <1>d DEF SchedulerTick
  <1>3. ASSUME NEW c \in Callers, Enqueue(c)
        PROVE  /\ Cardinality(Automatic') + Cardinality(Pending') <= Allowed
               /\ deciding' \intersect Processes \subseteq up'
    <2>1. PICK j \in JobIds :
              Automatic' = IF c \in Processes THEN Automatic \union {j} ELSE Automatic
      BY <1>3, OneMoreRow
    <2>2. Pending' = Pending \ {c} /\ deciding' \intersect Processes \subseteq up'
      BY <1>3, <1>d DEF Enqueue, Pending
    <2>3. CASE c \in Processes
      <3>1. c \in Pending
        BY <1>3, <1>d, <2>3 DEF Enqueue, Pending
      <3>2. Cardinality(Pending') = Cardinality(Pending) - 1
        BY <2>2, <3>1, <1>n, FS_RemoveElement
      <3>3. Cardinality(Automatic') \in Nat /\ Cardinality(Automatic') <= Cardinality(Automatic) + 1
        <4>1. Automatic' = Automatic \union {j}
          BY <2>1, <2>3
        <4>2. Cardinality(Automatic \union {j})
                 = IF j \in Automatic THEN Cardinality(Automatic) ELSE Cardinality(Automatic) + 1
          BY <1>n, FS_AddElement
        <4> QED BY <4>1, <4>2, <1>n
      <3>4. Cardinality(Automatic') + Cardinality(Pending') <= Allowed
        BY <3>2, <3>3, <1>b, <1>n
      <3> QED BY <2>2, <3>4
    <2>4. CASE c \notin Processes
      BY <2>1, <2>2, <2>4, <1>s
    <2> QED BY <2>3, <2>4
  <1>4. ASSUME NEW w \in Processes, Work(w) \/ Restart(w)
        PROVE  /\ Automatic' = Automatic /\ Pending' = Pending
               /\ deciding' \intersect Processes \subseteq up'
    <2>1. Automatic' = Automatic
      BY <1>4, StatusSteps
    <2>2. deciding' = deciding /\ (up' = up \/ (w \notin up /\ up' = up \union {w}))
      BY <1>4 DEF Work, TakeJob, FinishJob, Restart
    <2>3. w \notin up => w \notin deciding
      BY <1>d
    <2> QED BY <2>1, <2>2, <2>3, <1>d DEF Pending
  <1>5. ASSUME NEW w \in Processes, LoseOutcome(w)
        PROVE  /\ Automatic' = Automatic /\ Pending' = Pending
               /\ deciding' \intersect Processes \subseteq up'
    BY <1>5, <1>d, SameRows DEF LoseOutcome, Pending
  <1>6. ASSUME NEW w \in Processes, CrashProcess(w)
        PROVE  /\ Automatic' = Automatic /\ Pending' \subseteq Pending
               /\ deciding' \intersect Processes \subseteq up'
    <2>1. PICK served \in SUBSET Requests : deciding' = deciding \ ({w} \union served)
      BY <1>6 DEF CrashProcess
    <2> QED BY <1>6, <2>1, <1>d, SameRows DEF CrashProcess, Pending
  <1>7. ASSUME UNCHANGED <<jobs, up, deciding>>
        PROVE  /\ Automatic' = Automatic /\ Pending' = Pending
               /\ deciding' \intersect Processes \subseteq up'
    BY <1>7, <1>d, SameRows DEF Pending
  <1> QED BY <1>s, <1>1, <1>2, <1>3, <1>4, <1>5, <1>6, <1>7 DEF JobsNext, MarkByHand, CoolDown, jobsVars

\* However many schedulers race, the automatic runs of one attempt stay within
\* the budget and one more for every process but one.
THEOREM RunsStayInBudget == JobsSpec => []RetryBudget
  <1>1. JobsInv /\ Budget /\ [JobsNext]_jobsVars => JobsInv' /\ Budget'
    BY JobsInvNext, BudgetNext DEF JobsInv
  <1>2. JobsInit => JobsInv /\ Budget
    BY JobsInvInit, BudgetInit
  <1>3. JobsInv /\ Budget => RetryBudget
    BY DEF Budget
  <1> QED BY <1>1, <1>2, <1>3, PTL DEF JobsSpec
=============================================================================
