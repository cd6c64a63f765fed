---------------------------- MODULE ExamSession ----------------------------
(***************************************************************************)
(* A paper being sat in the browser: the page of                           *)
(* frontend/src/pages/student/TestRunner/index.tsx that collects, debounces*)
(* and saves answers, seals the written paper and submits, against the     *)
(* handlers of backend/app/services/attempt_service.py it calls.           *)
(*                                                                         *)
(* The paper has written questions and, once it is sealed, spoken ones.    *)
(* A handler that saves loads the rows and commits in two steps; requests  *)
(* overtake each other, fail on the way, and outlive the page that sent    *)
(* them.  An answer is the number of the edit that made it, 0 is blank.    *)
(***************************************************************************)
EXTENDS Naturals, FiniteSets

CONSTANTS
    Written, Spoken,   \* the questions before and after the seal
    MaxEdits,          \* edits of a written question
    MaxTakes,          \* recordings of a spoken one
    MaxFetches,        \* answers to clicks on a part that are under way at once
    MaxReloads

ASSUME ExamAssumption ==
    /\ Written \intersect Spoken = {}
    /\ MaxEdits \in Nat /\ MaxTakes \in Nat /\ MaxFetches \in Nat /\ MaxReloads \in Nat

VARIABLES
    \* the server
    status,     \* test_attempts.status: in_progress, submitted or expired
    phase,      \* content_snapshot["phase"]: main, speaking or pending
    overdue,    \* expires_at has passed
    stored,     \* attempt_answers: response and revision by question
    \* the page
    page,       \* loading, open or left
    view,       \* the phase the page shows
    final,      \* is_final: parts are fetched one by one
    loaded,     \* the questions of the part are on the page
    text,       \* what the page shows as the answer
    rev,        \* revisionByQuestionRef
    pending,    \* debounceTimers: edits waiting for their timer
    saving,     \* savingIds, rendered after every event
    recording,  \* recordingQuestionIdRef: at most one question
    leaving,    \* how far submit or sealMainPaperForSpeaking has come
    \* between them
    requests,   \* saves that have not been heard of by the page
    fetches,    \* answers to the part requests, with the rows they read
    \* history
    reloads,
    told,       \* questions with an error shown since they were last edited
    crossed     \* questions whose answers crossed, see Crossings below

server  == <<status, phase, overdue, stored>>
client  == <<page, view, final, loaded, text, rev, pending, saving, recording, leaving>>
vars    == <<status, phase, overdue, stored, page, view, final, loaded, text, rev, pending,
             saving, recording, leaving, requests, fetches, reloads, told, crossed>>

Questions == Written \union Spoken
Answers   == [text : Nat, rev : Nat]
Blank     == [text |-> 0, rev |-> 0]

\* awaited: submit() waits for it in Promise.all.  mine: the page that sent it
\* still listens.  base: the revision of the row the handler loaded.
Requests ==
    [q : Questions, text : Nat, rev : Nat, base : Nat,
     at : {"sent", "loaded", "saved", "older", "closed", "failed"},
     awaited : BOOLEAN, mine : BOOLEAN]

Request(q, t, r, awaited) ==
    [q |-> q, text |-> t, rev |-> r, base |-> 0, at |-> "sent", awaited |-> awaited, mine |-> TRUE]

NotLeaving == [kind |-> "none", pc |-> "none"]

\* Nobody is told of a request whose page is gone.
Become(r, place) == (requests \ {r}) \union (IF r.mine THEN {[r EXCEPT !.at = place]} ELSE {})

Init ==
    /\ status = "in_progress" /\ phase = "main" /\ overdue = FALSE
    /\ stored = [q \in Questions |-> Blank]
    /\ page = "loading" /\ view = "main" /\ final \in BOOLEAN /\ loaded = FALSE
    /\ text = [q \in Questions |-> 0]
    /\ rev = [q \in Questions |-> 0]
    /\ pending = {} /\ saving = {} /\ recording = {}
    /\ leaving = NotLeaving
    /\ requests = {} /\ fetches = {}
    /\ reloads = 0 /\ told = {} /\ crossed = {}

-----------------------------------------------------------------------------
(* Typing                                                                  *)

(* persist: the question is marked as being saved until the answer comes.  *)
Persist(edits, awaited) ==
    /\ requests' = requests \union {Request(e.q, e.text, e.rev, awaited) : e \in edits}
    /\ saving' = saving \union {e.q : e \in edits}

(* updateResponse: the next revision, and a save now or after the debounce.*)
Edit(q, debounce) ==
    LET edit == [q |-> q, text |-> text[q] + 1, rev |-> rev[q] + 1]
    IN  /\ page = "open" /\ view = "main" /\ loaded
        /\ text[q] < MaxEdits
        /\ text' = [text EXCEPT ![q] = edit.text]
        /\ rev' = [rev EXCEPT ![q] = edit.rev]
        /\ told' = told \ {q}
        /\ IF debounce
             THEN /\ pending' = {e \in pending : e.q # q} \union {edit}
                  /\ UNCHANGED <<requests, saving>>
             ELSE Persist({edit}, FALSE) /\ UNCHANGED pending
        /\ UNCHANGED <<server, page, view, final, loaded, recording, leaving, fetches, reloads,
                       crossed>>

(* The timer of a debounced edit.                                          *)
DebounceFires(e) ==
    /\ page # "loading"
    /\ pending' = pending \ {e}
    /\ Persist({e}, FALSE)
    /\ UNCHANGED <<server, page, view, final, loaded, text, rev, recording, leaving,
                   fetches, reloads, told, crossed>>

-----------------------------------------------------------------------------
(* Saving                                                                  *)

\* _require_in_progress, and the lock on the sealed paper.
Refused(q) ==
    \/ status # "in_progress"
    \/ overdue /\ phase # "pending"
    \/ q \in Written /\ phase # "main"

\* Mutant: the revision is not compared.
HandlerLoadsAnything(r) ==
    /\ r.at = "sent"
    /\ LET row == stored[r.q]
        IN requests' = IF Refused(r.q) THEN Become(r, "closed")
                      ELSE (requests \ {r}) \union {[r EXCEPT !.at = "loaded", !.base = row.rev]}
    /\ UNCHANGED <<server, client, fetches, reloads, told, crossed>>

(* save_answer and save_audio_answer up to their commit.  A recording has  *)
(* no revision of its own and takes the next one.                          *)
HandlerLoads(r) ==
    /\ r.at = "sent"
    /\ LET row == stored[r.q]
        IN requests' = IF Refused(r.q) THEN Become(r, "closed")
                      ELSE IF r.q \in Written /\ r.rev <= row.rev THEN Become(r, "older")
                      ELSE (requests \ {r}) \union {[r EXCEPT !.at = "loaded", !.base = row.rev]}
    /\ UNCHANGED <<server, client, fetches, reloads, told, crossed>>

(* The commit.  The row the handler decided on may have changed; of two    *)
(* first saves the second violates uq_attempt_answer_question.             *)
HandlerCommits(r) ==
    /\ r.at = "loaded"
    /\ IF r.base = 0 /\ stored[r.q].rev > 0
         THEN requests' = Become(r, "failed") /\ UNCHANGED <<stored, crossed>>
         ELSE /\ requests' = Become(r, "saved")
              /\ stored' = [stored EXCEPT ![r.q] =
                    [text |-> r.text, rev |-> IF r.q \in Written THEN r.rev ELSE r.base + 1]]
              /\ crossed' = IF stored[r.q].rev # r.base THEN crossed \union {r.q} ELSE crossed
    /\ UNCHANGED <<status, phase, overdue, client, fetches, reloads, told>>

(* The network loses the request or its answer, which the page takes for a *)
(* failure.                                                                *)
Lose(r) ==
    /\ r.mine
    /\ r.at \in {"sent", "saved", "older", "closed"}
    /\ requests' = requests \ {r}
    /\ saving' = saving \ {r.q}
    /\ told' = told \union {r.q}
    /\ UNCHANGED <<server, page, view, final, loaded, text, rev, pending, recording, leaving,
                   fetches, reloads, crossed>>

(* The rest of persist: an older revision is the one refusal that is not   *)
(* shown, and the question is no longer marked, whatever else is on its way.*)
Hear(r) ==
    /\ r.at \in {"saved", "older", "closed", "failed"}
    /\ requests' = requests \ {r}
    /\ saving' = saving \ {r.q}
    /\ told' = IF r.at \in {"closed", "failed"} THEN told \union {r.q} ELSE told
    /\ UNCHANGED <<server, page, view, final, loaded, text, rev, pending, recording, leaving,
                   fetches, reloads, crossed>>

-----------------------------------------------------------------------------
(* Speaking                                                                *)

\* The interview's stage is ready for a question without a recording, and for
\* one whose recording failed; not while it uploads one.
StageReady(q) == q \notin saving /\ (text[q] > 0 => q \in told)

(* recordSpeakingAnswer.                                                   *)
StartRecording(q) ==
    /\ page = "open" /\ view = "speaking" /\ leaving = NotLeaving
    /\ recording = {} /\ StageReady(q)
    /\ text[q] < MaxTakes
    /\ recording' = {q}
    /\ told' = told \ {q}
    /\ UNCHANGED <<server, page, view, final, loaded, text, rev, pending, saving, leaving,
                   requests, fetches, reloads, crossed>>

\* The loop on savingIdsRef looks for the first time.  The ref follows
\* savingIds when React renders, after the event: what the event itself has
\* just put into savingIds is not seen.
FirstLook == IF saving = {} THEN "sent" ELSE "wait"

\* recordingStopSignalRef: a submit that waits for the recorder goes on.
Signal == leaving' = IF leaving.pc = "stopping" THEN [leaving EXCEPT !.pc = FirstLook] ELSE leaving

(* onstop: the signal first, then the upload.                              *)
RecorderStops(q) ==
    /\ page = "open" /\ q \in recording
    /\ recording' = {}
    /\ Signal
    /\ text' = [text EXCEPT ![q] = @ + 1]
    /\ Persist({[q |-> q, text |-> text[q] + 1, rev |-> 0]}, FALSE)
    /\ UNCHANGED <<server, page, view, final, loaded, rev, pending, fetches, reloads,
                   told, crossed>>

\* Mutant: a failing recorder does not release the submit.
RecorderFailsQuietly(q) ==
    /\ page = "open" /\ q \in recording
    /\ recording' = {}
    /\ told' = told \union {q}
    /\ UNCHANGED <<server, page, view, final, loaded, text, rev, pending, saving, leaving,
                   requests, fetches, reloads, crossed>>

(* onerror, or a blob that is too short to be a recording.                 *)
RecorderFails(q) ==
    /\ page = "open" /\ q \in recording
    /\ recording' = {}
    /\ Signal
    /\ told' = told \union {q}
    /\ UNCHANGED <<server, page, view, final, loaded, text, rev, pending, saving, requests,
                   fetches, reloads, crossed>>

-----------------------------------------------------------------------------
(* Leaving: submit, and sealing the written paper for Speaking             *)

(* submit(): the debounced edits are sent and waited for.  In the written  *)
(* phase only the clock submits.                                           *)
BeginSubmit ==
    /\ page = "open" /\ leaving = NotLeaving
    /\ view = "speaking" \/ overdue
    /\ leaving' = [kind |-> "submit", pc |-> "flush"]
    /\ Persist(pending, TRUE)
    /\ pending' = {}
    /\ UNCHANGED <<server, page, view, final, loaded, text, rev, recording, fetches,
                   reloads, told, crossed>>

(* Promise.all is settled; a recorder that runs is stopped.                *)
FlushSettles ==
    /\ leaving.pc = "flush"
    /\ \A r \in requests : r.mine => ~r.awaited
    /\ leaving' = [leaving EXCEPT !.pc = IF recording # {} THEN "stopping" ELSE "wait"]
    /\ UNCHANGED <<server, page, view, final, loaded, text, rev, pending, saving, recording,
                   requests, fetches, reloads, told, crossed>>

(* sealMainPaperForSpeaking: the debounced edits are sent and not waited   *)
(* for (flushPendingSavesBeforeSpeakingPhase).                             *)
BeginSeal(kind) ==
    /\ page = "open" /\ leaving = NotLeaving /\ view = "main"
    /\ leaving' = [kind |-> kind, pc |-> FirstLook]
    /\ Persist(pending, FALSE)
    /\ pending' = {}
    /\ UNCHANGED <<server, page, view, final, loaded, text, rev, recording, fetches,
                   reloads, told, crossed>>

(* The loop on savingIdsRef ends, or its eight seconds do; the POST is sent.*)
Post(gaveUp) ==
    /\ leaving.pc = "wait"
    /\ gaveUp = (saving # {})
    /\ leaving' = [leaving EXCEPT !.pc = "sent"]
    /\ UNCHANGED <<server, page, view, final, loaded, text, rev, pending, saving, recording,
                   requests, fetches, reloads, told, crossed>>

(* submit_attempt: whatever the clock says, and idempotent.                *)
ServerSubmits ==
    /\ leaving = [kind |-> "submit", pc |-> "sent"]
    /\ status' = IF status = "in_progress" /\ phase # "pending" THEN "submitted" ELSE status
    /\ leaving' = [leaving EXCEPT !.pc = "done"]
    /\ UNCHANGED <<phase, overdue, stored, page, view, final, loaded, text, rev, pending, saving,
                   recording, requests, fetches, reloads, told, crossed>>

(* seal_main_paper_for_speaking: a new clock when Speaking starts at once. *)
ServerSeals ==
    /\ leaving.kind \in {"seal", "defer"} /\ leaving.pc = "sent"
    /\ status = "in_progress" /\ ~(overdue /\ phase # "pending")
    /\ IF leaving.kind = "seal" THEN phase' = "speaking" /\ overdue' = FALSE
                                ELSE phase' = "pending" /\ UNCHANGED overdue
    /\ leaving' = [leaving EXCEPT !.pc = "done"]
    /\ UNCHANGED <<status, stored, page, view, final, loaded, text, rev, pending, saving,
                   recording, requests, fetches, reloads, told, crossed>>

(* The POST is refused or lost on its way; the page lets the student try   *)
(* again, and the clock does each second.                                  *)
LeavingFails ==
    /\ leaving.pc = "sent"
    /\ leaving' = NotLeaving
    /\ UNCHANGED <<server, page, view, final, loaded, text, rev, pending, saving, recording,
                   requests, fetches, reloads, told, crossed>>

(* The answer to the POST.  The written paper is off the screen now; text  *)
(* keeps what it showed.                                                   *)
LeavingSucceeds ==
    /\ leaving.pc = "done"
    /\ leaving' = NotLeaving
    /\ IF leaving.kind = "seal" THEN view' = "speaking" /\ UNCHANGED page
                                ELSE page' = "left" /\ UNCHANGED view
    /\ UNCHANGED <<server, final, loaded, text, rev, pending, saving, recording, requests,
                   fetches, reloads, told, crossed>>

-----------------------------------------------------------------------------
(* Loading, reloading and the clock                                        *)

\* Saves of pages that are gone, still on their way to the rows.
Ghosts == {r.q : r \in {x \in requests : ~x.mine}}

\* Mutant: Speaking that was put off is a view of its own.
LoadShowsPhase ==
    /\ page = "loading" /\ status = "in_progress" /\ ~(overdue /\ phase # "pending")
    /\ page' = "open"
    /\ view' = phase
    /\ loaded' = ~final
    /\ text' = [q \in Questions |-> stored[q].text]
    /\ rev' = [q \in Questions |-> stored[q].rev]
    /\ crossed' = crossed \union Ghosts
    /\ UNCHANGED <<server, final, pending, saving, recording, leaving, requests, fetches,
                   reloads, told>>

\* Mutant: the revisions are not taken from the server.
LoadForgetsRevisions ==
    /\ page = "loading" /\ status = "in_progress" /\ ~(overdue /\ phase # "pending")
    /\ page' = "open"
    /\ view' = IF phase = "main" THEN "main" ELSE "speaking"
    /\ loaded' = ~final
    /\ text' = [q \in Questions |-> stored[q].text]
    /\ rev' = [q \in Questions |-> 0]
    /\ crossed' = crossed \union Ghosts
    /\ UNCHANGED <<server, final, pending, saving, recording, leaving, requests, fetches,
                   reloads, told>>

(* The page loads the attempt, with the answers and revisions it has.      *)
Load ==
    /\ page = "loading" /\ status = "in_progress" /\ ~(overdue /\ phase # "pending")
    /\ page' = "open"
    /\ view' = IF phase = "main" THEN "main" ELSE "speaking"
    /\ loaded' = ~final
    /\ text' = [q \in Questions |-> stored[q].text]
    /\ rev' = [q \in Questions |-> stored[q].rev]
    /\ crossed' = crossed \union Ghosts
    /\ UNCHANGED <<server, final, pending, saving, recording, leaving, requests, fetches,
                   reloads, told>>

(* The attempt is over, or get_student_view finds that it is and says so:  *)
(* on to the result.                                                       *)
LoadFindsOver ==
    /\ page = "loading"
    /\ status # "in_progress" \/ (overdue /\ phase # "pending")
    /\ page' = "left"
    /\ text' = [q \in Questions |-> stored[q].text]
    /\ crossed' = crossed \union Ghosts
    /\ status' = IF status = "in_progress" THEN "expired" ELSE status
    /\ UNCHANGED <<phase, overdue, stored, view, final, loaded, rev, pending, saving,
                   recording, leaving, requests, fetches, reloads, told>>

(* selectPart on a part without questions; nothing stops a second click.   *)
SelectPart ==
    /\ page = "open" /\ view = "main" /\ final /\ ~loaded
    /\ Cardinality(fetches) < MaxFetches
    /\ \E k \in 1..MaxFetches :
          /\ \A f \in fetches : f.k # k
          /\ fetches' = fetches \union {[k |-> k, rows |-> stored]}
    /\ UNCHANGED <<server, client, requests, reloads, told, crossed>>

(* The part arrives and replaces what the page has of it.                  *)
PartArrives(f) ==
    /\ page = "open"
    /\ fetches' = fetches \ {f}
    /\ loaded' = TRUE
    /\ text' = [q \in Questions |-> IF q \in Written THEN f.rows[q].text ELSE text[q]]
    /\ rev' = [q \in Questions |-> IF q \in Written THEN f.rows[q].rev ELSE rev[q]]
    /\ crossed' = crossed \union
          {q \in Written : rev[q] # f.rows[q].rev \/ text[q] # f.rows[q].text}
    /\ UNCHANGED <<server, page, view, final, pending, saving, recording, leaving, requests,
                   reloads, told>>

(* The browser reloads the page: what it held is gone, what it sent is not.*)
Reload ==
    /\ page = "open" /\ reloads < MaxReloads
    /\ reloads' = reloads + 1
    /\ page' = "loading" /\ loaded' = FALSE
    /\ pending' = {} /\ saving' = {} /\ recording' = {}
    /\ leaving' = NotLeaving
    /\ requests' = {[r EXCEPT !.mine = FALSE] : r \in {x \in requests : x.at \in {"sent", "loaded"}}}
    /\ fetches' = {}
    /\ told' = {}
    /\ UNCHANGED <<server, view, final, text, rev, crossed>>

(* begin_secure_attempt on a Speaking paper that was put off.              *)
ResumeSpeaking ==
    /\ page = "open" /\ view = "speaking" /\ final
    /\ status = "in_progress" /\ phase = "pending"
    /\ phase' = "speaking" /\ overdue' = FALSE
    /\ UNCHANGED <<status, stored, client, requests, fetches, reloads, told, crossed>>

TimeUp ==
    /\ ~overdue /\ status = "in_progress"
    /\ overdue' = TRUE
    /\ UNCHANGED <<status, phase, stored, client, requests, fetches, reloads, told, crossed>>

(* sweep_expired_attempts: submitted when there is an answer, else expired.*)
Sweep ==
    /\ overdue /\ status = "in_progress" /\ phase # "pending"
    /\ status' = IF \E q \in Questions : stored[q].text > 0 THEN "submitted" ELSE "expired"
    /\ UNCHANGED <<phase, overdue, stored, client, requests, fetches, reloads, told, crossed>>

-----------------------------------------------------------------------------
Student ==
    \/ \E q \in Written, debounce \in BOOLEAN : Edit(q, debounce)
    \/ \E q \in Spoken : StartRecording(q)
    \/ BeginSubmit \/ \E kind \in {"seal", "defer"} : BeginSeal(kind)
    \/ SelectPart \/ Reload \/ ResumeSpeaking

Page ==
    \/ \E e \in pending : DebounceFires(e)
    \/ \E r \in requests : Hear(r)
    \/ \E f \in fetches : PartArrives(f)
    \/ \E q \in Spoken : RecorderStops(q) \/ RecorderFails(q)
    \/ FlushSettles \/ \E gaveUp \in BOOLEAN : Post(gaveUp)
    \/ LeavingSucceeds \/ Load \/ LoadFindsOver

Server ==
    \/ \E r \in requests : HandlerLoads(r) \/ HandlerCommits(r)
    \/ ServerSubmits \/ ServerSeals \/ Sweep

Next == Student \/ Page \/ Server \/ TimeUp \/ LeavingFails \/ \E r \in requests : Lose(r)

Spec == Init /\ [][Next]_vars

Saving ==
    \/ \E e \in pending : DebounceFires(e)
    \/ \E r \in requests : HandlerLoads(r) \/ HandlerCommits(r) \/ Hear(r)

Departing ==
    \/ \E q \in Spoken : RecorderStops(q) \/ RecorderFails(q)
    \/ FlushSettles \/ \E gaveUp \in BOOLEAN : Post(gaveUp)
    \/ ServerSubmits \/ ServerSeals \/ LeavingFails \/ LeavingSucceeds

\* Timers fire, a recorder answers stop(), handlers finish, and every request
\* is answered or fails.
FairSpec == Spec /\ WF_vars(Saving) /\ WF_vars(Departing)

-----------------------------------------------------------------------------
(* Properties                                                              *)

TypeOK ==
    /\ status \in {"in_progress", "submitted", "expired"}
    /\ phase \in {"main", "speaking", "pending"}
    /\ overdue \in BOOLEAN /\ final \in BOOLEAN /\ loaded \in BOOLEAN
    /\ stored \in [Questions -> Answers]
    /\ page \in {"loading", "open", "left"}
    /\ view \in {"main", "speaking"}
    /\ text \in [Questions -> Nat]
    /\ rev \in [Questions -> Nat]
    /\ pending \subseteq [q : Written, text : Nat, rev : Nat]
    /\ saving \subseteq Questions
    /\ recording \subseteq Spoken
    /\ leaving \in [kind : {"none", "submit", "seal", "defer"},
                    pc : {"none", "flush", "stopping", "wait", "sent", "done"}]
    /\ requests \subseteq Requests
    /\ fetches \subseteq [k : 1..MaxFetches, rows : [Questions -> Answers]]
    /\ reloads \in 0..MaxReloads
    /\ told \subseteq Questions /\ crossed \subseteq Questions

\* Crossings: a save that was still on its way when a later page loaded, a part
\* that arrived over newer edits, and two handlers that saved over one another.
\* The code's revisions are counted by the page, so they tell nothing then.

\* An answer the page shows and the server does not have.
Unsaved(q) == page # "loading" /\ (q \in Written => loaded) /\ text[q] # stored[q].text

\* An answer is never lost in silence: what the page shows and the server does
\* not have is waiting for its timer, on its way, being recorded anew, or the
\* student has been told that it was not saved - through overtaking saves, lost
\* answers, failing recorders, reloads, the seal, the end of the time and
\* submission; unless answers crossed.
NothingLostSilently ==
    \A q \in Questions : Unsaved(q) =>
        \/ \E e \in pending : e.q = q /\ e.text = text[q]
        \/ \E r \in requests : r.q = q /\ r.text = text[q] /\ r.mine /\ r.at # "older"
        \/ page = "open" /\ q \in recording
        \/ q \in told \union crossed

\* What is stored is never an older answer than was stored before, in
\* whatever order saves are delivered.
StoredNeverOlder ==
    [][\A q \in Questions : stored'[q].text < stored[q].text => q \in crossed']_vars

\* The page comes to rest, again and again: every edit is settled, saved or
\* reported, and a submit or a seal has ended, with the page left or the student
\* free to try again - also when the recorder fails while submit waits for it.
ComesToRest ==
    []<>( /\ leaving = NotLeaving
          /\ \A q \in Questions : Unsaved(q) => q \in told \union crossed )

\* The comment of persist: a refused older revision is a race in which a newer
\* edit has been saved, with nothing to tell the student.
OlderIsBenign ==
    \A r \in requests : r.at = "older" /\ r.mine => stored[r.q].text > r.text

\* sealMainPaperForSpeaking waits for the saves that are under way before it
\* closes the paper (unless they take longer than eight seconds).
SealWaitsForSaves ==
    [][leaving.kind # "submit" /\ leaving'.kind \in {"seal", "defer"} /\ leaving'.pc = "sent"
           => \A r \in requests' : ~r.mine]_vars

\* submit() stops a recorder that runs and waits for its upload.
SubmitWaitsForRecording ==
    [][\A q \in Spoken : RecorderStops(q) => leaving'.pc # "sent"]_vars
=============================================================================
