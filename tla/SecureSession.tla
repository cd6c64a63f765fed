--------------------------- MODULE SecureSession ---------------------------
(***************************************************************************)
(* The proctoring of one Final Test: the tabs of                           *)
(* frontend/src/pages/student/TestRunner/index.tsx that go through the     *)
(* security check, send heartbeats, report violations and save answers,    *)
(* and the handlers of backend/app/services/attempt_service.py that bind   *)
(* the attempt to one of them, number its heartbeats, count the violations *)
(* and end the attempt at their limit.                                     *)
(*                                                                         *)
(* Preflight and begin are each one step with their answer.  The other     *)
(* calls load the attempt and commit in two steps, overtake each other and *)
(* get lost.  Full screen stands for every medium that is watched.  Time is *)
(* a choice: whether the last heartbeat is within its grace, and whether    *)
(* proctoring is armed.                                                     *)
(***************************************************************************)
EXTENDS Naturals, FiniteSets

CONSTANTS
    Tabs, NoTab,
    Limit,        \* FINAL_TEST_AUTO_SUBMIT_VIOLATION_LIMIT
    MaxTokens,    \* preflights that succeed
    MaxBeats,     \* heartbeats of one token that overlap
    MaxEvents     \* departures from full screen, contested checks, answers saved, answers
                  \* of the server lost and pages reloaded, altogether

ASSUME SecureAssumption ==
    /\ NoTab \notin Tabs
    /\ Limit \in Nat \ {0} /\ MaxBeats \in Nat \ {0}
    /\ MaxTokens \in Nat /\ MaxEvents \in Nat

VARIABLES
    \* the attempt
    status,   \* ready, in_progress, submitted or violated
    owner,    \* security_client_id
    token,    \* security_token_hash: the number of the last token issued
    beat,     \* security_heartbeat_sequence
    media,    \* security_media_state: what was reported as active
    flags,    \* attempt_flags: how many violations (up to Limit), and the client_sequence of
              \* those that have one
    \* the browser
    tab,      \* the page of each tab
    calls,    \* requests that are under way, or that a page has not heard of
    \* history
    spent,    \* what MaxEvents counts
    haunted   \* tabs checked while a heartbeat of an earlier page was being handled

attempt == <<status, owner, token, beat, media, flags>>
vars    == <<status, owner, token, beat, media, flags, tab, calls, spent, haunted>>

\* open: the test runner is mounted.  checked: the preflight has been answered.
\* auth: securityAuthorized.  token, seq, events: attemptTokenRef,
\* heartbeatSequenceRef, eventSequenceRef.  busy: heartbeatBusyRef.  full: full
\* screen is on.
Pages == [open : BOOLEAN, checked : BOOLEAN, auth : BOOLEAN, token : 0..MaxTokens,
          seq : 0..MaxBeats, events : 0..MaxEvents, busy : BOOLEAN, full : BOOLEAN]

\* A page that has to be checked.  The token and the sequence it still has are
\* replaced by the preflight before it uses them; the events count on.
Unchecked(events) == [open |-> TRUE, checked |-> FALSE, auth |-> FALSE, token |-> 0, seq |-> 0,
                      events |-> events, busy |-> FALSE, full |-> FALSE]

Closed(events) == [Unchecked(events) EXCEPT !.open = FALSE]

\* number: the heartbeat's sequence or the report's client_sequence.  mine: its
\* page still listens.  live, had, was, known: what the handler loaded - the attempt in progress, the violations, the media state,
\* the client_sequence already there; had in an answer: the violations it tells.
Calls == [kind : {"beat", "report"}, tab : Tabs, mine : BOOLEAN, token : 0..MaxTokens,
          number : Nat, active : BOOLEAN, at : {"sent", "loaded", "done", "refused"},
          live : BOOLEAN, had : 0..Limit, was : BOOLEAN, known : BOOLEAN]

Call(kind, t, number, active) ==
    [kind |-> kind, tab |-> t, mine |-> TRUE, token |-> tab[t].token, number |-> number,
     active |-> active, at |-> "sent", live |-> FALSE, had |-> 0, was |-> FALSE, known |-> FALSE]

UpToLimit(n) == IF n < Limit THEN n ELSE Limit

Over == status \in {"submitted", "violated"}

Spend(what) ==
    /\ spent.leaves + spent.contests + spent.overdue + spent.rest < MaxEvents
    /\ spent' = [spent EXCEPT ![what] = @ + 1]

Init ==
    /\ status = "ready" /\ owner = NoTab /\ token = 0
    /\ beat = 0 /\ media = TRUE
    /\ flags = [count |-> 0, seqs |-> {}]
    /\ tab = [t \in Tabs |-> Unchecked(0)]
    /\ calls = {}
    /\ spent = [leaves |-> 0, contests |-> 0, overdue |-> 0, rest |-> 0]
    /\ haunted = {}

-----------------------------------------------------------------------------
(* The security check: startSecureSession                                  *)

\* Another tab has begun the attempt; if it has sent a heartbeat within the
\* grace, the preflight of this one is refused.
Contested(t) == status = "in_progress" /\ owner \notin {NoTab, t}

\* The rest of the preflight on the server.
Bind(t) ==
    /\ tab[t].open /\ ~tab[t].auth /\ ~tab[t].checked /\ ~Over
    /\ token < MaxTokens
    /\ token' = token + 1
    /\ owner' = t
    /\ media' = TRUE
    /\ haunted' = IF \E c \in calls : c.kind = "beat" /\ c.at = "loaded"
                    THEN haunted \union {t} ELSE haunted

\* The page has full screen when it asks, and holds the token of the answer.
Checked(t) == tab' = [tab EXCEPT ![t] =
    [@ EXCEPT !.checked = TRUE, !.token = token + 1, !.seq = 0, !.full = TRUE]]

\* Mutant: the heartbeats count on from those of the last owner.
PreflightKeepsSequence(t) == Bind(t) /\ Checked(t) /\ UNCHANGED <<status, beat, flags, calls, spent>>

(* secure_preflight: a new token, and the heartbeats count from one again. *)
Preflight(t) == Bind(t) /\ Checked(t) /\ beat' = 0 /\ UNCHANGED <<status, flags, calls, spent>>

(* The answer to the preflight is lost: the server has a token nobody has. *)
PreflightLost(t) ==
    /\ Bind(t) /\ beat' = 0
    /\ Spend("rest")
    /\ UNCHANGED <<status, flags, tab, calls>>

PreflightRefused(t) ==
    /\ tab[t].open /\ ~tab[t].auth /\ ~tab[t].checked /\ Contested(t)
    /\ Spend("contests")
    /\ flags' = [flags EXCEPT !.count = UpToLimit(@ + 1)]
    /\ UNCHANGED <<status, owner, token, beat, media, tab, calls, haunted>>

\* begin_secure_attempt: with the last token, and every medium reported as active.
MayBegin(t) == tab[t].token = token /\ media /\ ~Over

(* The page is authorised, or has to be checked again.                     *)
Begin(t) ==
    /\ tab[t].open /\ tab[t].checked
    /\ status' = IF MayBegin(t) THEN "in_progress" ELSE status
    /\ tab' = [tab EXCEPT ![t] = IF MayBegin(t) THEN [@ EXCEPT !.checked = FALSE, !.auth = TRUE]
                                                ELSE Unchecked(@.events)]
    /\ UNCHANGED <<owner, token, beat, media, flags, calls, spent, haunted>>

-----------------------------------------------------------------------------
(* What a page sends                                                       *)

(* heartbeat(): one at a time, unless one is given up.  It says what is     *)
(* active; until proctoring is armed, that everything is.  Sequences are    *)
(* only compared: when no other heartbeat of the token is under way they    *)
(* are numbered anew, the server behind the page if it was.                 *)
SendBeat(t, armed) ==
    LET anew == \A c \in calls : c.kind = "beat" => c.token # tab[t].token
        next == IF anew THEN 1 ELSE tab[t].seq + 1
    IN  /\ tab[t].open /\ tab[t].auth /\ ~tab[t].busy
        /\ next <= MaxBeats
        /\ tab' = [tab EXCEPT ![t] = [@ EXCEPT !.busy = TRUE, !.seq = next]]
        /\ calls' = calls \union {Call("beat", t, next, armed => tab[t].full)}
        /\ beat' = IF anew /\ tab[t].token = token THEN (IF beat > tab[t].seq THEN 1 ELSE 0)
                   ELSE beat
        /\ UNCHANGED <<status, owner, token, media, flags, spent, haunted>>

(* onFullscreenChange: when proctoring is armed the event is numbered and  *)
(* reported, once.                                                         *)
LeaveFullscreen(t, armed) ==
    /\ tab[t].open /\ tab[t].full
    /\ armed => tab[t].auth
    /\ ~Over
    /\ Spend("leaves")
    /\ IF armed
         THEN /\ tab' = [tab EXCEPT ![t] = [@ EXCEPT !.full = FALSE, !.events = tab[t].events + 1]]
              /\ calls' = calls \union {Call("report", t, tab[t].events + 1, FALSE)}
         ELSE tab' = [tab EXCEPT ![t].full = FALSE] /\ UNCHANGED calls
    /\ UNCHANGED <<attempt, haunted>>

EnterFullscreen(t) ==
    /\ tab[t].open /\ tab[t].auth /\ ~tab[t].full /\ ~Over
    /\ tab' = [tab EXCEPT ![t].full = TRUE]
    /\ UNCHANGED <<attempt, calls, spent, haunted>>

(* An answer is saved, in one step with its handler.  note_security_lapse  *)
(* adds a violation for what is inactive, and one if the last heartbeat is *)
(* overdue; the limit is not looked at.                                    *)
SaveAnswer(t, overdue) ==
    LET lapses == (IF media THEN 0 ELSE 1) + (IF overdue THEN 1 ELSE 0)
    IN  /\ tab[t].open /\ tab[t].auth /\ tab[t].token = token
        /\ status = "in_progress"
        /\ Spend(IF overdue THEN "overdue" ELSE "rest")
        /\ flags' = [flags EXCEPT !.count = UpToLimit(@ + lapses)]
        /\ UNCHANGED <<status, owner, token, beat, media, tab, calls, haunted>>

-----------------------------------------------------------------------------
(* What the server does                                                    *)

\* The answer goes to the page, if it still listens and does something with it:
\* of the answers to a report it only looks for the limit.
Answer(c, at, had) == calls' = (calls \ {c}) \union
    (IF c.mine /\ (c.kind = "report" => had >= Limit) THEN {[Call(c.kind, c.tab, 0, TRUE) EXCEPT !.token = c.token, !.at = at, !.had = had]}
               ELSE {})

\* require_security_access; a heartbeat also needs the attempt in progress, and a
\* sequence beyond the last.
Rejected(c) ==
    \/ c.token # token
    \/ c.kind = "beat" /\ (status # "in_progress" \/ c.number <= beat)

(* record_heartbeat and record_flag up to their commit.                    *)
HandlerLoads(c) ==
    /\ c.at = "sent"
    /\ IF Rejected(c) THEN Answer(c, "refused", 0)
       ELSE calls' = (calls \ {c}) \union
              {[c EXCEPT !.at = "loaded", !.live = status = "in_progress",
                         !.had = flags.count, !.was = media,
                         !.known = c.kind = "report" /\ c.number \in flags.seqs]}
    /\ UNCHANGED <<attempt, tab, spent, haunted>>

\* The violations a call adds: a report not seen before, a heartbeat in which
\* something active has stopped.
Adds(c) == IF (IF c.kind = "report" THEN ~c.known ELSE c.was /\ ~c.active) THEN 1 ELSE 0

\* The flags, the media state and the sequence of the commit.
Record(c) ==
    /\ flags' = [count |-> UpToLimit(flags.count + Adds(c)),
                 seqs  |-> IF c.kind = "report" THEN flags.seqs \union {c.number} ELSE flags.seqs]
    /\ media' = c.active
    /\ beat' = IF c.kind = "beat" THEN c.number ELSE beat
    /\ Answer(c, "done", UpToLimit(flags.count + Adds(c)))

\* Mutant: the attempt is taken for one whose time is up.
HandlerCommitsExpired(c) ==
    /\ c.at = "loaded"
    /\ Record(c)
    /\ status' = IF c.live /\ c.had + Adds(c) >= Limit THEN "expired" ELSE status
    /\ UNCHANGED <<owner, token, tab, spent, haunted>>

(* The commit.  _maybe_auto_submit_for_violations looks at the status and  *)
(* the violations that were loaded, its own added; the answer tells those  *)
(* that are there after the commit.                                        *)
HandlerCommits(c) ==
    /\ c.at = "loaded"
    /\ Record(c)
    /\ status' = IF c.live /\ c.had + Adds(c) >= Limit THEN "violated" ELSE status
    /\ UNCHANGED <<owner, token, tab, spent, haunted>>

(* submit_attempt, with the token of the page that asks.                   *)
Submit(t) ==
    /\ tab[t].open /\ tab[t].auth /\ tab[t].token = token
    /\ status = "in_progress"
    /\ status' = "submitted"
    /\ tab' = [tab EXCEPT ![t] = Closed(@.events)]
    /\ UNCHANGED <<owner, token, beat, media, flags, calls, spent, haunted>>

-----------------------------------------------------------------------------
(* What a page hears                                                       *)

\* handleViolationPolicy: at the limit the page is left.
ToldOfLimit(c) == c.at = "done" /\ c.had >= Limit

\* Mutant: a refused heartbeat is ignored.
HearIgnoresRefusal(c) ==
    /\ c.at \in {"done", "refused"}
    /\ calls' = calls \ {c}
    /\ tab' = [tab EXCEPT ![c.tab] = IF ToldOfLimit(c) THEN Closed(@.events)
                                     ELSE [@ EXCEPT !.busy = tab[c.tab].busy /\ c.kind # "beat"]]
    /\ UNCHANGED <<attempt, spent, haunted>>

\* Mutant: after a heartbeat the page stays busy.
HearStaysBusy(c) ==
    /\ c.at \in {"done", "refused"}
    /\ calls' = calls \ {c}
    /\ tab' = [tab EXCEPT ![c.tab] =
          IF ~tab[c.tab].open THEN @
          ELSE IF ToldOfLimit(c) THEN Closed(@.events)
          ELSE IF c.kind = "beat" /\ c.at = "refused" THEN Unchecked(@.events)
          ELSE @]
    /\ UNCHANGED <<attempt, spent, haunted>>

(* The rest of heartbeat and recordFlag.  A refused heartbeat takes the    *)
(* authorisation.                                                          *)
Hear(c) ==
    /\ c.at \in {"done", "refused"}
    /\ calls' = calls \ {c}
    /\ tab' = [tab EXCEPT ![c.tab] =
          IF ~tab[c.tab].open THEN @
          ELSE IF ToldOfLimit(c) THEN Closed(@.events)
          ELSE IF c.kind = "beat" /\ c.at = "refused" THEN Unchecked(@.events)
          ELSE [@ EXCEPT !.busy = tab[c.tab].busy /\ c.kind # "beat"]]
    /\ UNCHANGED <<attempt, spent, haunted>>

(* The page takes a call for failed; the server may still handle it.       *)
GiveUp(c) ==
    /\ c.mine
    /\ Spend("rest")
    /\ tab' = [tab EXCEPT ![c.tab].busy = @ /\ c.kind # "beat"]
    /\ calls' = (calls \ {c}) \union
          (IF c.at \in {"sent", "loaded"} THEN {[c EXCEPT !.mine = FALSE]} ELSE {})
    /\ UNCHANGED <<attempt, haunted>>

(* The tab is reloaded, or opened again: the page has to be checked anew;  *)
(* what the old one sent goes on without a listener.                       *)
Reload(t) ==
    /\ ~Over
    /\ Spend("rest")
    /\ tab' = [tab EXCEPT ![t] = Unchecked(@.events)]
    /\ calls' = {IF c.tab = t THEN [c EXCEPT !.mine = FALSE] ELSE c :
                    c \in {x \in calls : x.tab = t => x.at \in {"sent", "loaded"}}}
    /\ UNCHANGED <<attempt, haunted>>

-----------------------------------------------------------------------------
Student ==
    \E t \in Tabs : \/ Preflight(t) \/ PreflightRefused(t) \/ EnterFullscreen(t)
                    \/ \E armed \in BOOLEAN : LeaveFullscreen(t, armed)
                    \/ (\E overdue \in BOOLEAN : SaveAnswer(t, overdue)) \/ Submit(t) \/ Reload(t)

\* The calls of one kind of a tab, from the request to the page's hearing of it.
Serve(t, kind) == \E c \in calls :
    /\ c.tab = t /\ c.kind = kind
    /\ HandlerLoads(c) \/ HandlerCommits(c) \/ Hear(c)

\* A tab that goes on: it begins once it is checked, and sends heartbeats.
Alive(t) == Begin(t) \/ Serve(t, "beat") \/ \E armed \in BOOLEAN : SendBeat(t, armed)

Failures == (\E t \in Tabs : PreflightLost(t)) \/ (\E c \in calls : GiveUp(c))

Next == Student \/ Failures \/ \E t \in Tabs : Alive(t) \/ Serve(t, "report")

Spec == Init /\ [][Next]_vars

\* The interval timer of a page fires, and its heartbeats are handled and heard
\* (answers get lost no more than MaxEvents times).
FairSpec == Spec /\ \A t \in Tabs : WF_vars(Alive(t))

-----------------------------------------------------------------------------
(* Properties                                                              *)

TypeOK ==
    /\ status \in {"ready", "in_progress", "submitted", "violated"}
    /\ owner \in Tabs \union {NoTab}
    /\ token \in 0..MaxTokens
    /\ beat \in 0..MaxBeats
    /\ media \in BOOLEAN
    /\ flags \in [count : 0..Limit, seqs : SUBSET (1..MaxEvents)]
    /\ tab \in [Tabs -> Pages]
    /\ calls \subseteq Calls
    /\ spent \in [{"leaves", "contests", "overdue", "rest"} -> 0..MaxEvents]
    /\ haunted \subseteq Tabs

Sitting(t) == tab[t].open /\ tab[t].auth

\* The tab that holds the attempt is never sent back to the security check by a
\* heartbeat of its own, however heartbeats overtake each other, tabs take over
\* and pages reload - unless it was checked while a heartbeat of an earlier page
\* was between its load and its commit.
OwnerIsHeard ==
    \A c \in calls : c.kind = "beat" /\ c.at = "refused" =>
        \/ c.token # token
        \/ status # "in_progress"
        \/ c.tab \in haunted

\* A tab whose attempt another tab has taken over finds out: in the end nobody
\* sits with a token that is not the attempt's.
LoserLearns == <>[](\A t \in Tabs : Sitting(t) => tab[t].token = token)

\* The limit holds in the end, also when violations are counted concurrently,
\* found by a refused preflight or by a save: nobody goes on sitting an attempt
\* in progress that has reached it.
LimitEnforced ==
    <>[](flags.count >= Limit => status # "in_progress" \/ \A t \in Tabs : ~Sitting(t))

\* The comment of recordLeftExam: leaving the exam is one event.  Violations are
\* departures, contested checks and overdue heartbeats, each counted once.
DepartureIsOneViolation == flags.count <= spent.leaves + spent.contests + spent.overdue
=============================================================================
