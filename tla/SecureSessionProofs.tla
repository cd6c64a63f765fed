------------------------ MODULE SecureSessionProofs ------------------------
(***************************************************************************)
(* Proofs about SecureSession: its types, and that the tab which holds the *)
(* attempt is heard, for any number of tabs, takeovers and heartbeats.     *)
(*                                                                         *)
(* Nothing is claimed of an owner that is haunted.  For the others the     *)
(* heartbeats with the last token are in order: the page is at the highest *)
(* number, and the one it waits for is beyond what the server has          *)
(* recorded.  Below that lie who holds which token, that a page listens to *)
(* one heartbeat, and that a heartbeat comes after the attempt has begun.  *)
(***************************************************************************)
EXTENDS SecureSession, TLAPS

\* A page that has been given a token by the security check.
HasToken(p) == p.auth \/ p.checked

\* Pages p and q hold the same of a session, but for the waiting.
SameSession(p, q) ==
    /\ q.auth = p.auth /\ q.checked = p.checked /\ q.token = p.token /\ q.seq = p.seq
    /\ q.open = p.open

UnderWay(c) == c.at \in {"sent", "loaded"}

\* A heartbeat the server has yet to record, with the token that counts.
Current(c) == c.kind = "beat" /\ UnderWay(c) /\ c.token = token

\* A page numbers its departures from full screen.
EventsAreSpent == \A t \in Tabs : tab[t].events <= spent.leaves

\* Whatever the server has yet to record is numbered from one.
Numbered ==
    \A c \in calls : UnderWay(c) =>
        /\ c.kind = "beat" => c.number \in 1..MaxBeats
        /\ c.kind = "report" => c.number \in 1..MaxEvents

\* Pages and heartbeats hold tokens that have been issued, and the last one only
\* if they are those of the owner.
TokensIssued ==
    /\ \A t \in Tabs : HasToken(tab[t]) =>
          tab[t].token \in 1..token /\ (tab[t].token = token => owner = t)
    /\ \A c \in calls : c.kind = "beat" =>
          c.token \in 1..token /\ (c.token = token => owner = c.tab)

\* A page is checked or authorised.  It listens to one heartbeat, sent with the
\* token it holds; answers go to pages that listen.
OneBeatHeard ==
    /\ \A t \in Tabs : ~(tab[t].auth /\ tab[t].checked)
    /\ \A c, d \in calls :
          c.kind = "beat" /\ d.kind = "beat" /\ c.mine /\ d.mine /\ c.tab = d.tab => c = d
    /\ \A c \in calls : c.kind = "beat" /\ c.mine /\ tab[c.tab].open =>
          tab[c.tab].auth /\ tab[c.tab].busy /\ tab[c.tab].token = c.token
    /\ \A c \in calls : c.kind = "beat" => c.mine \/ UnderWay(c)

\* Nobody is authorised, and no heartbeat sent, before the attempt has begun.
BegunByThen ==
    /\ \A t \in Tabs : tab[t].auth => status # "ready"
    /\ \A c \in calls : c.kind = "beat" => status # "ready"

\* A heartbeat that is handled while its token is replaced haunts the new owner.
LateBeatsHaunt ==
    \A c \in calls : c.kind = "beat" /\ c.at = "loaded" => c.token = token \/ owner \in haunted

\* The heartbeats of an owner that is not haunted are in order: the one its page
\* waits for has the highest number, and the server is not ahead of the page.
BeatsInOrder ==
    owner \notin haunted =>
        /\ \A c \in calls : Current(c) /\ c.mine /\ c.at = "sent" =>
              /\ beat < c.number
              /\ \A d \in calls : Current(d) /\ d # c => d.number < c.number
        /\ \A t \in Tabs : HasToken(tab[t]) /\ tab[t].token = token =>
              /\ beat <= tab[t].seq
              /\ \A c \in calls : Current(c) => c.number <= tab[t].seq

SecureTyped == TypeOK /\ EventsAreSpent /\ Numbered

BeatsKept == TokensIssued /\ OneBeatHeard /\ LateBeatsHaunt /\ BeatsInOrder

SecureInv == SecureTyped /\ BegunByThen /\ BeatsKept /\ OwnerIsHeard

-----------------------------------------------------------------------------
(* Types                                                                   *)

\* What the assumption says of each constant.
LEMMA SecureConstants ==
    /\ NoTab \notin Tabs
    /\ Limit \in Nat /\ Limit > 0 /\ MaxBeats \in Nat /\ MaxBeats > 0
    /\ MaxTokens \in Nat /\ MaxEvents \in Nat
BY SecureAssumption

\* The fields of a page.
LEMMA PageTypes ==
    ASSUME TypeOK, NEW t \in Tabs
    PROVE  /\ tab[t] \in Pages
           /\ tab[t].open \in BOOLEAN /\ tab[t].checked \in BOOLEAN /\ tab[t].auth \in BOOLEAN
           /\ tab[t].token \in 0..MaxTokens /\ tab[t].seq \in 0..MaxBeats
           /\ tab[t].events \in 0..MaxEvents
           /\ tab[t].busy \in BOOLEAN /\ tab[t].full \in BOOLEAN
BY DEF TypeOK, Pages

\* The fields of a call.
LEMMA CallTypes ==
    ASSUME TypeOK, NEW c \in calls
    PROVE  /\ c \in Calls
           /\ c.kind \in {"beat", "report"} /\ c.tab \in Tabs /\ c.mine \in BOOLEAN
           /\ c.token \in 0..MaxTokens /\ c.number \in Nat /\ c.active \in BOOLEAN
           /\ c.at \in {"sent", "loaded", "done", "refused"}
           /\ c.live \in BOOLEAN /\ c.had \in 0..Limit /\ c.was \in BOOLEAN /\ c.known \in BOOLEAN
BY DEF TypeOK, Calls

\* A page that has to be checked has nothing; nor has one that is closed.
LEMMA FreshPages ==
    ASSUME NEW e \in 0..MaxEvents
    PROVE  /\ Unchecked(e) \in Pages /\ Closed(e) \in Pages
           /\ Unchecked(e).events = e /\ Closed(e).events = e
           /\ Unchecked(e).auth = FALSE /\ Closed(e).auth = FALSE
           /\ Unchecked(e).checked = FALSE /\ Closed(e).checked = FALSE
           /\ Closed(e).open = FALSE
<1>1. Unchecked(e) \in Pages
  BY SecureConstants DEF Unchecked, Pages
<1>2. /\ Unchecked(e).events = e
      /\ Unchecked(e).auth = FALSE /\ Unchecked(e).checked = FALSE
  BY DEF Unchecked
<1>3. Closed(e) \in Pages
  BY <1>1 DEF Closed, Pages
<1>4. /\ Closed(e).events = e /\ Closed(e).open = FALSE
      /\ Closed(e).auth = FALSE /\ Closed(e).checked = FALSE
  BY <1>1, <1>2 DEF Closed, Pages
<1>. QED BY <1>1, <1>2, <1>3, <1>4

\* What a page sends.
LEMMA CallFields ==
    ASSUME TypeOK
    PROVE  \A kind \in {"beat", "report"}, t \in Tabs, number \in Nat, active \in BOOLEAN :
              LET c == Call(kind, t, number, active) IN
              /\ c \in Calls
              /\ c.kind = kind /\ c.tab = t /\ c.mine /\ c.token = tab[t].token
              /\ c.number = number /\ c.at = "sent"
BY PageTypes, SecureConstants DEF Call, Calls

\* An answer replaces the call it answers, if the page listens, or nothing does.
LEMMA AnswerReplaces ==
    ASSUME TypeOK, NEW c \in calls,
           NEW at \in {"done", "refused"}, NEW had \in 0..Limit, Answer(c, at, had)
    PROVE  /\ calls \ {c} \subseteq calls'
           /\ c.at # at => c \notin calls'
           /\ \A d, e \in calls' \ (calls \ {c}) : d = e
           /\ \A d \in calls' :
                 \/ d \in calls \ {c}
                 \/ /\ d \in Calls /\ c.mine /\ d.mine
                    /\ d.kind = c.kind /\ d.tab = c.tab /\ d.token = c.token /\ d.at = at
<1>1. DEFINE a == [Call(c.kind, c.tab, 0, TRUE)
                        EXCEPT !.token = c.token, !.at = at, !.had = had]
<1>2. /\ a \in Calls
      /\ a.mine = TRUE /\ a.kind = c.kind /\ a.tab = c.tab /\ a.token = c.token /\ a.at = at
  BY CallTypes, PageTypes, SecureConstants DEF Call, Calls
<1>3. \/ c.mine /\ calls' = (calls \ {c}) \union {a}
      \/ calls' = calls \ {c}
  <2>1. CASE c.mine /\ (c.kind = "report" => had >= Limit)
    BY <2>1 DEF Answer
  <2>2. CASE ~(c.mine /\ (c.kind = "report" => had >= Limit))
    BY <2>2 DEF Answer
  <2>. QED BY <2>1, <2>2
<1>. QED BY <1>2, <1>3

\* One page is replaced.
LEMMA PageReplaced ==
    ASSUME TypeOK, NEW t \in Tabs, NEW p \in Pages, tab' = [tab EXCEPT ![t] = p]
    PROVE  tab' \in [Tabs -> Pages] /\ tab'[t] = p /\ \A u \in Tabs \ {t} : tab'[u] = tab[u]
BY DEF TypeOK

\* The bound on events leaves room for one more.
LEMMA Spending ==
    ASSUME TypeOK,
           NEW what \in {"leaves", "contests", "overdue", "rest"}, Spend(what)
    PROVE  /\ spent' \in [{"leaves", "contests", "overdue", "rest"} -> 0..MaxEvents]
           /\ spent.leaves < MaxEvents
           /\ spent'.leaves = IF what = "leaves" THEN spent.leaves + 1 ELSE spent.leaves
BY SecureConstants DEF TypeOK, Spend

\* The count of violations stays within the limit.
LEMMA CountBounded ==
    ASSUME NEW n \in Nat
    PROVE  UpToLimit(n) \in 0..Limit
BY SecureConstants DEF UpToLimit

-----------------------------------------------------------------------------
(* What the steps do to pages                                              *)

\* A page is checked and keeps what else it has.
LEMMA CheckedPage ==
    ASSUME TypeOK, NEW t \in Tabs, token < MaxTokens,
           Checked(t)
    PROVE  /\ tab' \in [Tabs -> Pages]
           /\ \A u \in Tabs \ {t} : tab'[u] = tab[u]
           /\ tab'[t].checked /\ tab'[t].token = token + 1 /\ tab'[t].seq = 0
           /\ tab'[t].auth = tab[t].auth /\ tab'[t].open = tab[t].open
           /\ tab'[t].busy = tab[t].busy /\ tab'[t].events = tab[t].events
<1>. DEFINE p == [tab[t] EXCEPT !.checked = TRUE, !.token = token + 1, !.seq = 0, !.full = TRUE]
<1>1. /\ p \in Pages
      /\ p.checked /\ p.token = token + 1 /\ p.seq = 0 /\ p.auth = tab[t].auth
      /\ p.open = tab[t].open /\ p.busy = tab[t].busy /\ p.events = tab[t].events
  <2>1. token + 1 \in 0..MaxTokens /\ 0 \in 0..MaxBeats
    BY SecureConstants DEF TypeOK
  <2>. QED BY <2>1, PageTypes DEF Pages
<1>2. tab' = [tab EXCEPT ![t] = p]
  BY DEF Checked
<1>. HIDE DEF p
<1>. QED BY <1>1, <1>2, PageReplaced

\* A page that begins is authorised with the token it was checked with, or has to
\* be checked again.
LEMMA BeginPage ==
    ASSUME TypeOK, NEW t \in Tabs, Begin(t)
    PROVE  /\ tab' \in [Tabs -> Pages]
           /\ \A u \in Tabs \ {t} : tab'[u] = tab[u]
           /\ tab'[t].events = tab[t].events
           /\ \/ /\ MayBegin(t)
                 /\ tab'[t].auth /\ ~tab'[t].checked /\ tab'[t].token = tab[t].token
                 /\ tab'[t].seq = tab[t].seq /\ tab'[t].open = tab[t].open
                 /\ tab'[t].busy = tab[t].busy
              \/ /\ ~MayBegin(t)
                 /\ ~tab'[t].auth /\ ~tab'[t].checked
<1>1. CASE MayBegin(t)
  <2>. DEFINE p == [tab[t] EXCEPT !.checked = FALSE, !.auth = TRUE]
  <2>1. /\ p \in Pages
        /\ p.auth /\ ~p.checked /\ p.token = tab[t].token /\ p.seq = tab[t].seq
        /\ p.open = tab[t].open /\ p.busy = tab[t].busy /\ p.events = tab[t].events
    BY PageTypes DEF Pages
  <2>2. tab' = [tab EXCEPT ![t] = p]
    BY <1>1 DEF Begin
  <2>. HIDE DEF p
  <2>. QED BY <1>1, <2>1, <2>2, PageReplaced
<1>2. CASE ~MayBegin(t)
  <2>. DEFINE p == Unchecked(tab[t].events)
  <2>1. p \in Pages /\ ~p.auth /\ ~p.checked /\ p.events = tab[t].events
    BY PageTypes, FreshPages
  <2>2. tab' = [tab EXCEPT ![t] = p]
    BY <1>2 DEF Begin
  <2>. HIDE DEF p
  <2>. QED BY <1>2, <2>1, <2>2, PageReplaced
<1>. QED BY <1>1, <1>2

\* A page that sends a heartbeat waits for it, and counts it.
LEMMA SendingPage ==
    ASSUME TypeOK, NEW t \in Tabs, NEW n \in 1..MaxBeats,
           tab' = [tab EXCEPT ![t] = [@ EXCEPT !.busy = TRUE, !.seq = n]]
    PROVE  /\ tab' \in [Tabs -> Pages]
           /\ \A u \in Tabs \ {t} : tab'[u] = tab[u]
           /\ tab'[t].busy /\ tab'[t].seq = n
           /\ tab'[t].auth = tab[t].auth /\ tab'[t].checked = tab[t].checked
           /\ tab'[t].token = tab[t].token /\ tab'[t].open = tab[t].open
           /\ tab'[t].events = tab[t].events
<1>. DEFINE p == [tab[t] EXCEPT !.busy = TRUE, !.seq = n]
<1>1. /\ p \in Pages
      /\ p.busy /\ p.seq = n /\ p.auth = tab[t].auth /\ p.checked = tab[t].checked
      /\ p.token = tab[t].token /\ p.open = tab[t].open /\ p.events = tab[t].events
  <2>1. n \in 0..MaxBeats
    BY SecureConstants
  <2>. QED BY <2>1, PageTypes DEF Pages
<1>2. tab' = [tab EXCEPT ![t] = p]
  OBVIOUS
<1>. HIDE DEF p
<1>. QED BY <1>1, <1>2, PageReplaced

\* Leaving and entering full screen leave the rest of the page as it is, but for
\* the number of the departure.
LEMMA FullscreenPage ==
    ASSUME TypeOK, NEW t \in Tabs, NEW on \in BOOLEAN,
           NEW e \in 0..MaxEvents,
           \/ tab' = [tab EXCEPT ![t].full = on] /\ e = tab[t].events
           \/ tab' = [tab EXCEPT ![t] = [@ EXCEPT !.full = on, !.events = e]]
    PROVE  /\ tab' \in [Tabs -> Pages]
           /\ \A u \in Tabs \ {t} : tab'[u] = tab[u]
           /\ tab'[t].events = e
           /\ tab'[t].auth = tab[t].auth /\ tab'[t].checked = tab[t].checked
           /\ tab'[t].token = tab[t].token /\ tab'[t].seq = tab[t].seq
           /\ tab'[t].open = tab[t].open /\ tab'[t].busy = tab[t].busy
<1>1. CASE tab' = [tab EXCEPT ![t].full = on] /\ e = tab[t].events
  <2>. DEFINE p == [tab[t] EXCEPT !.full = on]
  <2>1. /\ p \in Pages
        /\ p.events = e /\ p.auth = tab[t].auth /\ p.checked = tab[t].checked
        /\ p.token = tab[t].token /\ p.seq = tab[t].seq /\ p.open = tab[t].open
        /\ p.busy = tab[t].busy
    BY <1>1, PageTypes DEF Pages
  <2>2. tab' = [tab EXCEPT ![t] = p]
    BY <1>1
  <2>. HIDE DEF p
  <2>. QED BY <2>1, <2>2, PageReplaced
<1>2. CASE tab' = [tab EXCEPT ![t] = [@ EXCEPT !.full = on, !.events = e]]
  <2>. DEFINE p == [tab[t] EXCEPT !.full = on, !.events = e]
  <2>1. /\ p \in Pages
        /\ p.events = e /\ p.auth = tab[t].auth /\ p.checked = tab[t].checked
        /\ p.token = tab[t].token /\ p.seq = tab[t].seq /\ p.open = tab[t].open
        /\ p.busy = tab[t].busy
    BY PageTypes DEF Pages
  <2>2. tab' = [tab EXCEPT ![t] = p]
    BY <1>2
  <2>. HIDE DEF p
  <2>. QED BY <2>1, <2>2, PageReplaced
<1>. QED BY <1>1, <1>2

\* A page that gives a call up waits for no heartbeat, if it was one.
LEMMA GiveUpPage ==
    ASSUME TypeOK, NEW t \in Tabs, NEW on \in BOOLEAN,
           \/ tab' = [tab EXCEPT ![t].busy = @ /\ on]
           \/ tab' = [tab EXCEPT ![t] = [@ EXCEPT !.busy = tab[t].busy /\ on]]
    PROVE  /\ tab' \in [Tabs -> Pages]
           /\ \A u \in Tabs \ {t} : tab'[u] = tab[u]
           /\ tab'[t].events = tab[t].events /\ SameSession(tab[t], tab'[t])
           /\ on => tab'[t].busy = tab[t].busy
<1>. DEFINE b == tab[t].busy /\ on
            p == [tab[t] EXCEPT !.busy = b]
<1>1. b \in BOOLEAN /\ (on => b = tab[t].busy)
  BY PageTypes
<1>2. /\ p \in Pages
      /\ p.events = tab[t].events /\ SameSession(tab[t], p) /\ p.busy = b
  <2>. HIDE DEF b
  <2>. QED BY <1>1, PageTypes DEF Pages, SameSession
<1>3. tab' = [tab EXCEPT ![t] = p]
  OBVIOUS
<1>. HIDE DEF p, b
<1>. QED BY <1>1, <1>2, <1>3, PageReplaced

\* A page that hears of a call is as it was, or has stopped waiting for a
\* heartbeat, or is closed, or has to be checked again.
LEMMA HearPage ==
    ASSUME TypeOK, NEW c \in calls, Hear(c)
    PROVE  /\ tab' \in [Tabs -> Pages]
           /\ \A u \in Tabs \ {c.tab} : tab'[u] = tab[u]
           /\ tab'[c.tab].events = tab[c.tab].events
           /\ \/ tab'[c.tab] = tab[c.tab] /\ ~tab[c.tab].open
              \/ ~HasToken(tab'[c.tab]) /\ (c.kind = "report" => ~tab'[c.tab].open)
              \/ /\ SameSession(tab[c.tab], tab'[c.tab])
                 /\ c.kind # "beat" => tab'[c.tab].busy = tab[c.tab].busy
<1>1. c.tab \in Tabs /\ c.kind \in {"beat", "report"}
  BY CallTypes
<1>. DEFINE t == c.tab
<1>2. tab[t].events \in 0..MaxEvents
  BY <1>1, PageTypes
<1>3. CASE ~tab[t].open
  <2>1. tab' = [tab EXCEPT ![t] = tab[t]]
    BY <1>3 DEF Hear
  <2>. QED BY <1>1, <1>3, <2>1, PageTypes, PageReplaced
<1>4. CASE tab[t].open /\ ToldOfLimit(c)
  <2>. DEFINE p == Closed(tab[t].events)
  <2>1. p \in Pages /\ ~HasToken(p) /\ ~p.open /\ p.events = tab[t].events
    BY <1>2, FreshPages DEF HasToken
  <2>2. tab' = [tab EXCEPT ![t] = p]
    BY <1>4 DEF Hear
  <2>. HIDE DEF p
  <2>. QED BY <1>1, <2>1, <2>2, PageReplaced
<1>5. CASE tab[t].open /\ ~ToldOfLimit(c) /\ c.kind = "beat" /\ c.at = "refused"
  <2>. DEFINE p == Unchecked(tab[t].events)
  <2>1. p \in Pages /\ ~HasToken(p) /\ p.events = tab[t].events
    BY <1>2, FreshPages DEF HasToken
  <2>2. tab' = [tab EXCEPT ![t] = p]
    BY <1>5 DEF Hear
  <2>. HIDE DEF p
  <2>. QED BY <1>1, <1>5, <2>1, <2>2, PageReplaced
<1>6. CASE tab[t].open /\ ~ToldOfLimit(c) /\ ~(c.kind = "beat" /\ c.at = "refused")
  <2>1. tab' = [tab EXCEPT ![t] = [@ EXCEPT !.busy = tab[t].busy /\ c.kind # "beat"]]
    BY <1>6 DEF Hear
  <2>2. (c.kind # "beat") \in BOOLEAN
    OBVIOUS
  <2>. QED BY <1>1, <2>1, <2>2, GiveUpPage
<1>. QED BY <1>3, <1>4, <1>5, <1>6

\* A page that is closed, or loaded anew.
LEMMA LeftPage ==
    ASSUME TypeOK, NEW t \in Tabs,
           \/ tab' = [tab EXCEPT ![t] = Closed(@.events)]
           \/ tab' = [tab EXCEPT ![t] = Unchecked(@.events)]
    PROVE  /\ tab' \in [Tabs -> Pages]
           /\ \A u \in Tabs \ {t} : tab'[u] = tab[u]
           /\ tab'[t].events = tab[t].events /\ ~HasToken(tab'[t])
           /\ tab' = [tab EXCEPT ![t] = Closed(@.events)] => ~tab'[t].open
<1>1. tab[t].events \in 0..MaxEvents
  BY PageTypes
<1>. DEFINE p == Closed(tab[t].events)
            q == Unchecked(tab[t].events)
<1>2. /\ p \in Pages /\ p.events = tab[t].events /\ ~HasToken(p) /\ ~p.open
      /\ q \in Pages /\ q.events = tab[t].events /\ ~HasToken(q)
  BY <1>1, FreshPages DEF HasToken
<1>3. \/ tab' = [tab EXCEPT ![t] = p]
      \/ tab' = [tab EXCEPT ![t] = q] /\ ~tab' = [tab EXCEPT ![t] = p]
  OBVIOUS
<1>. HIDE DEF p, q
<1>4. CASE tab' = [tab EXCEPT ![t] = p]
  BY <1>2, <1>4, PageReplaced
<1>5. CASE tab' = [tab EXCEPT ![t] = q] /\ ~tab' = [tab EXCEPT ![t] = p]
  BY <1>2, <1>5, PageReplaced DEF p
<1>. QED BY <1>3, <1>4, <1>5

-----------------------------------------------------------------------------
(* The steps that change neither pages nor calls                           *)

\* What stays when pages and calls stay.
LEMMA PagesAndCallsStay ==
    ASSUME SecureTyped, UNCHANGED <<tab, calls>>,
           spent' \in [{"leaves", "contests", "overdue", "rest"} -> 0..MaxEvents],
           spent'.leaves = spent.leaves
    PROVE  EventsAreSpent' /\ Numbered'
BY DEF SecureTyped, EventsAreSpent, Numbered, UnderWay, TypeOK

\* The binding of the attempt to a tab.
LEMMA BindTypes ==
    ASSUME TypeOK, NEW t \in Tabs, Bind(t)
    PROVE  /\ token < MaxTokens /\ token' = token + 1 /\ token' \in 0..MaxTokens
           /\ owner' = t /\ media' \in BOOLEAN
           /\ haunted \subseteq haunted' /\ haunted' \subseteq Tabs
           /\ ~tab[t].auth /\ tab[t].open /\ ~tab[t].checked /\ ~Over
           /\ (\E c \in calls : c.kind = "beat" /\ c.at = "loaded") => t \in haunted'
<1>1. token \in 0..MaxTokens /\ MaxTokens \in Nat /\ haunted \subseteq Tabs
  BY SecureConstants DEF TypeOK
<1>. QED BY <1>1 DEF Bind

\* A preflight takes the next token, whether or not its answer arrives.
LEMMA PreflightTypes ==
    ASSUME SecureTyped, NEW t \in Tabs,
           Preflight(t) \/ PreflightLost(t)
    PROVE  SecureTyped'
<1>. USE DEF SecureTyped
<1>1. Bind(t) /\ beat' = 0 /\ 0 \in 0..MaxBeats /\ UNCHANGED <<status, flags, calls>>
  BY SecureConstants DEF Preflight, PreflightLost
<1>2. /\ token < MaxTokens /\ token' \in 0..MaxTokens /\ owner' = t /\ media' \in BOOLEAN
      /\ haunted' \subseteq Tabs
  BY <1>1, BindTypes
<1>3. CASE Preflight(t)
  <2>1. Checked(t) /\ spent' = spent
    BY <1>3 DEF Preflight
  <2>2. tab' \in [Tabs -> Pages] /\ \A u \in Tabs : tab'[u].events = tab[u].events
    BY <1>2, <2>1, CheckedPage
  <2>3. EventsAreSpent' /\ Numbered'
    BY <1>1, <2>1, <2>2 DEF EventsAreSpent, Numbered, UnderWay
  <2>. QED BY <1>1, <1>2, <2>1, <2>2, <2>3 DEF TypeOK
<1>4. CASE PreflightLost(t)
  <2>1. Spend("rest") /\ UNCHANGED <<tab, calls>>
    BY <1>4 DEF PreflightLost
  <2>2. /\ spent' \in [{"leaves", "contests", "overdue", "rest"} -> 0..MaxEvents]
        /\ spent'.leaves = spent.leaves
    BY <2>1, Spending
  <2>3. EventsAreSpent' /\ Numbered'
    BY <2>1, <2>2, PagesAndCallsStay
  <2>. QED BY <1>1, <1>2, <2>1, <2>2, <2>3 DEF TypeOK
<1>. QED BY <1>3, <1>4

\* A refused preflight and a save only count.
LEMMA CountingTypes ==
    ASSUME SecureTyped, NEW t \in Tabs,
           PreflightRefused(t) \/ \E late \in BOOLEAN : SaveAnswer(t, late)
    PROVE  SecureTyped'
<1>. USE DEF SecureTyped
<1>1. UNCHANGED <<status, owner, token, beat, media, tab, calls, haunted>>
  BY DEF PreflightRefused, SaveAnswer
<1>2. PICK what \in {"contests", "overdue", "rest"} : Spend(what)
  BY DEF PreflightRefused, SaveAnswer
<1>3. /\ spent' \in [{"leaves", "contests", "overdue", "rest"} -> 0..MaxEvents]
      /\ spent'.leaves = spent.leaves
  BY <1>2, Spending
<1>4. flags' \in [count : 0..Limit, seqs : SUBSET (1..MaxEvents)]
  <2>1. flags \in [count : 0..Limit, seqs : SUBSET (1..MaxEvents)] /\ flags.count \in Nat
    BY SecureConstants DEF TypeOK
  <2>2. \E n \in Nat : flags' = [flags EXCEPT !.count = UpToLimit(n)]
    <3>1. CASE PreflightRefused(t)
      <4>1. flags' = [flags EXCEPT !.count = UpToLimit(flags.count + 1)]
        BY <3>1 DEF PreflightRefused
      <4>. QED BY <2>1, <4>1
    <3>2. ASSUME NEW late \in BOOLEAN, SaveAnswer(t, late)
          PROVE  \E n \in Nat : flags' = [flags EXCEPT !.count = UpToLimit(n)]
      <4>1. flags' = [flags EXCEPT !.count = UpToLimit(flags.count
                        + ((IF media THEN 0 ELSE 1) + (IF late THEN 1 ELSE 0)))]
        BY <3>2 DEF SaveAnswer
      <4>2. flags.count + ((IF media THEN 0 ELSE 1) + (IF late THEN 1 ELSE 0)) \in Nat
        BY <2>1
      <4>. QED BY <4>1, <4>2
    <3>. QED BY <3>1, <3>2
  <2>. QED BY <2>1, <2>2, CountBounded
<1>5. EventsAreSpent' /\ Numbered'
  BY <1>1, <1>3, PagesAndCallsStay
<1>. QED BY <1>1, <1>3, <1>4, <1>5 DEF TypeOK

-----------------------------------------------------------------------------
(* Types: the steps of pages                                               *)

LEMMA BeginTypes ==
    ASSUME SecureTyped, NEW t \in Tabs, Begin(t)
    PROVE  SecureTyped'
<1>. USE DEF SecureTyped
<1>1. /\ UNCHANGED <<owner, token, beat, media, flags, calls, spent, haunted>>
      /\ status' \in {status, "in_progress"}
  BY DEF Begin
<1>2. tab' \in [Tabs -> Pages] /\ \A u \in Tabs : tab'[u].events = tab[u].events
  BY BeginPage
<1>3. EventsAreSpent' /\ Numbered'
  BY <1>1, <1>2 DEF EventsAreSpent, Numbered, UnderWay
<1>. QED BY <1>1, <1>2, <1>3 DEF TypeOK

LEMMA SubmitTypes ==
    ASSUME SecureTyped, NEW t \in Tabs, Submit(t)
    PROVE  SecureTyped'
<1>. USE DEF SecureTyped
<1>1. /\ UNCHANGED <<owner, token, beat, media, flags, calls, spent, haunted>>
      /\ status' = "submitted" /\ tab' = [tab EXCEPT ![t] = Closed(@.events)]
  BY DEF Submit
<1>2. tab' \in [Tabs -> Pages] /\ \A u \in Tabs : tab'[u].events = tab[u].events
  BY <1>1, LeftPage
<1>3. EventsAreSpent' /\ Numbered'
  BY <1>1, <1>2 DEF EventsAreSpent, Numbered, UnderWay
<1>. QED BY <1>1, <1>2, <1>3 DEF TypeOK

\* The number of a heartbeat is within its bound, and beat stays in its own.
LEMMA BeatNumber ==
    ASSUME TypeOK, NEW t \in Tabs, NEW armed \in BOOLEAN,
           SendBeat(t, armed)
    PROVE  /\ UNCHANGED <<status, owner, token, media, flags, spent, haunted>>
           /\ tab[t].open /\ tab[t].auth /\ ~tab[t].busy
           /\ \E n \in 1..MaxBeats, active \in BOOLEAN :
                 /\ tab' = [tab EXCEPT ![t] = [@ EXCEPT !.busy = TRUE, !.seq = n]]
                 /\ calls' = calls \union {Call("beat", t, n, active)}
                 /\ \/ /\ \A c \in calls : c.kind = "beat" => c.token # tab[t].token
                       /\ n = 1
                       /\ beat' = IF tab[t].token = token
                                  THEN (IF beat > tab[t].seq THEN 1 ELSE 0) ELSE beat
                    \/ n = tab[t].seq + 1 /\ beat' = beat
<1>. DEFINE anew == \A c \in calls : c.kind = "beat" => c.token # tab[t].token
            n == IF anew THEN 1 ELSE tab[t].seq + 1
            active == armed => tab[t].full
<1>1. n \in 1..MaxBeats
  BY PageTypes, SecureConstants DEF SendBeat
<1>2. active \in BOOLEAN
  OBVIOUS
<1>3. /\ tab' = [tab EXCEPT ![t] = [@ EXCEPT !.busy = TRUE, !.seq = n]]
      /\ calls' = calls \union {Call("beat", t, n, active)}
      /\ beat' = IF anew /\ tab[t].token = token THEN (IF beat > tab[t].seq THEN 1 ELSE 0)
                 ELSE beat
      /\ UNCHANGED <<status, owner, token, media, flags, spent, haunted>>
      /\ tab[t].open /\ tab[t].auth /\ ~tab[t].busy
  BY DEF SendBeat
<1>4. \/ /\ anew /\ n = 1
         /\ beat' = IF tab[t].token = token THEN (IF beat > tab[t].seq THEN 1 ELSE 0) ELSE beat
      \/ n = tab[t].seq + 1 /\ beat' = beat
  BY <1>3
<1>. HIDE DEF n, active
<1>. QED BY <1>1, <1>2, <1>3, <1>4

LEMMA SendBeatTypes ==
    ASSUME SecureTyped, NEW t \in Tabs, NEW armed \in BOOLEAN,
           SendBeat(t, armed)
    PROVE  SecureTyped'
<1>. USE DEF SecureTyped
<1>1. UNCHANGED <<status, owner, token, media, flags, spent, haunted>>
  BY BeatNumber
<1>2. PICK n \in 1..MaxBeats, active \in BOOLEAN :
        /\ tab' = [tab EXCEPT ![t] = [@ EXCEPT !.busy = TRUE, !.seq = n]]
        /\ calls' = calls \union {Call("beat", t, n, active)}
        /\ beat' \in {0, 1, beat}
  BY BeatNumber
<1>3. tab' \in [Tabs -> Pages] /\ \A u \in Tabs : tab'[u].events = tab[u].events
  BY <1>2, SendingPage
<1>4. beat' \in 0..MaxBeats
  BY <1>2, SecureConstants DEF TypeOK
<1>. DEFINE c == Call("beat", t, n, active)
<1>5. c \in Calls /\ c.number = n /\ c.kind = "beat"
  <2>1. n \in Nat
    BY SecureConstants
  <2>. QED BY <2>1, CallFields
<1>6. calls' \subseteq Calls
  BY <1>2, <1>5 DEF TypeOK
<1>7. EventsAreSpent' /\ Numbered'
  <2>. HIDE DEF c
  <2>. QED BY <1>1, <1>2, <1>3, <1>5 DEF EventsAreSpent, Numbered, UnderWay, c
<1>. QED BY <1>1, <1>3, <1>4, <1>6, <1>7 DEF TypeOK

\* A page leaves full screen and may report it.
LEMMA DepartureEffect ==
    ASSUME SecureTyped, NEW t \in Tabs, NEW armed \in BOOLEAN,
           LeaveFullscreen(t, armed)
    PROVE  /\ UNCHANGED <<status, owner, token, beat, media, flags, haunted>>
           /\ spent' \in [{"leaves", "contests", "overdue", "rest"} -> 0..MaxEvents]
           /\ spent'.leaves = spent.leaves + 1
           /\ tab' \in [Tabs -> Pages]
           /\ \A u \in Tabs \ {t} : tab'[u] = tab[u]
           /\ tab'[t].events \in {tab[t].events, tab[t].events + 1}
           /\ SameSession(tab[t], tab'[t]) /\ tab'[t].busy = tab[t].busy
           /\ calls \subseteq calls'
           /\ \A c \in calls' \ calls :
                 c \in Calls /\ c.kind = "report" /\ c.number \in 1..MaxEvents
<1>. USE DEF SecureTyped
<1>1. UNCHANGED <<status, owner, token, beat, media, flags, haunted>> /\ Spend("leaves")
  BY DEF LeaveFullscreen, attempt
<1>2. /\ spent' \in [{"leaves", "contests", "overdue", "rest"} -> 0..MaxEvents]
      /\ spent'.leaves = spent.leaves + 1 /\ spent.leaves < MaxEvents
  BY <1>1, Spending
<1>3. /\ tab[t].events + 1 \in 1..MaxEvents /\ tab[t].events + 1 \in 0..MaxEvents
      /\ tab[t].events + 1 \in Nat /\ tab[t].events \in 0..MaxEvents
  <2>1. spent.leaves \in 0..MaxEvents /\ MaxEvents \in Nat
    BY SecureConstants DEF TypeOK
  <2>. QED BY <1>2, <2>1, PageTypes DEF EventsAreSpent
<1>4. CASE armed
  <2>. DEFINE c == Call("report", t, tab[t].events + 1, FALSE)
  <2>1. /\ tab' = [tab EXCEPT ![t] = [@ EXCEPT !.full = FALSE, !.events = tab[t].events + 1]]
        /\ calls' = calls \union {c}
    BY <1>4 DEF LeaveFullscreen
  <2>2. c \in Calls /\ c.kind = "report" /\ c.number = tab[t].events + 1
    <3>1. \A n \in Nat, active \in BOOLEAN :
            /\ Call("report", t, n, active) \in Calls
            /\ Call("report", t, n, active).kind = "report"
            /\ Call("report", t, n, active).number = n
      BY CallFields
    <3>2. FALSE \in BOOLEAN
      OBVIOUS
    <3>. QED BY <1>3, <3>1, <3>2
  <2>. HIDE DEF c
  <2>3. /\ tab' \in [Tabs -> Pages]
        /\ \A u \in Tabs \ {t} : tab'[u] = tab[u]
        /\ tab'[t].events = tab[t].events + 1
        /\ SameSession(tab[t], tab'[t]) /\ tab'[t].busy = tab[t].busy
    BY <1>3, <2>1, FullscreenPage DEF SameSession
  <2>. QED BY <1>1, <1>2, <1>3, <2>1, <2>2, <2>3
<1>5. CASE ~armed
  <2>1. tab' = [tab EXCEPT ![t].full = FALSE] /\ calls' = calls
    BY <1>5 DEF LeaveFullscreen
  <2>. QED BY <1>1, <1>2, <1>3, <2>1, FullscreenPage DEF SameSession
<1>. QED BY <1>4, <1>5

LEMMA DepartureTypes ==
    ASSUME SecureTyped, NEW t \in Tabs, NEW armed \in BOOLEAN,
           LeaveFullscreen(t, armed)
    PROVE  SecureTyped'
<1>. USE DEF SecureTyped
<1>1. EventsAreSpent'
  <2>1. spent.leaves \in 0..MaxEvents /\ MaxEvents \in Nat
    BY SecureConstants DEF TypeOK
  <2>2. SUFFICES ASSUME NEW u \in Tabs PROVE tab'[u].events <= spent.leaves + 1
    BY DepartureEffect DEF EventsAreSpent
  <2>3. tab[u].events <= spent.leaves /\ tab[u].events \in 0..MaxEvents
    BY PageTypes DEF EventsAreSpent
  <2>. QED BY <2>1, <2>3, DepartureEffect
<1>2. Numbered'
  BY DepartureEffect DEF Numbered, UnderWay
<1>3. TypeOK'
  BY DepartureEffect DEF TypeOK
<1>. QED BY <1>1, <1>2, <1>3

\* A page is in full screen again.
LEMMA ReturnEffect ==
    ASSUME TypeOK, NEW t \in Tabs, EnterFullscreen(t)
    PROVE  /\ UNCHANGED <<status, owner, token, beat, media, flags, calls, spent, haunted>>
           /\ tab' \in [Tabs -> Pages]
           /\ \A u \in Tabs \ {t} : tab'[u] = tab[u]
           /\ tab'[t].events = tab[t].events
           /\ SameSession(tab[t], tab'[t]) /\ tab'[t].busy = tab[t].busy
<1>1. /\ UNCHANGED <<status, owner, token, beat, media, flags, calls, spent, haunted>>
      /\ tab' = [tab EXCEPT ![t].full = TRUE]
  BY DEF EnterFullscreen, attempt
<1>2. tab[t].events \in 0..MaxEvents
  BY PageTypes
<1>. QED BY <1>1, <1>2, FullscreenPage DEF SameSession

LEMMA ReturnTypes ==
    ASSUME SecureTyped, NEW t \in Tabs, EnterFullscreen(t)
    PROVE  SecureTyped'
<1>. USE DEF SecureTyped
<1>1. EventsAreSpent' /\ Numbered'
  BY ReturnEffect DEF EventsAreSpent, Numbered, UnderWay
<1>. QED BY <1>1, ReturnEffect DEF TypeOK

-----------------------------------------------------------------------------
(* Types: the steps of handlers, and what pages hear                       *)

\* What a handler loads becomes part of its call, or the call is refused.
LEMMA LoadEffect ==
    ASSUME SecureTyped, NEW c \in calls, HandlerLoads(c)
    PROVE  /\ UNCHANGED <<status, owner, token, beat, media, flags, tab, spent, haunted>>
           /\ c.at = "sent" /\ c \notin calls'
           /\ \A d, e \in calls' \ (calls \ {c}) : d = e
           /\ \A d \in calls' : d \in calls \ {c} \/
                 /\ d \in Calls
                 /\ d.kind = c.kind /\ d.tab = c.tab /\ d.token = c.token /\ (d.mine => c.mine)
                 /\ \/ d.at = "refused" /\ c.mine /\ d.mine /\ Rejected(c)
                    \/ /\ d.at = "loaded" /\ ~Rejected(c)
                       /\ d.number = c.number /\ d.mine = c.mine
<1>. USE DEF SecureTyped
<1>1. /\ UNCHANGED <<status, owner, token, beat, media, flags, tab, spent, haunted>>
      /\ c.at = "sent"
  BY DEF HandlerLoads, attempt
<1>2. CASE Rejected(c)
  <2>1. Answer(c, "refused", 0) /\ 0 \in 0..Limit
    BY <1>2, SecureConstants DEF HandlerLoads
  <2>. QED BY <1>1, <1>2, <2>1, AnswerReplaces
<1>3. CASE ~Rejected(c)
  <2>. DEFINE d == [c EXCEPT !.at = "loaded", !.live = status = "in_progress",
                             !.had = flags.count, !.was = media,
                             !.known = c.kind = "report" /\ c.number \in flags.seqs]
  <2>1. calls' = (calls \ {c}) \union {d}
    BY <1>3 DEF HandlerLoads
  <2>2. flags.count \in 0..Limit /\ media \in BOOLEAN
    BY DEF TypeOK
  <2>3. /\ d \in Calls /\ d.at = "loaded" /\ d.kind = c.kind /\ d.tab = c.tab
        /\ d.token = c.token /\ d.number = c.number /\ d.mine = c.mine
    BY <2>2, CallTypes DEF Calls
  <2>. HIDE DEF d
  <2>. QED BY <1>1, <1>3, <2>1, <2>3
<1>. QED BY <1>2, <1>3

LEMMA LoadTypes ==
    ASSUME SecureTyped, NEW c \in calls, HandlerLoads(c)
    PROVE  SecureTyped'
<1>. USE DEF SecureTyped
<1>1. UNCHANGED <<status, owner, token, beat, media, flags, tab, spent, haunted>> /\ c.at = "sent"
  BY LoadEffect
<1>2. EventsAreSpent'
  BY <1>1 DEF EventsAreSpent
<1>3. Numbered'
  BY <1>1, LoadEffect DEF Numbered, UnderWay
<1>4. calls' \subseteq Calls
  BY LoadEffect DEF TypeOK
<1>. QED BY <1>1, <1>2, <1>3, <1>4 DEF TypeOK

\* A commit records the call and answers it.
LEMMA CommitEffect ==
    ASSUME SecureTyped, NEW c \in calls, HandlerCommits(c)
    PROVE  /\ UNCHANGED <<owner, token, tab, spent, haunted>>
           /\ status' \in {status, "violated"} /\ media' \in BOOLEAN
           /\ beat' = IF c.kind = "beat" THEN c.number ELSE beat
           /\ flags' \in [count : 0..Limit, seqs : SUBSET (1..MaxEvents)]
           /\ c.at = "loaded" /\ c \notin calls'
           /\ \A d, e \in calls' \ (calls \ {c}) : d = e
           /\ \A d \in calls' : d \in calls \ {c} \/
                 /\ d \in Calls /\ c.mine /\ d.mine
                 /\ d.kind = c.kind /\ d.tab = c.tab /\ d.token = c.token /\ d.at = "done"
<1>. USE DEF SecureTyped
<1>1. /\ UNCHANGED <<owner, token, tab, spent, haunted>> /\ status' \in {status, "violated"}
      /\ c.at = "loaded" /\ Record(c)
  BY DEF HandlerCommits
<1>2. flags.count \in Nat /\ flags.seqs \in SUBSET (1..MaxEvents)
  BY SecureConstants DEF TypeOK
<1>3. UpToLimit(flags.count + Adds(c)) \in 0..Limit
  <2>1. flags.count + Adds(c) \in Nat
    BY <1>2 DEF Adds
  <2>. QED BY <2>1, CountBounded
<1>4. flags' \in [count : 0..Limit, seqs : SUBSET (1..MaxEvents)]
  <2>1. c.kind = "report" => c.number \in 1..MaxEvents
    BY <1>1 DEF Numbered, UnderWay
  <2>. QED BY <1>1, <1>2, <1>3, <2>1 DEF Record
<1>5. /\ media' \in BOOLEAN /\ beat' = IF c.kind = "beat" THEN c.number ELSE beat
      /\ Answer(c, "done", UpToLimit(flags.count + Adds(c)))
  BY <1>1, CallTypes DEF Record
<1>6. /\ \A d, e \in calls' \ (calls \ {c}) : d = e
      /\ \A d \in calls' : d \in calls \ {c} \/
            /\ d \in Calls /\ c.mine /\ d.mine
            /\ d.kind = c.kind /\ d.tab = c.tab /\ d.token = c.token /\ d.at = "done"
  BY <1>3, <1>5, AnswerReplaces
<1>7. c \notin calls'
  BY <1>1, <1>3, <1>5, AnswerReplaces
<1>. QED BY <1>1, <1>4, <1>5, <1>6, <1>7

LEMMA CommitTypes ==
    ASSUME SecureTyped, NEW c \in calls, HandlerCommits(c)
    PROVE  SecureTyped'
<1>. USE DEF SecureTyped
<1>1. beat' \in 0..MaxBeats
  <2>1. c.kind = "beat" => c.number \in 1..MaxBeats
    BY CommitEffect DEF Numbered, UnderWay
  <2>. QED BY <2>1, CommitEffect, SecureConstants DEF TypeOK
<1>2. EventsAreSpent'
  BY CommitEffect DEF EventsAreSpent
<1>3. Numbered'
  BY CommitEffect DEF Numbered, UnderWay
<1>. QED BY <1>1, <1>2, <1>3, CommitEffect DEF TypeOK

\* What a page has heard is gone.
LEMMA HearTypes ==
    ASSUME SecureTyped, NEW c \in calls, Hear(c)
    PROVE  SecureTyped'
<1>. USE DEF SecureTyped
<1>1. /\ UNCHANGED <<status, owner, token, beat, media, flags, spent, haunted>>
      /\ calls' = calls \ {c}
  BY DEF Hear, attempt
<1>2. tab' \in [Tabs -> Pages] /\ \A u \in Tabs : tab'[u].events = tab[u].events
  BY CallTypes, HearPage
<1>3. EventsAreSpent' /\ Numbered'
  BY <1>1, <1>2 DEF EventsAreSpent, Numbered, UnderWay
<1>. QED BY <1>1, <1>2, <1>3 DEF TypeOK

\* A call nobody listens to any more.
LEMMA Unheard ==
    ASSUME TypeOK, NEW c \in calls
    PROVE  /\ [c EXCEPT !.mine = FALSE] \in Calls
           /\ [c EXCEPT !.mine = FALSE].mine = FALSE
           /\ [c EXCEPT !.mine = FALSE].kind = c.kind /\ [c EXCEPT !.mine = FALSE].tab = c.tab
           /\ [c EXCEPT !.mine = FALSE].token = c.token /\ [c EXCEPT !.mine = FALSE].at = c.at
           /\ [c EXCEPT !.mine = FALSE].number = c.number
BY CallTypes DEF Calls

\* What is given up is gone, or goes on without a listener.
LEMMA GiveUpEffect ==
    ASSUME TypeOK, NEW c \in calls, GiveUp(c)
    PROVE  /\ UNCHANGED <<status, owner, token, beat, media, flags, haunted>> /\ c.mine
           /\ spent' \in [{"leaves", "contests", "overdue", "rest"} -> 0..MaxEvents]
           /\ spent'.leaves = spent.leaves
           /\ tab' \in [Tabs -> Pages]
           /\ \A u \in Tabs \ {c.tab} : tab'[u] = tab[u]
           /\ tab'[c.tab].events = tab[c.tab].events /\ SameSession(tab[c.tab], tab'[c.tab])
           /\ c.kind # "beat" => tab'[c.tab].busy = tab[c.tab].busy
           /\ c \notin calls'
           /\ \A d \in calls' : d \in calls \ {c} \/
                 /\ d \in Calls /\ ~d.mine /\ UnderWay(d)
                 /\ d.kind = c.kind /\ d.tab = c.tab /\ d.token = c.token /\ d.at = c.at
                 /\ d.number = c.number
<1>1. UNCHANGED <<status, owner, token, beat, media, flags, haunted>> /\ c.mine
  BY DEF GiveUp, attempt
<1>2. /\ spent' \in [{"leaves", "contests", "overdue", "rest"} -> 0..MaxEvents]
      /\ spent'.leaves = spent.leaves
  BY Spending DEF GiveUp
<1>3. /\ tab' \in [Tabs -> Pages]
      /\ \A u \in Tabs \ {c.tab} : tab'[u] = tab[u]
      /\ tab'[c.tab].events = tab[c.tab].events /\ SameSession(tab[c.tab], tab'[c.tab])
      /\ c.kind # "beat" => tab'[c.tab].busy = tab[c.tab].busy
  <2>1. tab' = [tab EXCEPT ![c.tab].busy = @ /\ (c.kind # "beat")]
    BY DEF GiveUp
  <2>2. (c.kind # "beat") \in BOOLEAN /\ c.tab \in Tabs
    BY CallTypes
  <2>. QED BY <2>1, <2>2, GiveUpPage
<1>4. \A d \in calls' : d \in calls \ {c} \/ (d = [c EXCEPT !.mine = FALSE] /\ UnderWay(c))
  BY DEF GiveUp, UnderWay
<1>5. c \notin calls'
  BY <1>1, <1>4, Unheard
<1>. QED BY <1>1, <1>2, <1>3, <1>4, <1>5, Unheard DEF UnderWay

LEMMA GiveUpTypes ==
    ASSUME SecureTyped, NEW c \in calls, GiveUp(c)
    PROVE  SecureTyped'
<1>. USE DEF SecureTyped
<1>1. EventsAreSpent'
  BY GiveUpEffect, CallTypes DEF EventsAreSpent
<1>2. Numbered'
  BY GiveUpEffect DEF Numbered, UnderWay
<1>. QED BY <1>1, <1>2, GiveUpEffect DEF TypeOK

\* A page that is loaded anew listens to nothing the old one sent.
LEMMA ReloadEffect ==
    ASSUME TypeOK, NEW t \in Tabs, Reload(t)
    PROVE  /\ UNCHANGED <<status, owner, token, beat, media, flags, haunted>>
           /\ spent' \in [{"leaves", "contests", "overdue", "rest"} -> 0..MaxEvents]
           /\ spent'.leaves = spent.leaves
           /\ tab' \in [Tabs -> Pages]
           /\ \A u \in Tabs \ {t} : tab'[u] = tab[u]
           /\ tab'[t].events = tab[t].events /\ ~HasToken(tab'[t])
           /\ \A d \in calls' : d.tab = t => ~d.mine
           /\ \A d \in calls' : (d \in calls /\ d.tab # t) \/ \E c \in calls :
                 /\ c.tab = t /\ d \in Calls /\ ~d.mine /\ UnderWay(d)
                 /\ d.kind = c.kind /\ d.tab = c.tab /\ d.token = c.token /\ d.at = c.at
                 /\ d.number = c.number
<1>1. UNCHANGED <<status, owner, token, beat, media, flags, haunted>>
  BY DEF Reload, attempt
<1>2. /\ spent' \in [{"leaves", "contests", "overdue", "rest"} -> 0..MaxEvents]
      /\ spent'.leaves = spent.leaves
  BY Spending DEF Reload
<1>3. /\ tab' \in [Tabs -> Pages]
      /\ \A u \in Tabs \ {t} : tab'[u] = tab[u]
      /\ tab'[t].events = tab[t].events /\ ~HasToken(tab'[t])
  BY LeftPage DEF Reload
<1>4. \A d \in calls' : (d \in calls /\ d.tab # t) \/ \E c \in calls :
          c.tab = t /\ UnderWay(c) /\ d = [c EXCEPT !.mine = FALSE]
  BY DEF Reload, UnderWay
<1>5. ASSUME NEW d \in calls', NEW c \in calls, c.tab = t, UnderWay(c),
             d = [c EXCEPT !.mine = FALSE]
      PROVE  /\ d \in Calls /\ ~d.mine /\ UnderWay(d)
             /\ d.kind = c.kind /\ d.tab = c.tab /\ d.token = c.token /\ d.at = c.at
             /\ d.number = c.number
  BY <1>5, Unheard DEF UnderWay
<1>6. \A d \in calls' : (d \in calls /\ d.tab # t) \/ \E c \in calls :
          /\ c.tab = t /\ d \in Calls /\ ~d.mine /\ UnderWay(d)
          /\ d.kind = c.kind /\ d.tab = c.tab /\ d.token = c.token /\ d.at = c.at
          /\ d.number = c.number
  BY <1>4, <1>5
<1>7. \A d \in calls' : d.tab = t => ~d.mine
  BY <1>6
<1>. QED BY <1>1, <1>2, <1>3, <1>6, <1>7

LEMMA ReloadTypes ==
    ASSUME SecureTyped, NEW t \in Tabs, Reload(t)
    PROVE  SecureTyped'
<1>. USE DEF SecureTyped
<1>1. EventsAreSpent'
  BY ReloadEffect DEF EventsAreSpent
<1>2. Numbered'
  BY ReloadEffect DEF Numbered, UnderWay
<1>. QED BY <1>1, <1>2, ReloadEffect DEF TypeOK

-----------------------------------------------------------------------------
(* Heartbeats: the steps that give nobody more                             *)

\* Heartbeats stay as they are or lose their listener; none is new.
BeatsFade ==
    \A d \in calls' : d.kind = "beat" => \E c \in calls :
        /\ d.kind = c.kind /\ d.tab = c.tab /\ d.token = c.token /\ d.at = c.at
        /\ d.number = c.number
        /\ d.mine => d = c
        /\ d = c \/ c \notin calls' \/ ~c.mine
        /\ d = c \/ UnderWay(d)

\* A page keeps the token it has, or loses it; one that listens to a heartbeat
\* keeps it.
PagesFade ==
    \A t \in Tabs :
        /\ HasToken(tab'[t]) =>
              /\ HasToken(tab[t]) /\ ~(tab'[t].auth /\ tab'[t].checked)
              /\ tab'[t].token = tab[t].token /\ tab'[t].seq = tab[t].seq
        /\ tab'[t].open /\ (\E d \in calls' : d.kind = "beat" /\ d.mine /\ d.tab = t) =>
              /\ tab[t].open /\ tab'[t].auth = tab[t].auth
              /\ tab'[t].busy = tab[t].busy /\ tab'[t].token = tab[t].token

LEMMA FadingKeeps ==
    ASSUME SecureTyped, BeatsKept, UNCHANGED <<owner, token, beat, haunted>>, BeatsFade, PagesFade
    PROVE  BeatsKept'
<1>. USE DEF BeatsKept
<1>1. TokensIssued'
  BY DEF TokensIssued, BeatsFade, PagesFade
<1>2. OneBeatHeard'
  <2>1. \A t \in Tabs : ~(tab'[t].auth /\ tab'[t].checked)
    BY DEF PagesFade, HasToken
  <2>2. \A d \in calls' : d.kind = "beat" /\ d.mine => d \in calls
    BY DEF BeatsFade
  <2>3. \A d \in calls' : d.kind = "beat" /\ d.mine => d.tab \in Tabs
    BY <2>2, CallTypes DEF SecureTyped
  <2>4. \A d \in calls' : d.kind = "beat" => d.mine \/ UnderWay(d)
    BY DEF BeatsFade, OneBeatHeard
  <2>. QED BY <2>1, <2>2, <2>3, <2>4 DEF OneBeatHeard, PagesFade
<1>3. LateBeatsHaunt'
  BY DEF LateBeatsHaunt, BeatsFade
<1>4. BeatsInOrder'
  <2>. SUFFICES ASSUME owner \notin haunted PROVE BeatsInOrder'
    BY DEF BeatsInOrder
  <2>1. \A d \in calls' : Current(d)' => \E c \in calls :
            /\ Current(c) /\ d.number = c.number /\ d.at = c.at /\ (d.mine => d = c)
            /\ d = c \/ c \notin calls' \/ ~c.mine
    BY DEF BeatsFade, Current, UnderWay
  <2>2. ASSUME NEW c \in calls', Current(c)', c.mine, c.at = "sent"
        PROVE  beat' < c.number /\ \A d \in calls' : Current(d)' /\ d # c => d.number < c.number
    <3>1. c \in calls /\ Current(c)
      BY <2>1, <2>2
    <3>. QED BY <2>1, <2>2, <3>1 DEF BeatsInOrder
  <2>3. ASSUME NEW t \in Tabs, HasToken(tab'[t]), tab'[t].token = token'
        PROVE  beat' <= tab'[t].seq /\ \A c \in calls' : Current(c)' => c.number <= tab'[t].seq
    <3>1. HasToken(tab[t]) /\ tab[t].token = token /\ tab'[t].seq = tab[t].seq
      BY <2>3 DEF PagesFade
    <3>. QED BY <2>1, <3>1 DEF BeatsInOrder
  <2>. QED BY <2>2, <2>3 DEF BeatsInOrder, HasToken
<1>. QED BY <1>1, <1>2, <1>3, <1>4

\* An attempt that has begun does not begin again, and what was refused with the
\* last token stays excused.
LEMMA ExcusesStay ==
    ASSUME SecureTyped, BegunByThen, OwnerIsHeard, BeatsFade, token' = token,
           haunted \subseteq haunted', status' = "ready" => status = "ready",
           status' = "in_progress" => status \in {"ready", "in_progress"},
           \A t \in Tabs : tab'[t].auth => status' # "ready"
    PROVE  BegunByThen' /\ OwnerIsHeard'
<1>1. BegunByThen'
  BY DEF BegunByThen, BeatsFade
<1>2. OwnerIsHeard'
  BY DEF BegunByThen, BeatsFade, OwnerIsHeard
<1>. QED BY <1>1, <1>2

\* Counting violations leaves the heartbeats alone.
LEMMA CountingStep ==
    ASSUME SecureInv, NEW t \in Tabs,
           PreflightRefused(t) \/ \E late \in BOOLEAN : SaveAnswer(t, late)
    PROVE  SecureInv'
<1>. USE DEF SecureInv
<1>1. SecureTyped'
  BY CountingTypes
<1>2. UNCHANGED <<status, owner, token, beat, tab, calls, haunted>>
  BY DEF PreflightRefused, SaveAnswer
<1>3. BeatsFade /\ PagesFade
  BY <1>2 DEF BeatsFade, PagesFade, BeatsKept, OneBeatHeard
<1>4. BeatsKept'
  BY <1>2, <1>3, FadingKeeps
<1>5. BegunByThen' /\ OwnerIsHeard'
  BY <1>2 DEF BegunByThen, OwnerIsHeard
<1>. QED BY <1>1, <1>4, <1>5

\* So does full screen: what is reported is not a heartbeat.
LEMMA FullscreenStep ==
    ASSUME SecureInv, NEW t \in Tabs,
           \/ EnterFullscreen(t)
           \/ \E armed \in BOOLEAN : LeaveFullscreen(t, armed)
    PROVE  SecureInv'
<1>. USE DEF SecureInv
<1>1. SecureTyped'
  BY DepartureTypes, ReturnTypes
<1>2. /\ UNCHANGED <<status, owner, token, beat, haunted>>
      /\ \A u \in Tabs \ {t} : tab'[u] = tab[u]
      /\ SameSession(tab[t], tab'[t]) /\ tab'[t].busy = tab[t].busy
      /\ \A c \in calls' : c.kind = "beat" => c \in calls
  BY DepartureEffect, ReturnEffect DEF SecureTyped
<1>3. BeatsFade
  BY <1>2 DEF BeatsFade
<1>4. PagesFade
  BY <1>2 DEF PagesFade, SameSession, HasToken, BeatsKept, OneBeatHeard
<1>5. BeatsKept'
  BY <1>2, <1>3, <1>4, FadingKeeps
<1>6. \A u \in Tabs : tab'[u].auth => status' # "ready"
  BY <1>2 DEF SameSession, BegunByThen
<1>7. status \in {"ready", "in_progress", "submitted", "violated"}
  BY DEF SecureTyped, TypeOK
<1>. QED BY <1>1, <1>2, <1>3, <1>5, <1>6, ExcusesStay

\* A page that begins has been checked, so it listens to no heartbeat.
LEMMA BeginStep ==
    ASSUME SecureInv, NEW t \in Tabs, Begin(t)
    PROVE  SecureInv'
<1>. USE DEF SecureInv
<1>1. SecureTyped'
  BY BeginTypes
<1>2. /\ UNCHANGED <<owner, token, beat, calls, haunted>> /\ tab[t].checked /\ tab[t].open
      /\ status' = IF MayBegin(t) THEN "in_progress" ELSE status
      /\ MayBegin(t) => status \notin {"submitted", "violated"}
      /\ status \in {"ready", "in_progress", "submitted", "violated"}
  BY DEF Begin, MayBegin, Over, SecureTyped, TypeOK
<1>3. /\ \A u \in Tabs \ {t} : tab'[u] = tab[u]
      /\ \/ /\ MayBegin(t)
            /\ tab'[t].auth /\ ~tab'[t].checked /\ tab'[t].token = tab[t].token
            /\ tab'[t].seq = tab[t].seq
         \/ ~MayBegin(t) /\ ~tab'[t].auth /\ ~tab'[t].checked
  BY BeginPage DEF SecureTyped
<1>4. BeatsFade
  BY <1>2 DEF BeatsFade
<1>5. \A d \in calls : ~(d.kind = "beat" /\ d.mine /\ d.tab = t)
  BY <1>2 DEF BeatsKept, OneBeatHeard
<1>6. PagesFade
  BY <1>2, <1>3, <1>5 DEF PagesFade, HasToken, BeatsKept, OneBeatHeard
<1>7. BeatsKept'
  BY <1>2, <1>4, <1>6, FadingKeeps
<1>8. \A u \in Tabs : tab'[u].auth => status' # "ready"
  BY <1>2, <1>3 DEF BegunByThen
<1>9. BegunByThen' /\ OwnerIsHeard'
  BY <1>2, <1>4, <1>8, ExcusesStay
<1>. QED BY <1>1, <1>7, <1>9

\* A page that has submitted is closed.
LEMMA SubmitStep ==
    ASSUME SecureInv, NEW t \in Tabs, Submit(t)
    PROVE  SecureInv'
<1>. USE DEF SecureInv
<1>1. SecureTyped'
  BY SubmitTypes
<1>2. /\ UNCHANGED <<owner, token, beat, calls, haunted>> /\ status' = "submitted"
      /\ tab' = [tab EXCEPT ![t] = Closed(@.events)]
  BY DEF Submit
<1>3. (\A u \in Tabs \ {t} : tab'[u] = tab[u]) /\ ~HasToken(tab'[t]) /\ ~tab'[t].open
  BY <1>2, LeftPage DEF SecureTyped
<1>4. BeatsFade /\ PagesFade
  BY <1>2, <1>3 DEF BeatsFade, PagesFade, HasToken, BeatsKept, OneBeatHeard
<1>5. BeatsKept'
  BY <1>2, <1>4, FadingKeeps
<1>6. BegunByThen' /\ OwnerIsHeard'
  BY <1>2, <1>4, ExcusesStay
<1>. QED BY <1>1, <1>5, <1>6

\* The page hears of the one heartbeat it waits for.
LEMMA PageHearsStep ==
    ASSUME SecureInv, NEW c \in calls, Hear(c)
    PROVE  SecureInv'
<1>. USE DEF SecureInv
<1>1. SecureTyped'
  BY HearTypes
<1>2. /\ UNCHANGED <<status, owner, token, beat, haunted>> /\ calls' = calls \ {c}
      /\ c.at \in {"done", "refused"} /\ c.tab \in Tabs /\ c.kind \in {"beat", "report"}
      /\ status \in {"ready", "in_progress", "submitted", "violated"}
  BY CallTypes DEF Hear, attempt, SecureTyped, TypeOK
<1>3. /\ \A u \in Tabs \ {c.tab} : tab'[u] = tab[u]
      /\ \/ tab'[c.tab] = tab[c.tab]
         \/ ~HasToken(tab'[c.tab]) /\ (c.kind = "report" => ~tab'[c.tab].open)
         \/ /\ SameSession(tab[c.tab], tab'[c.tab])
            /\ c.kind # "beat" => tab'[c.tab].busy = tab[c.tab].busy
  BY HearPage DEF SecureTyped
<1>4. BeatsFade
  BY <1>2 DEF BeatsFade
<1>5. PagesFade
  BY <1>2, <1>3 DEF PagesFade, SameSession, HasToken, BeatsKept, OneBeatHeard, UnderWay
<1>6. BeatsKept'
  BY <1>2, <1>4, <1>5, FadingKeeps
<1>7. \A u \in Tabs : tab'[u].auth => status' # "ready"
  BY <1>2, <1>3 DEF BegunByThen, SameSession, HasToken
<1>8. BegunByThen' /\ OwnerIsHeard'
  BY <1>2, <1>4, <1>7, ExcusesStay
<1>. QED BY <1>1, <1>6, <1>8

\* A heartbeat that is given up has no listener.
LEMMA GiveUpStep ==
    ASSUME SecureInv, NEW c \in calls, GiveUp(c)
    PROVE  SecureInv'
<1>. USE DEF SecureInv
<1>1. SecureTyped'
  BY GiveUpTypes
<1>2. /\ UNCHANGED <<status, owner, token, beat, haunted>> /\ c.mine /\ c.tab \in Tabs
      /\ c.kind \in {"beat", "report"}
      /\ \A u \in Tabs \ {c.tab} : tab'[u] = tab[u]
      /\ SameSession(tab[c.tab], tab'[c.tab])
      /\ c.kind # "beat" => tab'[c.tab].busy = tab[c.tab].busy
      /\ c \notin calls'
      /\ \A d \in calls' : d \in calls \ {c} \/
            /\ ~d.mine /\ UnderWay(d)
            /\ d.kind = c.kind /\ d.tab = c.tab /\ d.token = c.token /\ d.at = c.at
            /\ d.number = c.number
  BY GiveUpEffect, CallTypes DEF SecureTyped
<1>3. BeatsFade
  BY <1>2 DEF BeatsFade
<1>4. PagesFade
  BY <1>2 DEF PagesFade, SameSession, HasToken, BeatsKept, OneBeatHeard
<1>5. BeatsKept'
  BY <1>2, <1>3, <1>4, FadingKeeps
<1>6. \A u \in Tabs : tab'[u].auth => status' # "ready"
  BY <1>2 DEF BegunByThen, SameSession
<1>7. status \in {"ready", "in_progress", "submitted", "violated"}
  BY DEF SecureTyped, TypeOK
<1>8. BegunByThen' /\ OwnerIsHeard'
  BY <1>2, <1>3, <1>6, <1>7, ExcusesStay
<1>. QED BY <1>1, <1>5, <1>8

\* Nor has what the page sent before it was reloaded.
LEMMA ReloadAnewStep ==
    ASSUME SecureInv, NEW t \in Tabs, Reload(t)
    PROVE  SecureInv'
<1>. USE DEF SecureInv
<1>1. SecureTyped'
  BY ReloadTypes
<1>2. /\ UNCHANGED <<status, owner, token, beat, haunted>>
      /\ \A u \in Tabs \ {t} : tab'[u] = tab[u]
      /\ ~HasToken(tab'[t])
      /\ \A d \in calls' : d.tab = t => ~d.mine
      /\ \A d \in calls' : (d \in calls /\ d.tab # t) \/ \E c \in calls :
            /\ c.tab = t /\ ~d.mine /\ UnderWay(d)
            /\ d.kind = c.kind /\ d.tab = c.tab /\ d.token = c.token /\ d.at = c.at
            /\ d.number = c.number
  BY ReloadEffect DEF SecureTyped
<1>3. BeatsFade
  <2>1. \A c \in calls : c.tab = t => c \notin calls' \/ ~c.mine
    BY <1>2
  <2>. QED BY <1>2, <2>1 DEF BeatsFade
<1>4. PagesFade
  BY <1>2 DEF PagesFade, HasToken, BeatsKept, OneBeatHeard
<1>5. BeatsKept'
  BY <1>2, <1>3, <1>4, FadingKeeps
<1>6. \A u \in Tabs : tab'[u].auth => status' # "ready"
  BY <1>2 DEF BegunByThen, HasToken
<1>7. status \in {"ready", "in_progress", "submitted", "violated"}
  BY DEF SecureTyped, TypeOK
<1>8. BegunByThen' /\ OwnerIsHeard'
  BY <1>2, <1>3, <1>6, <1>7, ExcusesStay
<1>. QED BY <1>1, <1>5, <1>8

-----------------------------------------------------------------------------
(* Heartbeats: the steps that change who holds what                        *)

\* A new token: nothing that is under way has it, and only the page that is told
\* of it does.
LEMMA PreflightStep ==
    ASSUME SecureInv, NEW t \in Tabs,
           Preflight(t) \/ PreflightLost(t)
    PROVE  SecureInv'
<1>. USE DEF SecureInv
<1>1. SecureTyped'
  BY PreflightTypes
<1>2. Bind(t) /\ beat' = 0 /\ UNCHANGED <<status, calls>>
  BY DEF Preflight, PreflightLost
<1>3. /\ token \in Nat /\ token < MaxTokens /\ token' = token + 1 /\ owner' = t
      /\ haunted \subseteq haunted' /\ ~tab[t].auth /\ tab[t].open /\ ~tab[t].checked
      /\ (\E c \in calls : c.kind = "beat" /\ c.at = "loaded") => t \in haunted'
  BY <1>2, BindTypes, SecureConstants DEF SecureTyped, TypeOK
<1>4. /\ \A u \in Tabs \ {t} : tab'[u] = tab[u]
      /\ tab'[t].auth = tab[t].auth /\ tab'[t].open = tab[t].open /\ tab'[t].busy = tab[t].busy
      /\ \/ tab'[t].checked /\ tab'[t].token = token + 1 /\ tab'[t].seq = 0
         \/ tab'[t] = tab[t]
  <2>1. CASE Preflight(t)
    <3>1. Checked(t)
      BY <2>1 DEF Preflight
    <3>. QED BY <1>3, <3>1, CheckedPage DEF SecureTyped
  <2>2. CASE PreflightLost(t)
    BY <2>2 DEF PreflightLost
  <2>. QED BY <2>1, <2>2
<1>5. \A c \in calls : c.kind = "beat" => c.token \in 1..token
  BY DEF BeatsKept, TokensIssued
<1>6. TokensIssued'
  <2>1. \A u \in Tabs : HasToken(tab[u]) => tab[u].token \in 1..token
    BY DEF BeatsKept, TokensIssued
  <2>2. ASSUME NEW u \in Tabs, HasToken(tab'[u])
        PROVE  tab'[u].token \in 1..(token + 1) /\ (tab'[u].token = token + 1 => u = t)
    BY <1>3, <1>4, <2>1, <2>2 DEF HasToken
  <2>3. \A c \in calls : c.kind = "beat" => c.token \in 1..(token + 1) /\ c.token # token + 1
    BY <1>3, <1>5
  <2>. QED BY <1>2, <1>3, <2>2, <2>3 DEF TokensIssued
<1>7. OneBeatHeard'
  <2>1. \A c \in calls : c.kind = "beat" /\ c.mine /\ tab[c.tab].open => c.tab # t
    BY <1>3 DEF BeatsKept, OneBeatHeard
  <2>2. \A c \in calls : c.tab \in Tabs
    BY CallTypes DEF SecureTyped
  <2>. QED BY <1>2, <1>3, <1>4, <2>1, <2>2 DEF BeatsKept, OneBeatHeard
<1>8. LateBeatsHaunt'
  BY <1>2, <1>3 DEF LateBeatsHaunt
<1>9. BeatsInOrder'
  <2>1. \A c \in calls : ~Current(c)'
    BY <1>3, <1>5 DEF Current
  <2>2. ASSUME NEW u \in Tabs, HasToken(tab'[u]), tab'[u].token = token'
        PROVE  tab'[u].seq = 0
    <3>1. HasToken(tab[u]) => tab[u].token # token + 1
      BY <1>3 DEF BeatsKept, TokensIssued
    <3>. QED BY <1>3, <1>4, <2>2, <3>1 DEF HasToken
  <2>. QED BY <1>2, <2>1, <2>2 DEF BeatsInOrder
<1>10. BegunByThen'
  BY <1>2, <1>4 DEF BegunByThen
<1>11. OwnerIsHeard'
  BY <1>2, <1>3, <1>5 DEF OwnerIsHeard
<1>. QED BY <1>1, <1>6, <1>7, <1>8, <1>9, <1>10, <1>11 DEF BeatsKept

\* A new heartbeat has a number beyond those of its token; when there are none, all
\* begin again.
LEMMA SendBeatStep ==
    ASSUME SecureInv, NEW t \in Tabs, NEW armed \in BOOLEAN,
           SendBeat(t, armed)
    PROVE  SecureInv'
<1>. USE DEF SecureInv
<1>1. SecureTyped'
  BY SendBeatTypes
<1>2. UNCHANGED <<status, owner, token, haunted>> /\ tab[t].open /\ tab[t].auth /\ ~tab[t].busy
  BY BeatNumber DEF SecureTyped
<1>3. PICK n \in 1..MaxBeats, active \in BOOLEAN :
        /\ tab' = [tab EXCEPT ![t] = [@ EXCEPT !.busy = TRUE, !.seq = n]]
        /\ calls' = calls \union {Call("beat", t, n, active)}
        /\ \/ /\ \A c \in calls : c.kind = "beat" => c.token # tab[t].token
              /\ n = 1
              /\ beat' = IF tab[t].token = token
                         THEN (IF beat > tab[t].seq THEN 1 ELSE 0) ELSE beat
           \/ n = tab[t].seq + 1 /\ beat' = beat
  BY BeatNumber DEF SecureTyped
<1>. DEFINE b == Call("beat", t, n, active)
<1>4. /\ b.kind = "beat" /\ b.tab = t /\ b.mine /\ b.token = tab[t].token
      /\ b.number = n /\ b.at = "sent"
  <2>1. n \in Nat
    BY SecureConstants
  <2>. QED BY <2>1, CallFields DEF SecureTyped
<1>5. calls' = calls \union {b}
  BY <1>3
<1>. HIDE DEF b
<1>6. /\ \A u \in Tabs \ {t} : tab'[u] = tab[u]
      /\ tab'[t].busy /\ tab'[t].seq = n
      /\ tab'[t].auth = tab[t].auth /\ tab'[t].checked = tab[t].checked
      /\ tab'[t].token = tab[t].token /\ tab'[t].open = tab[t].open
  BY <1>3, SendingPage DEF SecureTyped
<1>7. TokensIssued'
  BY <1>2, <1>4, <1>5, <1>6 DEF BeatsKept, TokensIssued, HasToken
<1>8. \A c \in calls : c.kind = "beat" /\ c.mine => c.tab # t
  BY <1>2 DEF BeatsKept, OneBeatHeard
<1>9. OneBeatHeard'
  <2>1. \A c \in calls : c.tab \in Tabs
    BY CallTypes DEF SecureTyped
  <2>2. \A c, d \in calls' :
          c.kind = "beat" /\ d.kind = "beat" /\ c.mine /\ d.mine /\ c.tab = d.tab => c = d
    BY <1>4, <1>5, <1>8 DEF BeatsKept, OneBeatHeard
  <2>3. \A c \in calls' : c.kind = "beat" /\ c.mine /\ tab'[c.tab].open =>
          tab'[c.tab].auth /\ tab'[c.tab].busy /\ tab'[c.tab].token = c.token
    <3>1. tab'[b.tab].auth /\ tab'[b.tab].busy /\ tab'[b.tab].token = b.token
      BY <1>2, <1>4, <1>6
    <3>2. \A c \in calls : c.kind = "beat" /\ c.mine => tab'[c.tab] = tab[c.tab]
      BY <1>6, <1>8, <2>1
    <3>. QED BY <1>5, <3>1, <3>2 DEF BeatsKept, OneBeatHeard
  <2>4. \A c \in calls' : c.kind = "beat" => c.mine \/ UnderWay(c)
    BY <1>4, <1>5 DEF BeatsKept, OneBeatHeard
  <2>5. \A u \in Tabs : ~(tab'[u].auth /\ tab'[u].checked)
    BY <1>6 DEF BeatsKept, OneBeatHeard
  <2>. QED BY <2>2, <2>3, <2>4, <2>5 DEF OneBeatHeard
<1>10. LateBeatsHaunt'
  BY <1>2, <1>4, <1>5 DEF BeatsKept, LateBeatsHaunt
<1>11. BeatsInOrder'
  <2>. SUFFICES ASSUME owner \notin haunted PROVE BeatsInOrder'
    BY <1>2 DEF BeatsInOrder
  <2>1. \A c : Current(c)' <=> Current(c)
    BY <1>2 DEF Current
  <2>2. CASE tab[t].token # token
    <3>1. ~Current(b) /\ beat' = beat
      BY <1>3, <1>4, <2>2 DEF Current
    <3>2. \A u \in Tabs : HasToken(tab'[u]) /\ tab'[u].token = token =>
            HasToken(tab[u]) /\ tab[u].token = token /\ tab'[u].seq = tab[u].seq
      BY <1>6, <2>2 DEF HasToken
    <3>3. \A c \in calls' : Current(c) => c \in calls
      BY <1>5, <3>1
    <3>. QED BY <1>2, <2>1, <3>1, <3>2, <3>3 DEF BeatsKept, BeatsInOrder
  <2>3. CASE tab[t].token = token
    <3>1. owner = t /\ HasToken(tab[t])
      BY <1>2, <2>3 DEF BeatsKept, TokensIssued, HasToken
    <3>2. \A c \in calls : Current(c) => ~c.mine
      BY <1>8, <3>1 DEF BeatsKept, TokensIssued, Current
    <3>3. /\ beat <= tab[t].seq /\ beat \in Nat /\ tab[t].seq \in Nat
          /\ \A c \in calls : Current(c) => c.number <= tab[t].seq
      <4>1. beat \in Nat /\ tab[t].seq \in Nat
        BY PageTypes, SecureConstants DEF SecureTyped, TypeOK
      <4>. QED BY <2>3, <3>1, <4>1 DEF BeatsKept, BeatsInOrder
    <3>4. beat' < n /\ \A c \in calls : Current(c) => c.number < n
      <4>1. \A c \in calls : c.number \in Nat
        BY CallTypes DEF SecureTyped
      <4>2. CASE n = tab[t].seq + 1 /\ beat' = beat
        BY <3>3, <4>1, <4>2
      <4>3. CASE /\ \A c \in calls : c.kind = "beat" => c.token # tab[t].token
                 /\ n = 1
                 /\ beat' = IF tab[t].token = token
                            THEN (IF beat > tab[t].seq THEN 1 ELSE 0) ELSE beat
        <5>1. beat' = 0
          BY <2>3, <3>3, <4>3
        <5>2. \A c \in calls : ~Current(c)
          BY <2>3, <4>3 DEF Current
        <5>. QED BY <4>3, <5>1, <5>2
      <4>. QED BY <1>3, <4>2, <4>3
    <3>5. \A u \in Tabs : HasToken(tab'[u]) /\ tab'[u].token = token => u = t
      BY <1>6, <3>1 DEF BeatsKept, TokensIssued, HasToken
    <3>6. \A c \in calls' : Current(c)' => c = b \/ (c \in calls /\ Current(c))
      BY <1>5, <2>1
    <3>7. ASSUME NEW c \in calls', Current(c)', c.mine
          PROVE  c = b
      BY <3>2, <3>6, <3>7
    <3>8. n \in Nat /\ beat' \in Nat
      BY <1>3, <3>3, SecureConstants
    <3>9. ASSUME NEW c \in calls', Current(c)', c.mine, c.at = "sent"
          PROVE  /\ beat' < c.number
                 /\ \A d \in calls' : Current(d)' /\ d # c => d.number < c.number
      BY <1>4, <3>4, <3>6, <3>7, <3>9
    <3>10. ASSUME NEW u \in Tabs, HasToken(tab'[u]), tab'[u].token = token'
           PROVE  /\ beat' <= tab'[u].seq
                  /\ \A c \in calls' : Current(c)' => c.number <= tab'[u].seq
      <4>1. u = t /\ tab'[u].seq = n
        BY <1>2, <1>6, <3>5, <3>10
      <4>2. \A c \in calls' : Current(c)' => c.number <= n
        <5>1. \A c \in calls : c.number \in Nat
          BY CallTypes DEF SecureTyped
        <5>. QED BY <1>4, <3>4, <3>6, <3>8, <5>1
      <4>. QED BY <3>4, <3>8, <4>1, <4>2
    <3>. QED BY <3>9, <3>10 DEF BeatsInOrder, HasToken
  <2>. QED BY <2>2, <2>3
<1>12. BegunByThen'
  BY <1>2, <1>4, <1>5, <1>6 DEF BegunByThen
<1>13. OwnerIsHeard'
  BY <1>2, <1>4, <1>5 DEF OwnerIsHeard
<1>. QED BY <1>1, <1>7, <1>9, <1>10, <1>11, <1>12, <1>13 DEF BeatsKept

\* Of the heartbeats in order none is refused.
LEMMA CallLoadsStep ==
    ASSUME SecureInv, NEW c \in calls, HandlerLoads(c)
    PROVE  SecureInv'
<1>. USE DEF SecureInv
<1>1. SecureTyped'
  BY LoadTypes
<1>2. /\ UNCHANGED <<status, owner, token, beat, tab, haunted>>
      /\ c.at = "sent" /\ c \notin calls'
      /\ \A d, e \in calls' \ (calls \ {c}) : d = e
      /\ \A d \in calls' : d \in calls \ {c} \/
            /\ d.kind = c.kind /\ d.tab = c.tab /\ d.token = c.token /\ (d.mine => c.mine)
            /\ \/ d.at = "refused" /\ c.mine /\ Rejected(c) /\ d.mine
               \/ /\ d.at = "loaded" /\ ~Rejected(c)
                  /\ d.number = c.number /\ d.mine = c.mine
  BY LoadEffect DEF SecureTyped
<1>3. TokensIssued'
  BY <1>2 DEF BeatsKept, TokensIssued
<1>4. OneBeatHeard'
  <2>1. \A d, e \in calls' :
          d.kind = "beat" /\ e.kind = "beat" /\ d.mine /\ e.mine /\ d.tab = e.tab => d = e
    BY <1>2 DEF BeatsKept, OneBeatHeard
  <2>2. \A d \in calls' : d.kind = "beat" /\ d.mine /\ tab[d.tab].open =>
          tab[d.tab].auth /\ tab[d.tab].busy /\ tab[d.tab].token = d.token
    BY <1>2 DEF BeatsKept, OneBeatHeard
  <2>3. \A d \in calls' : d.kind = "beat" => d.mine \/ UnderWay(d)
    BY <1>2 DEF BeatsKept, OneBeatHeard, UnderWay
  <2>. QED BY <1>2, <2>1, <2>2, <2>3 DEF BeatsKept, OneBeatHeard
<1>5. LateBeatsHaunt'
  BY <1>2 DEF BeatsKept, LateBeatsHaunt, Rejected
<1>6. BeatsInOrder'
  <2>1. \A d \in calls' : Current(d)' =>
          \/ d \in calls /\ Current(d)
          \/ d.at = "loaded" /\ Current(c) /\ d.number = c.number
    BY <1>2 DEF Current, UnderWay
  <2>. QED BY <1>2, <2>1 DEF BeatsKept, BeatsInOrder
<1>7. BegunByThen'
  BY <1>2 DEF BegunByThen
<1>8. OwnerIsHeard'
  <2>. SUFFICES ASSUME NEW d \in calls', d.kind = "beat", d.at = "refused", d \notin calls,
                       d.token = token, status = "in_progress", d.tab \notin haunted
                PROVE  FALSE
    BY <1>2 DEF OwnerIsHeard
  <2>1. c.kind = "beat" /\ c.mine /\ Rejected(c) /\ c.token = token /\ c.tab = d.tab
    BY <1>2
  <2>2. owner = c.tab
    BY <2>1 DEF BeatsKept, TokensIssued
  <2>3. beat < c.number
    BY <1>2, <2>1, <2>2 DEF BeatsKept, BeatsInOrder, Current, UnderWay
  <2>4. beat \in Nat /\ c.number \in Nat
    BY CallTypes, SecureConstants DEF SecureTyped, TypeOK
  <2>. QED BY <2>1, <2>3, <2>4 DEF Rejected
<1>. QED BY <1>1, <1>3, <1>4, <1>5, <1>6, <1>7, <1>8 DEF BeatsKept

\* A recorded heartbeat is no further than its page, and before the one that page
\* waits for.
LEMMA CallCommitsStep ==
    ASSUME SecureInv, NEW c \in calls, HandlerCommits(c)
    PROVE  SecureInv'
<1>. USE DEF SecureInv
<1>1. SecureTyped'
  BY CommitTypes
<1>2. /\ UNCHANGED <<owner, token, tab, haunted>>
      /\ status' \in {status, "violated"}
      /\ beat' = IF c.kind = "beat" THEN c.number ELSE beat
      /\ c.at = "loaded" /\ c \notin calls'
      /\ \A d, e \in calls' \ (calls \ {c}) : d = e
      /\ \A d \in calls' : d \in calls \ {c} \/
            /\ c.mine /\ d.mine /\ d.kind = c.kind /\ d.tab = c.tab /\ d.token = c.token
            /\ d.at = "done"
  BY CommitEffect DEF SecureTyped
<1>3. TokensIssued'
  BY <1>2 DEF BeatsKept, TokensIssued
<1>4. OneBeatHeard'
  <2>1. \A d, e \in calls' :
          d.kind = "beat" /\ e.kind = "beat" /\ d.mine /\ e.mine /\ d.tab = e.tab => d = e
    BY <1>2 DEF BeatsKept, OneBeatHeard
  <2>2. \A d \in calls' : d.kind = "beat" /\ d.mine /\ tab[d.tab].open =>
          tab[d.tab].auth /\ tab[d.tab].busy /\ tab[d.tab].token = d.token
    BY <1>2 DEF BeatsKept, OneBeatHeard
  <2>3. \A d \in calls' : d.kind = "beat" => d.mine \/ UnderWay(d)
    BY <1>2 DEF BeatsKept, OneBeatHeard, UnderWay
  <2>. QED BY <1>2, <2>1, <2>2, <2>3 DEF BeatsKept, OneBeatHeard
<1>5. LateBeatsHaunt'
  BY <1>2 DEF BeatsKept, LateBeatsHaunt
<1>6. BeatsInOrder'
  <2>. SUFFICES ASSUME owner \notin haunted PROVE BeatsInOrder'
    BY <1>2 DEF BeatsInOrder
  <2>1. \A d \in calls' : Current(d)' => d \in calls /\ Current(d)
    BY <1>2 DEF Current, UnderWay
  <2>2. CASE c.kind # "beat"
    BY <1>2, <2>1, <2>2 DEF BeatsKept, BeatsInOrder
  <2>3. CASE c.kind = "beat"
    <3>1. Current(c)
      BY <1>2, <2>3 DEF BeatsKept, LateBeatsHaunt, Current, UnderWay
    <3>2. beat' = c.number
      BY <1>2, <2>3
    <3>. QED BY <1>2, <2>1, <3>1, <3>2 DEF BeatsKept, BeatsInOrder
  <2>. QED BY <2>2, <2>3
<1>7. BegunByThen'
  BY <1>2 DEF BegunByThen
<1>8. OwnerIsHeard'
  BY <1>2 DEF OwnerIsHeard
<1>. QED BY <1>1, <1>3, <1>4, <1>5, <1>6, <1>7, <1>8 DEF BeatsKept

-----------------------------------------------------------------------------
(* The theorems                                                            *)

\* At first there are no calls.
LEMMA SecureInitially == Init => SecureInv
<1>. SUFFICES ASSUME Init PROVE SecureInv
  OBVIOUS
<1>1. /\ status = "ready" /\ owner = NoTab /\ token = 0 /\ beat = 0 /\ media = TRUE
      /\ flags = [count |-> 0, seqs |-> {}] /\ calls = {} /\ haunted = {}
      /\ tab = [t \in Tabs |-> Unchecked(0)]
      /\ spent = [leaves |-> 0, contests |-> 0, overdue |-> 0, rest |-> 0]
  BY DEF Init
<1>2. 0 \in 0..MaxEvents /\ 0 \in 0..MaxBeats /\ 0 \in 0..MaxTokens /\ 0 \in 0..Limit
  BY SecureConstants
<1>3. /\ Unchecked(0) \in Pages /\ Unchecked(0).events = 0
      /\ ~HasToken(Unchecked(0))
      /\ ~Unchecked(0).auth /\ ~Unchecked(0).checked
  BY <1>2, FreshPages DEF HasToken
<1>4. \A t \in Tabs : tab[t] = Unchecked(0)
  BY <1>1
<1>5. /\ spent \in [{"leaves", "contests", "overdue", "rest"} -> 0..MaxEvents]
      /\ spent.leaves = 0
  BY <1>1, <1>2
<1>6. TypeOK
  BY <1>1, <1>2, <1>3, <1>5 DEF TypeOK
<1>7. EventsAreSpent /\ Numbered
  BY <1>1, <1>3, <1>4, <1>5 DEF EventsAreSpent, Numbered
<1>8. BegunByThen /\ BeatsKept /\ OwnerIsHeard
  BY <1>1, <1>3, <1>4
     DEF BegunByThen, BeatsKept, TokensIssued, OneBeatHeard, LateBeatsHaunt, BeatsInOrder,
         OwnerIsHeard
<1>. QED BY <1>6, <1>7, <1>8 DEF SecureInv, SecureTyped

LEMMA SecureStutters ==
    ASSUME SecureInv, UNCHANGED vars
    PROVE  SecureInv'
BY DEF vars, SecureInv, SecureTyped, EventsAreSpent, Numbered, UnderWay, BegunByThen,
       BeatsKept, TokensIssued, OneBeatHeard, LateBeatsHaunt, BeatsInOrder, Current, HasToken,
       TypeOK, OwnerIsHeard

\* Every step keeps the invariant.
LEMMA SecureSteps ==
    SecureInv /\ [Next]_vars => SecureInv'
<1>. SUFFICES ASSUME SecureInv, [Next]_vars
              PROVE  SecureInv'
  OBVIOUS
<1>1. CASE Student
  BY <1>1, PreflightStep, CountingStep, FullscreenStep, SubmitStep, ReloadAnewStep
     DEF Student
<1>2. CASE Failures
  BY <1>2, PreflightStep, GiveUpStep DEF Failures
<1>3. ASSUME NEW t \in Tabs, NEW kind \in {"beat", "report"}, Serve(t, kind)
      PROVE  SecureInv'
  BY <1>3, CallLoadsStep, CallCommitsStep, PageHearsStep DEF Serve
<1>4. ASSUME NEW t \in Tabs, Alive(t)
      PROVE  SecureInv'
  BY <1>3, <1>4, BeginStep, SendBeatStep DEF Alive
<1>5. CASE UNCHANGED vars
  BY <1>5, SecureStutters
<1>. QED BY <1>1, <1>2, <1>3, <1>4, <1>5 DEF Next

\* The invariant holds of every reachable state.
THEOREM SecureInvariant == Spec => []SecureInv
BY SecureInitially, SecureSteps, PTL DEF Spec

\* For any tabs and bounds the attempt, the pages and the calls are what the handlers
\* and the pages write.
THEOREM SecureTypeCorrect == Spec => []TypeOK
<1>1. SecureInv => TypeOK
  BY DEF SecureInv, SecureTyped
<1>. QED BY <1>1, SecureInvariant, PTL

\* However heartbeats overtake each other, get lost or are given up, whatever tabs
\* take over and pages reload, the tab that holds the attempt is not sent back to the
\* security check by a heartbeat of its own - unless it was checked while one of an
\* earlier page was being handled.
THEOREM OwnersAreHeard == Spec => []OwnerIsHeard
<1>1. SecureInv => OwnerIsHeard
  BY DEF SecureInv
<1>. QED BY <1>1, SecureInvariant, PTL
=============================================================================
