---------------------------- MODULE AuthSessions ----------------------------
(***************************************************************************)
(* Staying signed in: the session rows and the rotation of refresh tokens  *)
(* in backend/app/services/auth_service.py, and the pages of the browsers  *)
(* of one account, which refresh, sign in and sign out through             *)
(* frontend/src/api/client.ts.                                             *)
(*                                                                         *)
(* The pages of a browser share its cookie.  A refresh checks the token,   *)
(* inserts the replacement and links it in three steps; requests of        *)
(* several pages interleave with them, answers are lost, pages reload.     *)
(* Whether an access token has expired is a choice.                        *)
(***************************************************************************)
EXTENDS Naturals, Sequences

CONSTANTS
    Browsers, Pages,
    BrowserOf,     \* the browser of each page
    MaxSessions,   \* sessions that are ever issued
    MaxFaults      \* requests lost and pages reloaded

ASSUME AuthAssumption ==
    /\ BrowserOf \in [Pages -> Browsers]
    /\ MaxSessions \in Nat /\ MaxFaults \in Nat

VARIABLES
    sessions,   \* user_sessions, in the order of their ids
    jar,        \* the refresh cookie of each browser: a session, 0 is none
    page,       \* what each page shows
    calls,      \* refreshes and logouts that are under way
    \* history
    closed,     \* sessions that a logout or a login has ended, and those their tokens give
    raced,      \* of these, sessions of refreshes that had passed their check before
    slow,       \* browsers that kept a token, or had it under way, beyond its grace
    faults

vars == <<sessions, jar, page, calls, closed, raced, slow, faults>>

Ids    == 1..MaxSessions
Issued == 1..Len(sessions)

\* rotated: rotated_at, fresh while it is within refresh_rotation_grace_seconds.
\* parent: rotated_from_id.
Sessions == [browser : Browsers, revoked : BOOLEAN, rotated : {"no", "fresh", "old"},
             parent : {0} \union Ids]

\* load, boot: before and in initializeSession.  in: signed in, with an access
\* token that works or one that no longer does.  leaving: logoutInProgress.
Views == [at : {"load", "boot", "in", "out"}, leaving : BOOLEAN]

Loading == [at |-> "load", leaving |-> FALSE]

\* token: the cookie that was sent.  new: the session that replaces it.  mine:
\* the page still waits for the answer.  alive: see Unclosed, when the
\* refresh passed its check.
Calls == [kind : {"refresh", "logout"}, page : Pages, token : {0} \union Ids,
          new : {0} \union Ids, at : {"sent", "checked", "inserted", "done", "refused"},
          mine : BOOLEAN, alive : BOOLEAN]

Call(kind, p) ==
    [kind |-> kind, page |-> p, token |-> jar[BrowserOf[p]], new |-> 0, at |-> "sent",
     mine |-> TRUE, alive |-> FALSE]

Replace(c, d) == calls' = (calls \ {c}) \union {d}

\* The answer, if the page still waits for it.
Answer(c, at) == calls' = (calls \ {c}) \union (IF c.mine THEN {[c EXCEPT !.at = at]} ELSE {})

Active(i) == ~sessions[i].revoked

Waiting(p, kind) == \E c \in calls : c.page = p /\ c.kind = kind /\ c.mine

Init ==
    /\ sessions = <<>>
    /\ jar = [b \in Browsers |-> 0]
    /\ page = [p \in Pages |-> [at |-> "out", leaving |-> FALSE]]
    /\ calls = {}
    /\ closed = {} /\ raced = {} /\ slow = {} /\ faults = 0

-----------------------------------------------------------------------------
(* The server                                                              *)

\* Whatever was rotated out of a session of the set is in the set.
RotationClosed(set) == \A j \in Issued : sessions[j].parent \in set => j \in set

\* _session_lineage: the session, and those rotated out of it.
Lineage(i) == {j \in Issued : \A set \in SUBSET Issued :
                                  i \in set /\ RotationClosed(set) => j \in set}

Revoked(set) ==
    [j \in Issued |-> IF j \in set THEN [sessions[j] EXCEPT !.revoked = TRUE] ELSE sessions[j]]

(* issue_login_session: every session the account has is revoked, on this  *)
(* device and on others.  With its answer, one step.                       *)
Login(p) ==
    LET b   == BrowserOf[p]
        new == Len(sessions) + 1
    IN  /\ page[p] = [at |-> "out", leaving |-> FALSE]
        /\ ~Waiting(p, "refresh")
        /\ new <= MaxSessions
        /\ sessions' = Append(Revoked(Issued),
              [browser |-> b, revoked |-> FALSE, rotated |-> "no", parent |-> 0])
        /\ jar' = [jar EXCEPT ![b] = new]
        /\ page' = [page EXCEPT ![p].at = "in"]
        /\ closed' = Issued
        /\ slow' = slow \ {b}
        /\ UNCHANGED <<calls, raced, faults>>

\* A rotated token is still honoured: within its grace, while something it was
\* rotated into is alive.
Honoured(i) ==
    /\ sessions[i].rotated = "fresh"
    /\ \E j \in Lineage(i) \ {i} : Active(j)

\* Nothing has ended the session, or something that raced outlived that.
Unclosed(i) == i \notin closed \/ Lineage(i) \intersect raced # {}

\* Mutant: a token that was rotated away is never honoured.
CheckWithoutGrace(c) ==
    /\ c.kind = "refresh" /\ c.at = "sent"
    /\ IF c.token = 0 THEN Answer(c, "refused") /\ UNCHANGED sessions
       ELSE IF Active(c.token)
         THEN Replace(c, [c EXCEPT !.at = "checked", !.alive = Unclosed(c.token)]) /\ UNCHANGED sessions
       ELSE /\ Answer(c, "refused")
            /\ sessions' = Revoked(Lineage(c.token))
    /\ UNCHANGED <<jar, page, closed, raced, slow, faults>>

(* refresh() up to the replacement.  A token used after it was revoked, and*)
(* not within its grace, takes everything rotated out of it with it.       *)
Check(c) ==
    /\ c.kind = "refresh" /\ c.at = "sent"
    /\ IF c.token = 0 THEN Answer(c, "refused") /\ UNCHANGED sessions
       ELSE IF Active(c.token) \/ Honoured(c.token)
         THEN Replace(c, [c EXCEPT !.at = "checked", !.alive = Unclosed(c.token)]) /\ UNCHANGED sessions
       ELSE /\ Answer(c, "refused")
            /\ sessions' = IF sessions[c.token].rotated = "fresh" THEN sessions
                                                                  ELSE Revoked(Lineage(c.token))
    /\ UNCHANGED <<jar, page, closed, raced, slow, faults>>

(* _issue_session commits the replacement.                                 *)
Insert(c) ==
    LET new == Len(sessions) + 1
    IN  /\ c.at = "checked" /\ new <= MaxSessions
        /\ sessions' = Append(sessions, [browser |-> sessions[c.token].browser, revoked |-> FALSE,
                                         rotated |-> "no", parent |-> 0])
        /\ Replace(c, [c EXCEPT !.at = "inserted", !.new = new])
        /\ raced' = IF c.token \in raced \/ (c.token \in closed /\ c.alive)
                       THEN raced \union {new} ELSE raced
        /\ closed' = IF c.token \in closed THEN closed \union ({new} \ raced') ELSE closed
        /\ UNCHANGED <<jar, page, slow, faults>>

(* The replacement is linked to the token and the token rotated away.      *)
Link(c) ==
    /\ c.at = "inserted"
    /\ sessions' = [sessions EXCEPT ![c.new].parent = c.token,
                                    ![c.token] = [@ EXCEPT !.revoked = TRUE, !.rotated = "fresh"]]
    /\ Answer(c, "done")
    /\ UNCHANGED <<jar, page, closed, raced, slow, faults>>

\* Mutant: only the session of the cookie and what it was rotated into.
RevokeLineageOnly(c) ==
    /\ c.kind = "logout" /\ c.at = "sent"
    /\ IF c.token = 0 THEN Answer(c, "done") /\ UNCHANGED <<sessions, closed>>
       ELSE LET b == sessions[c.token].browser
            IN  /\ sessions' = Revoked(Lineage(c.token))
                /\ closed' = closed \union {j \in Issued : sessions[j].browser = b}
                /\ Answer(c, "done")
    /\ UNCHANGED <<jar, page, raced, slow, faults>>

(* logout(): the sessions of the device, and the lineage of the cookie.    *)
Revoke(c) ==
    /\ c.kind = "logout" /\ c.at = "sent"
    /\ IF c.token = 0 THEN Answer(c, "done") /\ UNCHANGED <<sessions, closed>>
       ELSE LET b == sessions[c.token].browser
            IN  /\ sessions' = Revoked(Lineage(c.token) \union
                                       {j \in Issued : sessions[j].browser = b})
                /\ closed' = closed \union {j \in Issued : sessions[j].browser = b}
                /\ Answer(c, "done")
    /\ UNCHANGED <<jar, page, raced, slow, faults>>

(* The grace of a rotated token ends.  A browser that still has it in its  *)
(* cookie, or on its way, is slow.                                         *)
GraceEnds(i) ==
    /\ sessions[i].rotated = "fresh"
    /\ sessions' = [sessions EXCEPT ![i].rotated = "old"]
    /\ slow' = slow \union {b \in Browsers :
          \/ jar[b] = i
          \/ \E c \in calls : c.token = i /\ c.at = "sent" /\ BrowserOf[c.page] = b}
    /\ UNCHANGED <<jar, page, calls, closed, raced, faults>>

-----------------------------------------------------------------------------
(* The pages                                                               *)

\* Of the calls a page no longer waits for, those that are not answered yet.
Orphans(set) == {[c EXCEPT !.mine = FALSE] : c \in {d \in set : d.at \notin {"done", "refused"}}}

(* refreshAccessToken: on load, and when an access token is refused; all of*)
(* a page's requests share the one refresh, and a page that signs out      *)
(* starts none.                                                            *)
StartRefresh(p) ==
    /\ page[p].at \in {"load", "in"} /\ ~page[p].leaving
    /\ ~Waiting(p, "refresh")
    /\ calls' = calls \union {Call("refresh", p)}
    /\ page' = [page EXCEPT ![p].at = IF @ = "load" THEN "boot" ELSE @]
    /\ UNCHANGED <<sessions, jar, closed, raced, slow, faults>>

(* The answer sets the cookie, and the page has its access token.          *)
HearRefreshed(c) ==
    /\ c.kind = "refresh" /\ c.at = "done"
    /\ calls' = calls \ {c}
    /\ jar' = [jar EXCEPT ![BrowserOf[c.page]] = c.new]
    /\ page' = [page EXCEPT ![c.page].at = "in"]
    /\ UNCHANGED <<sessions, closed, raced, slow, faults>>

\* Mutant: the home page is shown without loading it.
HearRefusedShowsHome(c) ==
    /\ c.kind = "refresh" /\ c.at = "refused"
    /\ calls' = calls \ {c}
    /\ page' = IF ~page[c.page].leaving
                 THEN [page EXCEPT ![c.page].at = IF @ = "in" THEN "home" ELSE "out"]
                 ELSE page
    /\ UNCHANGED <<sessions, jar, closed, raced, slow, faults>>

(* runRefresh clears the session; a page that was signed in loads the home *)
(* page.                                                                   *)
HearRefused(c) ==
    /\ c.kind = "refresh" /\ c.at = "refused"
    /\ calls' = calls \ {c}
    /\ page' = IF ~page[c.page].leaving
                 THEN [page EXCEPT ![c.page].at = IF @ = "in" THEN "load" ELSE "out"]
                 ELSE page
    /\ UNCHANGED <<sessions, jar, closed, raced, slow, faults>>

\* Mutant: initializeSession leaves a failed boot to the next caller.
LoseRefreshAtBoot(c) ==
    /\ c.kind = "refresh" /\ c.mine
    /\ faults < MaxFaults
    /\ faults' = faults + 1
    /\ calls' = (calls \ {c}) \union Orphans({c})
    /\ UNCHANGED <<sessions, jar, page, closed, raced, slow>>

(* The network loses the refresh or its answer: a page that boots shows    *)
(* itself signed out, any other leaves the session alone.  The server may  *)
(* still handle it, and the cookie never comes.                            *)
LoseRefresh(c) ==
    /\ c.kind = "refresh" /\ c.mine
    /\ faults < MaxFaults
    /\ faults' = faults + 1
    /\ calls' = (calls \ {c}) \union Orphans({c})
    /\ page' = [page EXCEPT ![c.page].at = IF @ = "boot" THEN "out" ELSE @]
    /\ UNCHANGED <<sessions, jar, closed, raced, slow>>

(* A page is loaded anew: what it waited for is aborted.                   *)
Reload(p) ==
    /\ faults < MaxFaults
    /\ faults' = faults + 1
    /\ page' = [page EXCEPT ![p] = Loading]
    /\ calls' = {c \in calls : c.page # p} \union Orphans({c \in calls : c.page = p})
    /\ UNCHANGED <<sessions, jar, closed, raced, slow>>

(* logoutAndRedirectHome.                                                  *)
Logout(p) ==
    /\ page[p].at = "in" /\ ~page[p].leaving
    /\ page' = [page EXCEPT ![p].leaving = TRUE]
    /\ UNCHANGED <<sessions, jar, calls, closed, raced, slow, faults>>

(* revokeCurrentSession waits for the page's own refresh first.            *)
PostLogout(p) ==
    /\ page[p].leaving
    /\ ~Waiting(p, "refresh") /\ ~Waiting(p, "logout")
    /\ calls' = calls \union {Call("logout", p)}
    /\ UNCHANGED <<sessions, jar, page, closed, raced, slow, faults>>

(* The cookie is deleted, and the home page loaded.                        *)
HearLogout(c) ==
    /\ c.kind = "logout" /\ c.at = "done"
    /\ calls' = calls \ {c}
    /\ jar' = [jar EXCEPT ![BrowserOf[c.page]] = 0]
    /\ page' = [page EXCEPT ![c.page] = Loading]
    /\ UNCHANGED <<sessions, closed, raced, slow, faults>>

(* The logout or its answer is lost; the home page is loaded all the same. *)
LoseLogout(c) ==
    /\ c.kind = "logout" /\ c.mine
    /\ faults < MaxFaults
    /\ faults' = faults + 1
    /\ calls' = (calls \ {c}) \union Orphans({c})
    /\ page' = [page EXCEPT ![c.page] = Loading]
    /\ UNCHANGED <<sessions, jar, closed, raced, slow>>

-----------------------------------------------------------------------------
\* The calls of a page, from the request to the page's hearing of it.
Serve(p) == \E c \in calls :
    /\ c.page = p
    /\ \/ Check(c) \/ Insert(c) \/ Link(c) \/ Revoke(c)
       \/ HearRefreshed(c) \/ HearRefused(c) \/ HearLogout(c)

Next ==
    \/ \E p \in Pages : Login(p) \/ StartRefresh(p) \/ Reload(p) \/ Logout(p) \/ PostLogout(p)
    \/ \E p \in Pages : Serve(p)
    \/ \E c \in calls : LoseRefresh(c) \/ LoseLogout(c)
    \/ \E i \in Issued : GraceEnds(i)

Spec == Init /\ [][Next]_vars

\* Calls are answered, a page that loads asks for its session, and one that
\* signs out says so.
FairSpec ==
    Spec /\ \A p \in Pages :
        WF_vars(Serve(p) \/ PostLogout(p) \/ (page[p].at = "load" /\ StartRefresh(p)))

-----------------------------------------------------------------------------
(* Properties                                                              *)

TypeOK ==
    /\ sessions \in Seq(Sessions) /\ Len(sessions) <= MaxSessions
    /\ jar \in [Browsers -> {0} \union Ids]
    /\ page \in [Pages -> Views]
    /\ calls \subseteq Calls
    /\ closed \subseteq Ids /\ raced \subseteq Ids
    /\ slow \subseteq Browsers
    /\ faults \in 0..MaxFaults

\* A logout, or a login on another device, ends every session there is, also
\* those the cookie it came with does not know of; and no token of theirs gives
\* a session again - but for a refresh that had passed its check before.
EndedStaysEnded == \A i \in closed : ~Active(i)

\* A browser is never signed out by its own pages: a refresh is refused only
\* after a logout or a login, or once the grace of a token it kept has ended -
\* although pages refresh with the same cookie at the same time, reload, and
\* lose answers.
HonestBrowserStaysIn ==
    \A c \in calls : c.kind = "refresh" /\ c.at = "refused" /\ c.mine =>
        c.token = 0 \/ c.token \in closed \union raced \/ BrowserOf[c.page] \in slow

\* Every boot of a page is resolved, and a page that signs out gets there,
\* whatever is lost: in the end all pages are signed in or out.
PagesSettle ==
    <>[](Len(sessions) = MaxSessions
         \/ \A p \in Pages : page[p].at \in {"in", "out"} /\ ~page[p].leaving)

\* The comment of refresh(): a refresh still in flight from before a logout or a
\* login must not resurrect the session.
NothingRises == \A i \in closed \union raced : ~Active(i)
=============================================================================
