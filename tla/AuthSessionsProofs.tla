------------------------- MODULE AuthSessionsProofs -------------------------
(***************************************************************************)
(* A session that a logout or a login ended stays ended, and no page signs *)
(* its own browser out: for any browsers, pages, sessions and faults.      *)
(*                                                                         *)
(* The argument is about families: a session and what was rotated out of   *)
(* it.  A family belongs to one browser and ends as a whole (Families), so *)
(* that a check lets nothing through that has ended, unless something that *)
(* raced with the end is alive in it (Phases), and that the reuse of a     *)
(* token takes no session of another browser.  A replacement on its way is *)
(* nobody else's (Replacements), so that it cannot be rotated away before  *)
(* its page has it.  Hence a token that a browser holds or sends is active,*)
(* or within its grace and survived by a replacement (TokensUsable).       *)
(***************************************************************************)
EXTENDS AuthSessions, SequenceTheorems, TLAPS

\* Sessions that have been ended, or were issued out of one that had.
Ended == closed \union raced

\* A session rotated out of another belongs to its browser, and they end
\* together.
Families ==
    \A i \in Issued : sessions[i].parent # 0 =>
        LET h == sessions[i].parent
        IN  /\ h \in Issued
            /\ sessions[h].browser = sessions[i].browser
            /\ i \in Ended <=> h \in Ended

\* A browser holds, and sends, its own sessions.
Held ==
    /\ closed \subseteq Issued /\ raced \subseteq Issued
    /\ \A b \in Browsers : jar[b] # 0 => jar[b] \in Issued /\ sessions[jar[b]].browser = b
    /\ \A c \in calls : c.token # 0 =>
          c.token \in Issued /\ sessions[c.token].browser = BrowserOf[c.page]

\* A call that passed its check did so with a session nothing had ended, or that
\* something racing had outlived.
Phases ==
    \A c \in calls :
        /\ c.kind = "logout" => c.at \in {"sent", "done"}
        /\ c.new # 0 <=> c.kind = "refresh" /\ c.at \in {"inserted", "done"}
        /\ c.at \in {"checked", "inserted"} => c.token # 0
        /\ c.at = "checked" => c.alive
        /\ c.at \in {"done", "refused"} => c.mine

\* Nobody else has a replacement that has not reached its page, so that it is
\* not rotated away; it ends with the token it replaces.
Replacements ==
    \A c \in calls : c.new # 0 =>
        /\ c.new \in Issued
        /\ sessions[c.new].browser = BrowserOf[c.page]
        /\ sessions[c.new].rotated = "no"
        /\ \A b \in Browsers : jar[b] # c.new
        /\ \A d \in calls : d.token # c.new /\ (d # c => d.new # c.new)
        /\ c.at = "inserted" =>
              /\ sessions[c.new].parent = 0
              /\ c.new \in Ended <=> c.token \in Ended
              /\ c.new \in Ended \/ Active(c.new)
        /\ c.at = "done" => c.new \in Ended \/ BrowserOf[c.page] \in slow \/ Active(c.new)

Usable(i) == Active(i) \/ Honoured(i)

\* The refresh of i would not be refused, unless i was ended or b was slow.
Good(i, b) == i = 0 \/ i \in Ended \/ b \in slow \/ Usable(i)

TokensUsable ==
    /\ \A b \in Browsers : Good(jar[b], b)
    /\ \A c \in calls : c.kind = "refresh" /\ c.at = "sent" => Good(c.token, BrowserOf[c.page])

-----------------------------------------------------------------------------
(* Lineages.                                                               *)

\* A session is in its lineage.
LEMMA LineageSelf ==
    ASSUME NEW i \in Issued
    PROVE  i \in Lineage(i)
BY DEF Lineage

\* A lineage is in every set that holds its session and is closed.
LEMMA LineageWithin ==
    ASSUME NEW S \in SUBSET Issued, NEW i \in S, RotationClosed(S)
    PROVE  Lineage(i) \subseteq S
BY DEF Lineage

\* What was rotated out of a lineage is in it.
LEMMA LineageStep ==
    ASSUME NEW i, NEW j \in Issued, sessions[j].parent \in Lineage(i)
    PROVE  j \in Lineage(i)
<1>. SUFFICES ASSUME NEW S \in SUBSET Issued, i \in S, RotationClosed(S)
              PROVE  j \in S
  BY DEF Lineage
<1>1. sessions[j].parent \in S
  BY DEF Lineage
<1>. QED BY <1>1 DEF RotationClosed

\* Lineages only grow while sessions are issued, and linked once.
LEMMA LineageGrows ==
    ASSUME Issued \subseteq Issued',
           \A j \in Issued : sessions[j].parent # 0 => sessions'[j].parent = sessions[j].parent,
           NEW i \in Issued
    PROVE  Lineage(i) \subseteq Lineage(i)'
<1>. SUFFICES ASSUME NEW x \in Lineage(i), NEW S \in SUBSET Issued', i \in S, RotationClosed(S)'
              PROVE  x \in S
  BY DEF Lineage
<1>. DEFINE T == S \cap Issued
<1>1. T \in SUBSET Issued /\ i \in T
  OBVIOUS
<1>2. RotationClosed(T)
  <2>. SUFFICES ASSUME NEW j \in Issued, sessions[j].parent \in T PROVE j \in S
    BY DEF RotationClosed
  <2>1. sessions[j].parent # 0
    BY DEF Issued
  <2>. QED BY <2>1 DEF RotationClosed
<1>. QED BY <1>1, <1>2 DEF Lineage

\* A session keeps its lineage while nothing is linked to it.
LEMMA LineageSame ==
    ASSUME Issued' = Issued,
           \A j \in Issued : sessions'[j].parent = sessions[j].parent,
           NEW i
    PROVE  Lineage(i)' = Lineage(i)
BY DEF Lineage, RotationClosed

\* The sessions of a lineage belong to one browser, and are all ended or none.
LEMMA LineageFamily ==
    ASSUME Families, NEW i \in Issued, NEW j \in Lineage(i)
    PROVE  /\ j \in Issued
           /\ sessions[j].browser = sessions[i].browser
           /\ j \in Ended <=> i \in Ended
<1>. DEFINE S == {k \in Issued : /\ sessions[k].browser = sessions[i].browser
                                 /\ k \in Ended <=> i \in Ended}
<1>1. S \in SUBSET Issued /\ i \in S
  OBVIOUS
<1>2. RotationClosed(S)
  <2>. SUFFICES ASSUME NEW k \in Issued, sessions[k].parent \in S PROVE k \in S
    BY DEF RotationClosed
  <2>1. sessions[k].parent # 0
    BY DEF Issued
  <2>. QED BY <2>1 DEF Families
<1>3. Lineage(i) \subseteq S
  BY <1>1, <1>2, LineageWithin
<1>. QED BY <1>3

\* A session that was rotated out of nothing is in no other's lineage.
LEMMA LineageApart ==
    ASSUME NEW i \in Issued, NEW j \in Issued, i # j, sessions[j].parent = 0
    PROVE  j \notin Lineage(i)
<1>. DEFINE S == Issued \ {j}
<1>1. S \in SUBSET Issued /\ i \in S
  OBVIOUS
<1>2. RotationClosed(S)
  BY DEF RotationClosed, Issued
<1>. QED BY <1>1, <1>2, LineageWithin

-----------------------------------------------------------------------------
(* Types.                                                                  *)

\* Revoking changes nothing else of the sessions.
LEMMA RevokedFacts ==
    ASSUME sessions \in Seq(Sessions), NEW set
    PROVE  /\ Revoked(set) \in Seq(Sessions) /\ Len(Revoked(set)) = Len(sessions)
           /\ \A j \in Issued :
                 /\ Revoked(set)[j].browser = sessions[j].browser
                 /\ Revoked(set)[j].parent = sessions[j].parent
                 /\ Revoked(set)[j].rotated = sessions[j].rotated
                 /\ j \in set => Revoked(set)[j].revoked = TRUE
                 /\ j \notin set => Revoked(set)[j] = sessions[j]
<1>. DEFINE r(j) == IF j \in set THEN [sessions[j] EXCEPT !.revoked = TRUE] ELSE sessions[j]
<1>1. Len(sessions) \in Nat /\ \A j \in 1 .. Len(sessions) : sessions[j] \in Sessions
  OBVIOUS
<1>2. \A j \in 1 .. Len(sessions) : r(j) \in Sessions
  BY <1>1 DEF Sessions
<1>3. Revoked(set) = [j \in 1 .. Len(sessions) |-> r(j)]
  BY DEF Revoked, Issued
<1>4. Revoked(set) \in Seq(Sessions) /\ Len(Revoked(set)) = Len(sessions)
  BY <1>1, <1>2, <1>3
<1>. QED BY <1>1, <1>3, <1>4 DEF Issued, Sessions

Inv ==
    /\ TypeOK
    /\ Families /\ Held /\ Phases /\ Replacements
    /\ EndedStaysEnded
    /\ TokensUsable /\ HonestBrowserStaysIn

\* What a call is made of, or made into.
LEMMA CallTypes ==
    ASSUME TypeOK
    PROVE  /\ \A p \in Pages, k \in {"refresh", "logout"} : Call(k, p) \in Calls
           /\ \A set \in SUBSET Calls : Orphans(set) \subseteq Calls
<1>1. ASSUME NEW p \in Pages, NEW k \in {"refresh", "logout"} PROVE Call(k, p) \in Calls
  <2>1. BrowserOf[p] \in Browsers
    BY AuthAssumption
  <2>2. jar[BrowserOf[p]] \in {0} \union Ids
    BY <2>1 DEF TypeOK
  <2>. QED BY <2>2 DEF Call, Calls
<1>2. \A c \in Calls : [c EXCEPT !.mine = FALSE] \in Calls
  BY DEF Calls
<1>. QED BY <1>1, <1>2 DEF Orphans

\* Answers are to calls.
LEMMA AnswerTypes ==
    ASSUME TypeOK, NEW c \in calls, NEW at \in {"done", "refused"}, Answer(c, at)
    PROVE  calls' \subseteq Calls
BY DEF TypeOK, Answer, Calls

\* The rows after a login, a replacement and a link.
LEMMA AppendFacts ==
    ASSUME NEW seq \in Seq(Sessions), NEW row \in Sessions
    PROVE  /\ Append(seq, row) \in Seq(Sessions)
           /\ Len(Append(seq, row)) = Len(seq) + 1
           /\ \A j \in 1 .. Len(seq) : Append(seq, row)[j] = seq[j]
           /\ Append(seq, row)[Len(seq) + 1] = row
OBVIOUS

\* Rows in their order are a sequence.
LEMMA RowsAreASequence ==
    ASSUME NEW n \in Nat, NEW rows \in [1 .. n -> Sessions]
    PROVE  rows \in Seq(Sessions) /\ Len(rows) = n
OBVIOUS

\* A link changes two rows.
LEMMA LinkFacts ==
    ASSUME Inv, NEW c \in calls, Link(c)
    PROVE  /\ c.kind = "refresh" /\ c.token \in Issued /\ c.new \in Issued /\ c.token # c.new
           /\ sessions' \in Seq(Sessions) /\ Len(sessions') = Len(sessions)
           /\ \A j \in Issued \ {c.token, c.new} : sessions'[j] = sessions[j]
           /\ sessions'[c.new] = [sessions[c.new] EXCEPT !.parent = c.token]
           /\ sessions'[c.token] = [sessions[c.token] EXCEPT !.revoked = TRUE, !.rotated = "fresh"]
<1>1. c.kind = "refresh" /\ c.token \in Issued /\ c.new \in Issued /\ c.token # c.new
  <2>1. c.kind = "refresh" /\ c.new # 0 /\ c.token # 0
    BY DEF Link, Inv, TypeOK, Calls, Phases
  <2>. QED BY <2>1 DEF Inv, Held, Replacements
<1>2. Len(sessions) \in Nat /\ sessions \in [Issued -> Sessions] /\ Issued \subseteq Ids
  BY AuthAssumption DEF Inv, TypeOK, Issued, Ids
<1>3. sessions' = [sessions EXCEPT ![c.new].parent = c.token,
                                   ![c.token] = [@ EXCEPT !.revoked = TRUE, !.rotated = "fresh"]]
  BY DEF Link
<1>4. /\ sessions' \in [Issued -> Sessions]
      /\ \A j \in Issued \ {c.token, c.new} : sessions'[j] = sessions[j]
      /\ sessions'[c.new] = [sessions[c.new] EXCEPT !.parent = c.token]
      /\ sessions'[c.token] = [sessions[c.token] EXCEPT !.revoked = TRUE, !.rotated = "fresh"]
  <2>1. c.token \in {0} \union Ids
    BY <1>1, <1>2
  <2>2. sessions \in [Issued -> Sessions]
    BY <1>2
  <2>3. sessions' \in [Issued -> Sessions]
    BY <1>1, <1>3, <2>1, <2>2 DEF Sessions
  <2>4. \A j \in Issued \ {c.token, c.new} : sessions'[j] = sessions[j]
    BY <1>1, <1>3, <2>1, <2>2 DEF Sessions
  <2>5. sessions'[c.new] = [sessions[c.new] EXCEPT !.parent = c.token]
    BY <1>1, <1>3, <2>1, <2>2 DEF Sessions
  <2>6. sessions'[c.token] = [sessions[c.token] EXCEPT !.revoked = TRUE, !.rotated = "fresh"]
    BY <1>1, <1>3, <2>1, <2>2 DEF Sessions
  <2>. QED BY <2>3, <2>4, <2>5, <2>6
<1>. QED BY <1>1, <1>2, <1>4, RowsAreASequence DEF Issued

\* No step leaves the types.
LEMMA TypeSteps == Inv /\ [Next]_vars => TypeOK'
<1>. SUFFICES ASSUME Inv, [Next]_vars PROVE TypeOK'
  OBVIOUS
<1>. USE AuthAssumption
<1>0. TypeOK /\ Len(sessions) \in Nat /\ sessions \in Seq(Sessions) /\ Issued \subseteq Ids
  BY DEF Inv, TypeOK, Issued, Ids
<1>1. ASSUME NEW p \in Pages, Login(p) PROVE TypeOK'
  <2>. DEFINE b   == BrowserOf[p]
              new == Len(sessions) + 1
              row == [browser |-> b, revoked |-> FALSE, rotated |-> "no", parent |-> 0]
  <2>1. row \in Sessions /\ b \in Browsers
    BY DEF Sessions
  <2>2. Revoked(Issued) \in Seq(Sessions) /\ Len(Revoked(Issued)) = Len(sessions)
    BY <1>0, RevokedFacts
  <2>3. sessions' = Append(Revoked(Issued), row) /\ new <= MaxSessions
    BY <1>1 DEF Login
  <2>4. sessions' \in Seq(Sessions) /\ Len(sessions') = new
    BY <2>1, <2>2, <2>3, AppendFacts
  <2>5. jar' \in [Browsers -> {0} \union Ids] /\ new \in Ids
    BY <1>0, <1>1, <2>1 DEF Login, TypeOK, Ids
  <2>6. page' \in [Pages -> Views]
    BY <1>0, <1>1 DEF Login, TypeOK, Views
  <2>. QED BY <1>0, <1>1, <2>3, <2>4, <2>5, <2>6 DEF Login, TypeOK
<1>2. ASSUME NEW p \in Pages, StartRefresh(p) PROVE TypeOK'
  <2>1. page' \in [Pages -> Views] /\ calls' \subseteq Calls
    BY <1>0, <1>2, CallTypes DEF StartRefresh, TypeOK, Views
  <2>. QED BY <1>0, <1>2, <2>1 DEF StartRefresh, TypeOK
<1>3. ASSUME NEW p \in Pages, Reload(p) PROVE TypeOK'
  <2>1. page' \in [Pages -> Views] /\ slow' \subseteq Browsers
    BY <1>0, <1>3 DEF Reload, TypeOK, Views, Loading
  <2>2. calls' \subseteq Calls
    BY <1>0, <1>3, CallTypes DEF Reload, TypeOK
  <2>. QED BY <1>0, <1>3, <2>1, <2>2 DEF Reload, TypeOK
<1>4. ASSUME NEW p \in Pages, Logout(p) PROVE TypeOK'
  BY <1>0, <1>4 DEF Logout, TypeOK, Views
<1>5. ASSUME NEW p \in Pages, PostLogout(p) PROVE TypeOK'
  BY <1>0, <1>5, CallTypes DEF PostLogout, TypeOK
<1>6. ASSUME NEW c \in calls, Check(c) PROVE TypeOK'
  <2>1. calls' \subseteq Calls
    <3>1. CASE \E at \in {"done", "refused"} : Answer(c, at)
      BY <1>0, <3>1, AnswerTypes
    <3>2. CASE Replace(c, [c EXCEPT !.at = "checked", !.alive = Unclosed(c.token)])
      <4>1. Unclosed(c.token) \in BOOLEAN
        BY DEF Unclosed
      <4>2. [c EXCEPT !.at = "checked", !.alive = Unclosed(c.token)] \in Calls
        BY <1>0, <4>1 DEF TypeOK, Calls
      <4>. QED BY <1>0, <3>2, <4>2 DEF TypeOK, Replace
    <3>. QED BY <1>6, <3>1, <3>2 DEF Check
  <2>2. sessions' = sessions \/ sessions' = Revoked(Lineage(c.token))
    BY <1>6 DEF Check
  <2>3. sessions' \in Seq(Sessions) /\ Len(sessions') = Len(sessions)
    BY <1>0, <2>2, RevokedFacts
  <2>. QED BY <1>0, <1>6, <2>1, <2>3 DEF Check, TypeOK
<1>7. ASSUME NEW c \in calls, Insert(c) PROVE TypeOK'
  <2>. DEFINE new == Len(sessions) + 1
              row == [browser |-> sessions[c.token].browser, revoked |-> FALSE,
                      rotated |-> "no", parent |-> 0]
  <2>1. c.token \in Issued
    BY <1>7 DEF Insert, Inv, Phases, Held
  <2>2. sessions[c.token] \in Sessions
    BY <1>0, <2>1 DEF Issued
  <2>6. row \in Sessions
    BY <2>2, <1>0 DEF Sessions
  <2>3. sessions' \in Seq(Sessions) /\ Len(sessions') = new /\ new \in Ids
    BY <1>0, <1>7, <2>6, AppendFacts DEF Insert, Ids
  <2>4. [c EXCEPT !.at = "inserted", !.new = new] \in Calls
    BY <1>0, <2>3 DEF TypeOK, Calls
  <2>5. closed' \subseteq Ids /\ raced' \subseteq Ids
    BY <1>0, <1>7, <2>3 DEF Insert, TypeOK
  <2>. QED BY <1>0, <1>7, <2>3, <2>4, <2>5 DEF Insert, Replace, TypeOK, Ids
<1>8. ASSUME NEW c \in calls, Link(c) PROVE TypeOK'
  BY <1>0, <1>8, LinkFacts, AnswerTypes DEF Link, TypeOK
<1>9. ASSUME NEW c \in calls, Revoke(c) PROVE TypeOK'
  <2>1. calls' \subseteq Calls
    BY <1>0, <1>9, AnswerTypes DEF Revoke
  <2>2. sessions' = sessions \/ \E set : sessions' = Revoked(set)
    BY <1>9 DEF Revoke
  <2>3. sessions' \in Seq(Sessions) /\ Len(sessions') = Len(sessions)
    BY <1>0, <2>2, RevokedFacts
  <2>4. closed' \subseteq Ids
    BY <1>0, <1>9 DEF Revoke, TypeOK
  <2>. QED BY <1>0, <1>9, <2>1, <2>3, <2>4 DEF Revoke, TypeOK
<1>10. ASSUME NEW c \in calls, HearRefreshed(c) \/ HearRefused(c) \/ HearLogout(c) PROVE TypeOK'
  <2>1. c \in Calls /\ c.page \in Pages
    BY <1>0 DEF TypeOK, Calls
  <2>2. jar' \in [Browsers -> {0} \union Ids]
    BY <1>0, <1>10, <2>1 DEF HearRefreshed, HearRefused, HearLogout, TypeOK, Calls
  <2>3. page' \in [Pages -> Views]
    <3>1. page \in [Pages -> Views] /\ page[c.page] \in Views /\ Loading \in Views
      BY <1>0, <2>1 DEF TypeOK, Views, Loading
    <3>2. \A at \in {"in", "load", "out"} : [page[c.page] EXCEPT !.at = at] \in Views
      BY <3>1 DEF Views
    <3>. QED BY <1>10, <2>1, <3>1, <3>2 DEF HearRefreshed, HearRefused, HearLogout
  <2>. QED BY <1>0, <1>10, <2>2, <2>3 DEF HearRefreshed, HearRefused, HearLogout, TypeOK
<1>11. ASSUME NEW c \in calls, LoseRefresh(c) \/ LoseLogout(c) PROVE TypeOK'
  <2>1. c \in Calls /\ c.page \in Pages
    BY <1>0 DEF TypeOK, Calls
  <2>2. page' \in [Pages -> Views]
    <3>1. page \in [Pages -> Views] /\ page[c.page] \in Views /\ Loading \in Views
      BY <1>0, <2>1 DEF TypeOK, Views, Loading
    <3>2. [page[c.page] EXCEPT !.at = IF @ = "boot" THEN "out" ELSE @] \in Views
      BY <3>1 DEF Views
    <3>. QED BY <1>11, <2>1, <3>1, <3>2 DEF LoseRefresh, LoseLogout
  <2>3. calls' \subseteq Calls
    BY <1>0, <1>11, <2>1, CallTypes DEF LoseRefresh, LoseLogout, TypeOK
  <2>4. slow' \subseteq Browsers
    BY <1>0, <1>11, <2>1 DEF LoseRefresh, LoseLogout, TypeOK, Calls
  <2>. QED BY <1>0, <1>11, <2>2, <2>3, <2>4 DEF LoseRefresh, LoseLogout, TypeOK
<1>12. ASSUME NEW i \in Issued, GraceEnds(i) PROVE TypeOK'
  <2>3. sessions[i] \in Sessions
    BY <1>0 DEF Issued
  <2>1. [sessions[i] EXCEPT !.rotated = "old"] \in Sessions
    BY <2>3 DEF Sessions
  <2>2. sessions' \in Seq(Sessions) /\ Len(sessions') = Len(sessions)
    BY <1>0, <1>12, <2>1 DEF GraceEnds, Issued
  <2>. QED BY <1>0, <1>12, <2>2 DEF GraceEnds, TypeOK
<1>13. CASE UNCHANGED vars
  BY <1>0, <1>13 DEF vars, TypeOK
<1>. QED
  BY <1>1, <1>2, <1>3, <1>4, <1>5, <1>6, <1>7, <1>8, <1>9, <1>10, <1>11, <1>12, <1>13
     DEF Next, Serve

-----------------------------------------------------------------------------
(* Steps of the pages.                                                     *)

\* What has not ended stays usable while nothing touches the sessions.
LEMMA GoodStays ==
    ASSUME UNCHANGED <<sessions, closed, raced>>, NEW i, NEW b,
           b \in slow => b \in slow', Good(i, b)
    PROVE  Good(i, b)'
BY DEF Good, Usable, Honoured, Active, Lineage, RotationClosed, Issued, Ended

\* Requests are sent, answers heard, and calls forgotten by their pages.
LEMMA CallsOnly ==
    ASSUME Inv, UNCHANGED <<sessions, jar, closed, raced, slow>>,
           \A d \in calls' :
              \/ d \in calls
              \/ \E p \in Pages, k \in {"refresh", "logout"} : d = Call(k, p)
              \/ \E c \in calls :
                    /\ c.at \notin {"done", "refused"}
                    /\ d = [c EXCEPT !.mine = FALSE]
                    /\ c \in calls' => d = c
    PROVE  /\ Families' /\ Held' /\ Phases' /\ Replacements'
           /\ EndedStaysEnded' /\ TokensUsable' /\ HonestBrowserStaysIn'
<1>0. AuthAssumption /\ \A c \in calls : c \in Calls
  BY AuthAssumption DEF Inv, TypeOK
<1>1. Families' /\ EndedStaysEnded'
  BY DEF Inv, Families, EndedStaysEnded, Active, Issued, Ended
<1>2. Held'
  BY <1>0 DEF Inv, Held, Issued, Call, Calls, AuthAssumption
<1>3. Phases'
  BY <1>0 DEF Inv, Phases, Call, Calls
<1>4. Replacements'
  <2>. DEFINE From(d, c) ==
                /\ d.kind = c.kind /\ d.page = c.page /\ d.token = c.token
                /\ d.new = c.new /\ d.at = c.at
                /\ \/ d = c
                   \/ d = [c EXCEPT !.mine = FALSE] /\ (c \in calls' => d = c)
  <2>1. \A d \in calls' : d.new # 0 => \E c \in calls : From(d, c)
    BY <1>0 DEF Call, Calls
  <2>2. \A d \in calls' : \/ \E c \in calls : d.token = c.token
                          \/ \E b \in Browsers : d.token = jar[b]
    BY <1>0 DEF Call, Calls, AuthAssumption
  <2>. HIDE DEF From
  <2>. SUFFICES ASSUME NEW d \in calls', d.new # 0
                PROVE  /\ d.new \in Issued
                       /\ sessions[d.new].browser = BrowserOf[d.page]
                       /\ sessions[d.new].rotated = "no"
                       /\ \A b \in Browsers : jar[b] # d.new
                       /\ \A e \in calls' : e.token # d.new /\ (e # d => e.new # d.new)
                       /\ d.at = "inserted" =>
                             /\ sessions[d.new].parent = 0
                             /\ d.new \in Ended <=> d.token \in Ended
                             /\ d.new \in Ended \/ Active(d.new)
                       /\ d.at = "done" => \/ d.new \in Ended \/ BrowserOf[d.page] \in slow'
                                           \/ Active(d.new)
    BY DEF Replacements, Issued, Ended, Active
  <2>3. PICK c \in calls : From(d, c)
    BY <2>1
  <2>4. /\ c.new # 0
        /\ d.page = c.page /\ d.token = c.token /\ d.new = c.new /\ d.at = c.at
    BY <2>3 DEF From
  <2>5. \A e \in calls' : e.token # d.new
    BY <2>2, <2>4 DEF Inv, Replacements
  <2>6. \A e \in calls' : e # d => e.new # d.new
    <3>. SUFFICES ASSUME NEW e \in calls', e.new = d.new PROVE e = d
      OBVIOUS
    <3>1. PICK o \in calls : From(e, o)
      BY <2>1, <2>4
    <3>2. o = c
      BY <2>4, <3>1 DEF From, Inv, Replacements
    <3>. QED BY <2>3, <3>1, <3>2 DEF From
  <2>. QED BY <2>4, <2>5, <2>6 DEF Inv, Replacements
<1>5. TokensUsable'
  <2>1. ASSUME NEW b \in Browsers PROVE Good(jar[b], b)'
    <3>1. Good(jar[b], b)
      BY DEF Inv, TokensUsable
    <3>. QED BY <3>1, GoodStays
  <2>2. ASSUME NEW d \in calls', d.kind = "refresh", d.at = "sent"
        PROVE  Good(d.token, BrowserOf[d.page])'
    <3>1. CASE d \in calls
      BY <2>2, <3>1, GoodStays DEF Inv, TokensUsable
    <3>2. CASE \E p \in Pages, k \in {"refresh", "logout"} : d = Call(k, p)
      <4>1. d.mine /\ d.token = jar[BrowserOf[d.page]] /\ BrowserOf[d.page] \in Browsers
        BY <3>2, <1>0 DEF Call, AuthAssumption
      <4>. QED BY <2>1, <4>1
    <3>3. CASE \E c \in calls : d = [c EXCEPT !.mine = FALSE]
      <4>1. PICK c \in calls : d = [c EXCEPT !.mine = FALSE]
        BY <3>3
      <4>2. c.kind = "refresh" /\ c.at = "sent" /\ c.token = d.token /\ c.page = d.page
        BY <1>0, <2>2, <4>1 DEF Calls
      <4>. QED BY <4>2, GoodStays DEF Inv, TokensUsable
    <3>. QED BY <3>1, <3>2, <3>3
  <2>. QED BY <2>1, <2>2 DEF TokensUsable
<1>6. HonestBrowserStaysIn'
  BY <1>0 DEF Inv, HonestBrowserStaysIn, Call, Calls
<1>. QED BY <1>1, <1>2, <1>3, <1>4, <1>5, <1>6

Kept == /\ Families /\ Held /\ Phases /\ Replacements
        /\ EndedStaysEnded /\ TokensUsable /\ HonestBrowserStaysIn

\* A page that asks, signs out, reloads, or is refused or left without an answer.
LEMMA PageSteps ==
    ASSUME Inv,
           \/ \E p \in Pages : StartRefresh(p) \/ Reload(p) \/ Logout(p) \/ PostLogout(p)
           \/ \E c \in calls : HearRefused(c) \/ LoseRefresh(c) \/ LoseLogout(c)
           \/ UNCHANGED vars
    PROVE  Kept'
<1>0. \A c \in calls : c \in Calls
  BY DEF Inv, TypeOK
<1>1. ASSUME NEW p \in Pages, StartRefresh(p) \/ Logout(p) \/ PostLogout(p) PROVE Kept'
  BY <1>1, CallsOnly DEF StartRefresh, Logout, PostLogout, Kept
<1>2. ASSUME NEW p \in Pages, Reload(p) PROVE Kept'
  <2>1. UNCHANGED <<sessions, jar, closed, raced, slow>>
    BY <1>2 DEF Reload
  <2>2. ASSUME NEW d \in calls', d \notin calls
        PROVE  \E c \in calls :
                  /\ c.at \notin {"done", "refused"}
                  /\ d = [c EXCEPT !.mine = FALSE]
                  /\ c \in calls' => d = c
    <3>1. PICK c \in calls : /\ c.page = p /\ c.at \notin {"done", "refused"}
                             /\ d = [c EXCEPT !.mine = FALSE]
      BY <1>2, <2>2 DEF Reload, Orphans
    <3>2. c.mine
      BY <1>0, <2>2, <3>1 DEF Calls
    <3>3. c \notin calls'
      BY <1>0, <1>2, <3>1, <3>2 DEF Reload, Orphans, Calls
    <3>. QED BY <3>1, <3>3
  <2>. QED BY <2>1, <2>2, CallsOnly DEF Kept
<1>3. ASSUME NEW c \in calls, HearRefused(c) PROVE Kept'
  BY <1>3, CallsOnly DEF HearRefused, Kept
<1>4. ASSUME NEW c \in calls, LoseRefresh(c) \/ LoseLogout(c) PROVE Kept'
  <2>1. UNCHANGED <<sessions, jar, closed, raced, slow>>
    BY <1>4 DEF LoseRefresh, LoseLogout
  <2>2. ASSUME NEW d \in calls', d \notin calls
        PROVE  /\ c.at \notin {"done", "refused"}
               /\ d = [c EXCEPT !.mine = FALSE]
               /\ c \in calls' => d = c
    BY <1>0, <1>4, <2>2 DEF LoseRefresh, LoseLogout, Orphans, Calls
  <2>. QED BY <2>1, <2>2, CallsOnly DEF Kept
<1>5. CASE UNCHANGED vars
  BY <1>5, CallsOnly DEF vars, Kept
<1>. QED BY <1>1, <1>2, <1>3, <1>4, <1>5

\* An answer that sets or deletes the cookie.
LEMMA CookieSteps ==
    ASSUME Inv, NEW c \in calls, HearRefreshed(c) \/ HearLogout(c)
    PROVE  Kept'
<1>. DEFINE home == BrowserOf[c.page]
<1>0. /\ c \in Calls /\ home \in Browsers /\ jar \in [Browsers -> {0} \union Ids]
      /\ calls' = calls \ {c} /\ UNCHANGED <<sessions, closed, raced, slow>>
  BY AuthAssumption DEF Inv, TypeOK, Calls, HearRefreshed, HearLogout
<1>1. PICK new : /\ jar' = [jar EXCEPT ![home] = new]
                 /\ \/ new = 0
                    \/ new = c.new /\ new # 0 /\ c.at = "done"
  BY <1>0 DEF HearRefreshed, HearLogout, Inv, Phases
<1>2. \A b \in Browsers : jar'[b] = IF b = home THEN new ELSE jar[b]
  BY <1>0, <1>1
<1>3. new # 0 => /\ new \in Issued /\ sessions[new].browser = home
                 /\ \A d \in calls' : d.new # new
                 /\ Good(new, home)
  <2>. SUFFICES ASSUME new # 0 PROVE /\ new \in Issued /\ sessions[new].browser = home
                                     /\ \A d \in calls' : d.new # new
                                     /\ Good(new, home)
    OBVIOUS
  <2>. QED BY <1>0, <1>1 DEF Inv, Replacements, Good, Usable
<1>4. Families' /\ EndedStaysEnded' /\ HonestBrowserStaysIn' /\ Phases'
  BY <1>0 DEF Inv, Families, EndedStaysEnded, HonestBrowserStaysIn, Phases, Active, Issued, Ended
<1>5. Held'
  BY <1>0, <1>2, <1>3 DEF Inv, Held, Issued
<1>6. Replacements'
  BY <1>0, <1>2, <1>3 DEF Inv, Replacements, Issued, Ended, Active
<1>7. TokensUsable'
  <2>1. ASSUME NEW b \in Browsers PROVE Good(jar'[b], b)
    BY <1>2, <1>3 DEF Inv, TokensUsable, Good
  <2>2. \A b \in Browsers : Good(jar[b], b)'
    BY <1>0, <2>1, GoodStays
  <2>3. \A d \in calls' :
           d.kind = "refresh" /\ d.at = "sent" => Good(d.token, BrowserOf[d.page])'
    BY <1>0, GoodStays DEF Inv, TokensUsable
  <2>. QED BY <2>2, <2>3 DEF TokensUsable
<1>. QED BY <1>4, <1>5, <1>6, <1>7 DEF Kept

-----------------------------------------------------------------------------
(* Steps of the server.                                                    *)

\* LineageStep, of the next state.
LEMMA LineageStepNext ==
    ASSUME NEW i, NEW j \in Issued', sessions'[j].parent \in Lineage(i)'
    PROVE  j \in Lineage(i)'
<1>. SUFFICES ASSUME NEW S \in SUBSET Issued', i \in S, RotationClosed(S)'
              PROVE  j \in S
  BY DEF Lineage
<1>1. sessions'[j].parent \in S
  BY DEF Lineage
<1>. QED BY <1>1 DEF RotationClosed

\* A token stays usable while its lineage grows, stays alive and within its grace.
LEMMA GoodKept ==
    ASSUME Issued \subseteq Issued',
           \A j \in Issued : sessions[j].parent # 0 => sessions'[j].parent = sessions[j].parent,
           NEW i \in {0} \union Issued, NEW b, Good(i, b),
           Ended \subseteq Ended', b \in slow => b \in slow',
           i \in Issued \ Ended' /\ b \notin slow' =>
              /\ sessions[i].rotated = "fresh" => sessions'[i].rotated = "fresh"
              /\ \A j \in Lineage(i) : Active(j) => ~sessions'[j].revoked
    PROVE  Good(i, b)'
<1>1. CASE i \in Issued /\ i \notin Ended' /\ b \notin slow'
  <2>1. Usable(i)
    BY <1>1 DEF Good, Issued
  <2>2. i \in Lineage(i) /\ Lineage(i) \subseteq Lineage(i)'
    BY <1>1, LineageSelf, LineageGrows
  <2>3. Usable(i)'
    BY <1>1, <2>1, <2>2 DEF Usable, Honoured, Active
  <2>. QED BY <2>3 DEF Good
<1>2. CASE i = 0 \/ i \in Ended' \/ b \in slow'
  BY <1>2 DEF Good
<1>. QED BY <1>1, <1>2

\* The tokens are usable after a step that keeps those of every browser's own.
LEMMA TokensFrom ==
    ASSUME Inv, UNCHANGED jar,
           \A i \in {0} \union Issued, b \in Browsers :
              Good(i, b) /\ (i \in Issued => sessions[i].browser = b) => Good(i, b)',
           \A d \in calls' : d.at = "sent" => d \in calls
    PROVE  TokensUsable'
<1>1. ASSUME NEW b \in Browsers PROVE Good(jar[b], b)'
  <2>1. /\ Good(jar[b], b) /\ jar[b] \in {0} \union Issued
        /\ jar[b] \in Issued => sessions[jar[b]].browser = b
    BY DEF Inv, TokensUsable, Held, Issued
  <2>. QED BY <2>1
<1>2. ASSUME NEW d \in calls', d.kind = "refresh", d.at = "sent"
      PROVE  Good(d.token, BrowserOf[d.page])'
  <2>1. d \in calls
    BY <1>2
  <2>2. /\ d.token \in {0} \union Issued /\ BrowserOf[d.page] \in Browsers
        /\ d.token \in Issued => sessions[d.token].browser = BrowserOf[d.page]
    BY <2>1, AuthAssumption DEF Inv, Held, TypeOK, Calls, Issued
  <2>3. Good(d.token, BrowserOf[d.page])
    BY <1>2, <2>1 DEF Inv, TokensUsable
  <2>. QED BY <2>2, <2>3
<1>3. \A b \in Browsers : Good(jar[b], b)'
  BY <1>1
<1>. QED BY <1>2, <1>3 DEF TokensUsable

\* The end of a grace makes slow whoever still has the token.
LEMMA GraceStep ==
    ASSUME Inv, NEW i \in Issued, GraceEnds(i)
    PROVE  Kept'
<1>0. /\ sessions \in Seq(Sessions) /\ UNCHANGED <<jar, calls, closed, raced>>
      /\ Issued' = Issued
      /\ \A j \in Issued : /\ sessions'[j].browser = sessions[j].browser
                           /\ sessions'[j].parent = sessions[j].parent
                           /\ sessions'[j].revoked = sessions[j].revoked
                           /\ j # i => sessions'[j].rotated = sessions[j].rotated
      /\ sessions[i].rotated = "fresh"
      /\ slow \subseteq slow'
      /\ \A b \in Browsers : jar[b] = i => b \in slow'
      /\ \A c \in calls : c.token = i /\ c.at = "sent" => BrowserOf[c.page] \in slow'
  <2>1. sessions \in [Issued -> Sessions] /\ sessions' = [sessions EXCEPT ![i].rotated = "old"]
    BY DEF Inv, TypeOK, GraceEnds, Issued
  <2>2. \A j \in Issued : /\ sessions'[j].browser = sessions[j].browser
                          /\ sessions'[j].parent = sessions[j].parent
                          /\ sessions'[j].revoked = sessions[j].revoked
                          /\ j # i => sessions'[j].rotated = sessions[j].rotated
    BY <2>1 DEF Sessions
  <2>3. \A c \in calls : BrowserOf[c.page] \in Browsers
    BY AuthAssumption DEF Inv, TypeOK, Calls
  <2>4. sessions \in Seq(Sessions) /\ Issued' = Issued
    BY DEF Inv, TypeOK, GraceEnds, Issued
  <2>. QED BY <2>2, <2>3, <2>4 DEF GraceEnds
<1>1. Families' /\ EndedStaysEnded' /\ Held' /\ Phases'
  BY <1>0 DEF Inv, Families, EndedStaysEnded, Held, Phases, Active, Ended
<1>2. Replacements'
  BY <1>0 DEF Inv, Replacements, Active, Ended
<1>3. HonestBrowserStaysIn'
  BY <1>0 DEF Inv, HonestBrowserStaysIn
<1>4. ASSUME NEW k \in {0} \union Issued, NEW b \in Browsers, Good(k, b), k # i \/ b \in slow'
      PROVE  Good(k, b)'
  <2>1. \A j \in Lineage(k) : j \in Issued
    BY DEF Lineage
  <2>. QED BY <1>0, <1>4, <2>1, GoodKept DEF Active, Ended
<1>5. TokensUsable'
  <2>1. ASSUME NEW b \in Browsers PROVE Good(jar[b], b)'
    <3>1. Good(jar[b], b) /\ jar[b] \in {0} \union Issued
      BY DEF Inv, TokensUsable, Held
    <3>. QED BY <1>0, <1>4, <3>1
  <2>2. ASSUME NEW d \in calls, d.kind = "refresh", d.at = "sent"
        PROVE  Good(d.token, BrowserOf[d.page])'
    <3>1. d.token \in {0} \union Issued /\ BrowserOf[d.page] \in Browsers
      BY AuthAssumption DEF Inv, Held, TypeOK, Calls
    <3>2. Good(d.token, BrowserOf[d.page])
      BY <2>2 DEF Inv, TokensUsable
    <3>. QED BY <1>0, <1>4, <2>2, <3>1, <3>2
  <2>3. \A b \in Browsers : Good(jar[b], b)'
    BY <2>1
  <2>. QED BY <1>0, <2>2, <2>3 DEF TokensUsable
<1>. QED BY <1>1, <1>2, <1>3, <1>5 DEF Kept

\* A check lets through what has not ended.  It takes a lineage only of a session
\* that had ended, or of a slow browser.
LEMMA CheckStep ==
    ASSUME Inv, NEW c \in calls, Check(c)
    PROVE  Kept'
<1>. DEFINE home == BrowserOf[c.page]
            alike(d) == d.kind = c.kind /\ d.page = c.page /\ d.token = c.token /\ d.new = c.new
            hit(j) == sessions' # sessions /\ j \in Lineage(c.token)
<1>0. /\ c \in Calls /\ home \in Browsers /\ c.kind = "refresh" /\ c.at = "sent" /\ c.new = 0
      /\ c.token \in {0} \union Issued
      /\ c.token # 0 => sessions[c.token].browser = home
      /\ UNCHANGED <<jar, closed, raced, slow>> /\ sessions \in Seq(Sessions)
  BY AuthAssumption DEF Check, Inv, TypeOK, Calls, Phases, Held
<1>1. c.token # 0 /\ ~Usable(c.token) => c.token \in Ended \/ home \in slow
  BY <1>0 DEF Inv, TokensUsable, Good
<1>2. \A d \in calls' :
         \/ d \in calls
         \/ /\ alike(d) /\ d.at = "checked" /\ d.alive = Unclosed(c.token)
            /\ c.token # 0 /\ Usable(c.token)
         \/ /\ alike(d) /\ d.at = "refused" /\ d.mine
            /\ c.token # 0 => ~Usable(c.token)
  <2>1. \A d : d = [c EXCEPT !.at = "checked", !.alive = Unclosed(c.token)]
                   => alike(d) /\ d.at = "checked" /\ d.alive = Unclosed(c.token)
    BY <1>0 DEF Calls
  <2>2. \A d : d = [c EXCEPT !.at = "refused"] => alike(d) /\ d.at = "refused" /\ d.mine = c.mine
    BY <1>0 DEF Calls
  <2>. HIDE DEF alike
  <2>3. CASE c.token # 0 /\ Usable(c.token)
    <3>1. calls' = (calls \ {c}) \union {[c EXCEPT !.at = "checked", !.alive = Unclosed(c.token)]}
      BY <2>3 DEF Check, Replace, Usable
    <3>. QED BY <2>1, <2>3, <3>1
  <2>4. CASE c.token # 0 => ~Usable(c.token)
    <3>1. calls' = (calls \ {c}) \union (IF c.mine THEN {[c EXCEPT !.at = "refused"]} ELSE {})
      BY <2>4 DEF Check, Answer, Usable
    <3>. QED BY <2>2, <2>4, <3>1
  <2>. QED BY <2>3, <2>4
<1>3. sessions' # sessions => /\ c.token # 0 /\ ~Usable(c.token)
                              /\ sessions' = Revoked(Lineage(c.token))
  BY DEF Check, Usable
<1>4. /\ Issued' = Issued
      /\ \A j \in Issued : /\ sessions'[j].browser = sessions[j].browser
                           /\ sessions'[j].parent = sessions[j].parent
                           /\ sessions'[j].rotated = sessions[j].rotated
                           /\ sessions[j].revoked => sessions'[j].revoked
                           /\ ~hit(j) => sessions'[j] = sessions[j]
  <2>1. CASE sessions' = sessions
    BY <2>1 DEF Issued
  <2>2. CASE sessions' # sessions
    <3>1. sessions' = Revoked(Lineage(c.token)) /\ c.token # 0
      BY <1>3, <2>2
    <3>2. \A j \in Issued :
             /\ sessions'[j].browser = sessions[j].browser
             /\ sessions'[j].parent = sessions[j].parent
             /\ sessions'[j].rotated = sessions[j].rotated
             /\ j \in Lineage(c.token) => sessions'[j].revoked = TRUE
             /\ j \notin Lineage(c.token) => sessions'[j] = sessions[j]
      BY <1>0, <3>1, RevokedFacts
    <3>3. Issued' = Issued
      BY <1>0, <3>1, RevokedFacts DEF Issued
    <3>. QED BY <2>2, <3>2, <3>3
  <2>. QED BY <2>1, <2>2
<1>5. \A j \in Issued : hit(j) => /\ sessions[j].browser = home
                                  /\ j \in Ended \/ home \in slow
                                  /\ sessions[j].parent # 0 \/ j = c.token
  <2>. SUFFICES ASSUME NEW j \in Issued, hit(j)
                PROVE  /\ sessions[j].browser = home
                       /\ j \in Ended \/ home \in slow
                       /\ sessions[j].parent # 0 \/ j = c.token
    OBVIOUS
  <2>1. c.token \in Issued /\ (c.token \in Ended \/ home \in slow)
    BY <1>0, <1>1, <1>3
  <2>2. sessions[j].browser = home /\ (j \in Ended <=> c.token \in Ended)
    BY <1>0, <2>1, LineageFamily DEF Inv, Issued
  <2>. QED BY <2>1, <2>2, LineageApart
<1>. HIDE DEF hit
<1>6. c.token # 0 /\ Usable(c.token) => Unclosed(c.token)
  <2>. SUFFICES ASSUME c.token # 0, Honoured(c.token), c.token \in closed
                PROVE  Lineage(c.token) \intersect raced # {}
    BY DEF Usable, Unclosed, Inv, EndedStaysEnded
  <2>1. PICK j \in Lineage(c.token) : Active(j)
    BY DEF Honoured
  <2>2. j \in Ended
    BY <1>0, <2>1, LineageFamily DEF Inv, Ended
  <2>. QED BY <2>1, <2>2 DEF Inv, EndedStaysEnded, Ended
<1>7. Families' /\ EndedStaysEnded'
  BY <1>0, <1>4 DEF Inv, Families, EndedStaysEnded, Held, Active, Ended
<1>8. Held'
  BY <1>0, <1>2, <1>4 DEF Inv, Held
<1>9. Phases'
  BY <1>0, <1>2, <1>6 DEF Inv, Phases
<1>10. HonestBrowserStaysIn'
  BY <1>0, <1>1, <1>2 DEF Inv, HonestBrowserStaysIn, Ended
<1>11. Replacements'
  <2>1. \A d \in calls' : /\ d.token = c.token \/ d \in calls
                          /\ d.new # 0 => d \in calls
    BY <1>0, <1>2
  <2>. SUFFICES ASSUME NEW d \in calls', d.new # 0
                PROVE  /\ d.new \in Issued
                       /\ sessions[d.new].browser = BrowserOf[d.page]
                       /\ sessions[d.new].rotated = "no"
                       /\ \A b \in Browsers : jar[b] # d.new
                       /\ \A e \in calls' : e.token # d.new /\ (e # d => e.new # d.new)
                       /\ d.at = "inserted" =>
                             /\ sessions[d.new].parent = 0
                             /\ d.new \in Ended <=> d.token \in Ended
                             /\ d.new \in Ended \/ ~sessions'[d.new].revoked
                       /\ d.at = "done" => \/ d.new \in Ended \/ BrowserOf[d.page] \in slow
                                           \/ ~sessions'[d.new].revoked
    BY <1>0, <1>4 DEF Replacements, Ended, Active, Inv
  <2>2. d \in calls
    BY <2>1
  <2>3. d.new \in Issued /\ d.new # c.token
        /\ sessions[d.new].browser = BrowserOf[d.page]
    BY <2>2 DEF Inv, Replacements
  <2>4. \A e \in calls' : e.token # d.new /\ (e # d => e.new # d.new)
    BY <2>1, <2>2 DEF Inv, Replacements
  <2>5. d.at = "inserted" => sessions'[d.new] = sessions[d.new]
    BY <1>4, <1>5, <2>2, <2>3 DEF Inv, Replacements
  <2>6. \/ sessions'[d.new] = sessions[d.new]
        \/ d.new \in Ended \/ BrowserOf[d.page] \in slow
    BY <1>4, <1>5, <2>3
  <2>. QED BY <2>2, <2>3, <2>4, <2>5, <2>6 DEF Inv, Replacements, Active
<1>12. TokensUsable'
  <2>1. ASSUME NEW i \in {0} \union Issued, NEW b \in Browsers, Good(i, b),
               i \in Issued => sessions[i].browser = b
        PROVE  Good(i, b)'
    <3>1. ASSUME i \in Issued, i \notin Ended, b \notin slow, NEW j \in Lineage(i)
          PROVE  sessions'[j] = sessions[j]
      <4>1. j \in Issued /\ sessions[j].browser = b /\ j \notin Ended
        BY <2>1, <3>1, LineageFamily DEF Inv
      <4>. QED BY <1>4, <1>5, <3>1, <4>1
    <3>. QED BY <1>0, <1>4, <2>1, <3>1, GoodKept DEF Ended, Active
  <2>2. \A d \in calls' : d.at = "sent" => d \in calls
    BY <1>2
  <2>. QED BY <1>0, <2>1, <2>2, TokensFrom
<1>. QED BY <1>7, <1>8, <1>9, <1>10, <1>11, <1>12 DEF Kept

\* A replacement is issued to what has not ended, or raced with its end.
LEMMA InsertStep ==
    ASSUME Inv, NEW c \in calls, Insert(c)
    PROVE  Kept'
<1>. DEFINE new == Len(sessions) + 1
            issued == [c EXCEPT !.at = "inserted", !.new = new]
<1>0. /\ c \in Calls /\ c.kind = "refresh" /\ c.at = "checked" /\ c.new = 0 /\ c.alive
      /\ c.token \in Issued /\ sessions[c.token].browser = BrowserOf[c.page]
      /\ UNCHANGED <<jar, slow>>
  BY DEF Insert, Inv, TypeOK, Calls, Phases, Held
<1>1. /\ Len(sessions) \in Nat /\ new \notin Issued /\ new \in Nat /\ new # 0
      /\ Issued' = Issued \union {new}
      /\ \A j \in Issued : sessions'[j] = sessions[j]
      /\ sessions'[new] = [browser |-> BrowserOf[c.page], revoked |-> FALSE,
                           rotated |-> "no", parent |-> 0]
  BY <1>0 DEF Insert, Inv, TypeOK, Issued
<1>2. /\ closed' = closed
      /\ raced' = IF c.token \in Ended THEN raced \union {new} ELSE raced
  <2>1. raced' = IF c.token \in Ended THEN raced \union {new} ELSE raced
    BY <1>0 DEF Insert, Ended
  <2>2. closed' = IF c.token \in closed THEN closed \union ({new} \ raced') ELSE closed
    BY DEF Insert
  <2>. QED BY <2>1, <2>2 DEF Ended
<1>3. /\ \A j \in Issued : j \in Ended' <=> j \in Ended
      /\ new \in Ended' <=> c.token \in Ended
  BY <1>1, <1>2 DEF Ended, Inv, Held
<1>4. /\ issued.kind = "refresh" /\ issued.at = "inserted" /\ issued.new = new
      /\ issued.token = c.token /\ issued.page = c.page
  BY <1>0 DEF Calls
<1>5. calls' = (calls \ {c}) \union {issued}
  BY DEF Insert, Replace
<1>. HIDE DEF new, issued
<1>6. Families'
  BY <1>1, <1>3 DEF Inv, Families
<1>7. Held'
  BY <1>0, <1>1, <1>2, <1>4, <1>5 DEF Inv, Held
<1>8. Phases'
  BY <1>0, <1>1, <1>4, <1>5 DEF Inv, Phases
<1>9. EndedStaysEnded'
  BY <1>1, <1>2 DEF Inv, EndedStaysEnded, Held, Active
<1>10. HonestBrowserStaysIn'
  BY <1>0, <1>2, <1>4, <1>5 DEF Inv, HonestBrowserStaysIn
<1>11. Replacements'
  <2>1. \A d \in calls : d.token # new /\ d.new # new
    BY <1>1 DEF Inv, Held, Replacements
  <2>2. \A b \in Browsers : jar[b] # new
    BY <1>1 DEF Inv, Held
  <2>3. ASSUME NEW d \in calls, d # c, d.new # 0
        PROVE  /\ d.new \in Issued /\ sessions'[d.new] = sessions[d.new]
               /\ d.new \in Ended' <=> d.new \in Ended
               /\ d.token # 0 => (d.token \in Ended' <=> d.token \in Ended)
    BY <1>1, <1>3, <2>3 DEF Inv, Replacements, Held
  <2>4. \A d \in calls : d # c /\ d.new # 0 => d.token # 0 \/ d.at # "inserted"
    BY DEF Inv, Phases
  <2>5. \A d \in calls : d # c /\ d.new # 0 =>
           /\ d.new \in Issued'
           /\ sessions'[d.new].browser = BrowserOf[d.page]
           /\ sessions'[d.new].rotated = "no"
           /\ d.at = "inserted" =>
                 /\ sessions'[d.new].parent = 0
                 /\ d.new \in Ended' <=> d.token \in Ended'
                 /\ d.new \in Ended' \/ ~sessions'[d.new].revoked
           /\ d.at = "done" => \/ d.new \in Ended' \/ BrowserOf[d.page] \in slow
                               \/ ~sessions'[d.new].revoked
    BY <1>1, <2>3, <2>4 DEF Inv, Replacements, Active
  <2>6. \A d \in calls : d # c /\ d.new # 0 =>
           /\ \A b \in Browsers : jar[b] # d.new
           /\ \A e \in calls' : e.token # d.new /\ (e # d => e.new # d.new)
    BY <1>4, <1>5, <2>1 DEF Inv, Replacements
  <2>7. /\ new \in Issued' /\ sessions'[new].browser = BrowserOf[c.page]
        /\ sessions'[new].rotated = "no" /\ sessions'[new].parent = 0
        /\ ~sessions'[new].revoked /\ (new \in Ended' <=> c.token \in Ended')
    BY <1>0, <1>1, <1>3
  <2>8. \A e \in calls' : e.token # new /\ (e # issued => e.new # new)
    BY <1>0, <1>1, <1>4, <1>5, <2>1
  <2>9. ASSUME NEW d \in calls', d.new # 0
        PROVE  \/ d \in calls /\ d # c
               \/ d = issued
    BY <1>5
  <2>. QED BY <1>0, <1>4, <2>2, <2>5, <2>6, <2>7, <2>8, <2>9 DEF Replacements, Active
<1>12. TokensUsable'
  <2>1. ASSUME NEW i \in {0} \union Issued, NEW b \in Browsers, Good(i, b)
        PROVE  Good(i, b)'
    <3>1. \A j \in Lineage(i) : j \in Issued
      BY DEF Lineage
    <3>. QED BY <1>0, <1>1, <1>2, <2>1, <3>1, GoodKept DEF Ended, Active
  <2>2. \A d \in calls' : d.at = "sent" => d \in calls
    BY <1>4, <1>5
  <2>. QED BY <1>0, <2>1, <2>2, TokensFrom
<1>. QED BY <1>6, <1>7, <1>8, <1>9, <1>10, <1>11, <1>12 DEF Kept

\* A token that is rotated away stays usable through its replacement, and so does
\* every token it descends from.
LEMMA LinkStep ==
    ASSUME Inv, NEW c \in calls, Link(c)
    PROVE  Kept'
<1>. DEFINE old == c.token  new == c.new
<1>0. /\ c \in Calls /\ c.kind = "refresh" /\ c.at = "inserted"
      /\ old \in Issued /\ new \in Issued /\ old # new /\ old # 0 /\ new # 0
      /\ sessions[old].browser = BrowserOf[c.page] /\ sessions[new].browser = BrowserOf[c.page]
      /\ sessions[new].rotated = "no" /\ sessions[new].parent = 0
      /\ new \in Ended <=> old \in Ended
      /\ new \in Ended \/ ~sessions[new].revoked
      /\ UNCHANGED <<jar, closed, raced, slow>>
  BY LinkFacts DEF Link, Inv, TypeOK, Calls, Phases, Held, Replacements, Active, Issued
<1>1. /\ Issued' = Issued
      /\ \A j \in Issued \ {old, new} : sessions'[j] = sessions[j]
      /\ sessions'[new].browser = sessions[new].browser
      /\ sessions'[new].revoked = sessions[new].revoked
      /\ sessions'[new].rotated = sessions[new].rotated
      /\ sessions'[new].parent = old
      /\ sessions'[old].browser = sessions[old].browser
      /\ sessions'[old].parent = sessions[old].parent
      /\ sessions'[old].revoked = TRUE /\ sessions'[old].rotated = "fresh"
  <2>1. sessions[old] \in Sessions /\ sessions[new] \in Sessions
    BY <1>0 DEF Inv, TypeOK, Issued
  <2>2. Issued' = Issued
    BY LinkFacts DEF Issued
  <2>3. /\ sessions'[new] = [sessions[new] EXCEPT !.parent = old]
        /\ sessions'[old] = [sessions[old] EXCEPT !.revoked = TRUE, !.rotated = "fresh"]
        /\ \A j \in Issued \ {old, new} : sessions'[j] = sessions[j]
    BY LinkFacts
  <2>. HIDE DEF old, new
  <2>4. /\ sessions'[new].browser = sessions[new].browser
        /\ sessions'[new].revoked = sessions[new].revoked
        /\ sessions'[new].rotated = sessions[new].rotated
        /\ sessions'[new].parent = old
    BY <2>1, <2>3 DEF Sessions
  <2>5. /\ sessions'[old].browser = sessions[old].browser
        /\ sessions'[old].parent = sessions[old].parent
        /\ sessions'[old].revoked = TRUE /\ sessions'[old].rotated = "fresh"
    BY <2>1, <2>3 DEF Sessions
  <2>. QED BY <2>2, <2>3, <2>4, <2>5
<1>2. \A d \in calls' : \/ d \in calls /\ d # c
                        \/ /\ d.kind = c.kind /\ d.page = c.page /\ d.token = c.token
                           /\ d.new = c.new /\ d.at = "done" /\ d.mine
                           /\ calls' = (calls \ {c}) \union {d}
  BY <1>0 DEF Link, Answer, Calls
<1>. HIDE DEF old, new
<1>3. Families' /\ EndedStaysEnded'
  BY <1>0, <1>1 DEF Inv, Families, EndedStaysEnded, Held, Active, Ended
<1>4. Held'
  BY <1>0, <1>1, <1>2 DEF Inv, Held
<1>5. Phases'
  BY <1>0, <1>2 DEF Inv, Phases
<1>6. HonestBrowserStaysIn'
  BY <1>0, <1>2 DEF Inv, HonestBrowserStaysIn
<1>7. Replacements'
  <2>1. \A d \in calls : d.token # new /\ (d # c => d.new # new)
    BY <1>0 DEF Inv, Replacements, new
  <2>2. ASSUME NEW d \in calls, d # c, d.new # 0
        PROVE  d.new \in Issued /\ sessions'[d.new] = sessions[d.new]
    <3>1. d.new \in Issued /\ d.new # old /\ d.new # new
      BY <2>1, <2>2 DEF Inv, Replacements, old
    <3>. QED BY <1>1, <3>1
  <2>3. \A e \in calls' : \E o \in calls : e.token = o.token /\ e.new = o.new
    BY <1>2
  <2>4. \A d \in calls : d # c /\ d.new # 0 =>
           \A e \in calls' : e.token # d.new /\ (e # d => e.new # d.new)
    BY <1>2, <2>1 DEF Inv, Replacements, new
  <2>5. \A d \in calls : d # c /\ d.new # 0 =>
           /\ d.new \in Issued
           /\ sessions'[d.new].browser = BrowserOf[d.page]
           /\ sessions'[d.new].rotated = "no"
           /\ \A b \in Browsers : jar[b] # d.new
           /\ d.at = "inserted" =>
                 /\ sessions'[d.new].parent = 0
                 /\ d.new \in Ended <=> d.token \in Ended
                 /\ d.new \in Ended \/ ~sessions'[d.new].revoked
           /\ d.at = "done" => \/ d.new \in Ended \/ BrowserOf[d.page] \in slow
                               \/ ~sessions'[d.new].revoked
    BY <2>2 DEF Inv, Replacements, Active
  <2>6. ASSUME NEW d \in calls', d.new = new, d.at = "done", calls' = (calls \ {c}) \union {d}
        PROVE  \A e \in calls' : e.token # d.new /\ (e # d => e.new # d.new)
    BY <2>1, <2>3, <2>6
  <2>7. \A b \in Browsers : jar[b] # new
    BY <1>0 DEF Inv, Replacements, new
  <2>. SUFFICES ASSUME NEW d \in calls', d.new # 0
                PROVE  /\ d.new \in Issued
                       /\ sessions'[d.new].browser = BrowserOf[d.page]
                       /\ sessions'[d.new].rotated = "no"
                       /\ \A b \in Browsers : jar[b] # d.new
                       /\ \A e \in calls' : e.token # d.new /\ (e # d => e.new # d.new)
                       /\ d.at = "inserted" =>
                             /\ sessions'[d.new].parent = 0
                             /\ d.new \in Ended <=> d.token \in Ended
                             /\ d.new \in Ended \/ ~sessions'[d.new].revoked
                       /\ d.at = "done" => \/ d.new \in Ended \/ BrowserOf[d.page] \in slow
                                           \/ ~sessions'[d.new].revoked
    BY <1>0, <1>1 DEF Replacements, Ended, Active
  <2>8. CASE d \in calls /\ d # c
    BY <2>4, <2>5, <2>8
  <2>9. CASE /\ d.page = c.page /\ d.new = c.new /\ d.at = "done"
             /\ calls' = (calls \ {c}) \union {d}
    BY <1>0, <1>1, <2>6, <2>7, <2>9 DEF new
  <2>. QED BY <1>2, <2>8, <2>9
<1>8. TokensUsable'
  <2>1. ASSUME NEW i \in {0} \union Issued, NEW b \in Browsers, Good(i, b)
        PROVE  Good(i, b)'
    <3>1. CASE i = 0 \/ i \in Ended \/ b \in slow
      BY <1>0, <3>1 DEF Good, Ended
    <3>2. CASE i \in Issued /\ i \notin Ended /\ Usable(i)
      <4>1. \A j \in Lineage(i) : j \in Issued /\ j \notin Ended /\ j \in Lineage(i)'
        BY <1>0, <1>1, <3>2, LineageFamily, LineageGrows DEF Inv
      <4>2. old \in Lineage(i) => new \in Lineage(i)' /\ ~sessions'[new].revoked
        BY <1>0, <1>1, <4>1, LineageStepNext
      <4>3. i \in Lineage(i)
        BY <3>2, LineageSelf
      <4>4. ASSUME i = old PROVE Usable(i)'
        BY <1>0, <1>1, <4>2, <4>3, <4>4 DEF Usable, Honoured, Active
      <4>5. ASSUME i # old, Active(i) PROVE Usable(i)'
        BY <1>0, <1>1, <3>2, <4>5 DEF Usable, Active
      <4>6. ASSUME i # old, Honoured(i) PROVE Usable(i)'
        <5>1. i # new /\ sessions'[i].rotated = "fresh"
          BY <1>0, <1>1, <3>2, <4>6 DEF Honoured
        <5>2. PICK j \in Lineage(i) \ {i} : ~sessions[j].revoked
          BY <4>6 DEF Honoured, Active
        <5>3. \E k \in Lineage(i)' \ {i} : ~sessions'[k].revoked
          <6>1. CASE j = old
            BY <4>2, <5>1, <5>2, <6>1
          <6>2. CASE j # old
            BY <1>1, <4>1, <5>2, <6>2
          <6>. QED BY <6>1, <6>2
        <5>. QED BY <5>1, <5>3 DEF Usable, Honoured, Active
      <4>7. Usable(i)'
        BY <3>2, <4>4, <4>5, <4>6 DEF Usable
      <4>. QED BY <4>7 DEF Good
    <3>. QED BY <2>1, <3>1, <3>2 DEF Good
  <2>2. \A d \in calls' : d.at = "sent" => d \in calls
    BY <1>2
  <2>. QED BY <1>0, <2>1, <2>2, TokensFrom
<1>. QED BY <1>3, <1>4, <1>5, <1>6, <1>7, <1>8 DEF Kept

\* A logout ends what the browser has, all of it, and nothing else.
LEMMA RevokeStep ==
    ASSUME Inv, NEW c \in calls, Revoke(c)
    PROVE  Kept'
<1>. DEFINE home == sessions[c.token].browser
            gone(j) == c.token # 0 /\ sessions[j].browser = home
<1>0. /\ c \in Calls /\ c.kind = "logout" /\ c.at = "sent" /\ c.new = 0
      /\ c.token \in {0} \union Issued
      /\ UNCHANGED <<jar, raced, slow>> /\ sessions \in Seq(Sessions)
  BY DEF Revoke, Inv, TypeOK, Calls, Phases, Held
<1>1. \A j \in Issued : c.token # 0 => (j \in Lineage(c.token) => sessions[j].browser = home)
  BY <1>0, LineageFamily DEF Inv
<1>2. /\ Issued' = Issued
      /\ \A j \in Issued : /\ sessions'[j].browser = sessions[j].browser
                           /\ sessions'[j].parent = sessions[j].parent
                           /\ sessions'[j].rotated = sessions[j].rotated
                           /\ gone(j) => sessions'[j].revoked = TRUE
                           /\ ~gone(j) => sessions'[j] = sessions[j]
      /\ closed' = closed \union {j \in Issued : gone(j)}
  <2>1. CASE c.token = 0
    BY <2>1 DEF Revoke, Issued
  <2>2. CASE c.token # 0
    <3>. DEFINE set == Lineage(c.token) \union {j \in Issued : sessions[j].browser = home}
    <3>1. sessions' = Revoked(set) /\ closed' = closed \union {j \in Issued : sessions[j].browser = home}
      BY <2>2 DEF Revoke
    <3>2. \A j \in Issued : j \in set <=> gone(j)
      BY <1>1, <2>2
    <3>. HIDE DEF set
    <3>3. /\ Len(sessions') = Len(sessions)
          /\ \A j \in Issued :
                /\ sessions'[j].browser = sessions[j].browser
                /\ sessions'[j].parent = sessions[j].parent
                /\ sessions'[j].rotated = sessions[j].rotated
                /\ j \in set => sessions'[j].revoked = TRUE
                /\ j \notin set => sessions'[j] = sessions[j]
      BY <1>0, <3>1, RevokedFacts
    <3>4. Issued' = Issued
      BY <3>3 DEF Issued
    <3>. QED BY <2>2, <3>1, <3>2, <3>3, <3>4
  <2>. QED BY <2>1, <2>2
<1>3. \A d \in calls' : \/ d \in calls
                        \/ /\ d.kind = "logout" /\ d.token = c.token /\ d.page = c.page
                           /\ d.new = 0 /\ d.at = "done" /\ d.mine
  <2>1. Answer(c, "done")
    BY DEF Revoke
  <2>. QED BY <1>0, <2>1 DEF Answer, Calls
<1>4. \A j, k \in Issued : sessions[j].browser = sessions[k].browser => (gone(j) <=> gone(k))
  OBVIOUS
<1>. HIDE DEF gone
<1>5. \A j \in Issued : j \in Ended' <=> j \in Ended \/ gone(j)
  BY <1>0, <1>2 DEF Ended
<1>6. Families' /\ EndedStaysEnded'
  BY <1>2, <1>4, <1>5 DEF Inv, Families, EndedStaysEnded, Held, Active
<1>7. Held'
  BY <1>0, <1>2, <1>3 DEF Inv, Held
<1>8. Phases' /\ HonestBrowserStaysIn'
  BY <1>0, <1>2, <1>3 DEF Inv, Phases, HonestBrowserStaysIn
<1>9. Replacements'
  <2>1. \A d \in calls' : /\ d.token = c.token \/ d \in calls
                          /\ d.new # 0 => d \in calls
    BY <1>0, <1>3
  <2>. SUFFICES ASSUME NEW d \in calls', d.new # 0
                PROVE  /\ d.new \in Issued
                       /\ sessions'[d.new].browser = BrowserOf[d.page]
                       /\ sessions'[d.new].rotated = "no"
                       /\ \A b \in Browsers : jar[b] # d.new
                       /\ \A e \in calls' : e.token # d.new /\ (e # d => e.new # d.new)
                       /\ d.at = "inserted" =>
                             /\ sessions'[d.new].parent = 0
                             /\ d.new \in Ended' <=> d.token \in Ended'
                             /\ d.new \in Ended' \/ ~sessions'[d.new].revoked
                       /\ d.at = "done" => \/ d.new \in Ended' \/ BrowserOf[d.page] \in slow
                                           \/ ~sessions'[d.new].revoked
    BY <1>0, <1>2 DEF Replacements, Active
  <2>2. d \in calls
    BY <2>1
  <2>3. /\ d.new \in Issued /\ sessions[d.new].browser = BrowserOf[d.page]
        /\ d.at = "inserted" => /\ d.token \in Issued
                                /\ sessions[d.token].browser = BrowserOf[d.page]
    BY <2>2 DEF Inv, Replacements, Held, Phases
  <2>4. \A e \in calls' : e.token # d.new /\ (e # d => e.new # d.new)
    BY <2>1, <2>2 DEF Inv, Replacements
  <2>5. d.at = "inserted" => (d.new \in Ended' <=> d.token \in Ended')
    BY <1>4, <1>5, <2>2, <2>3 DEF Inv, Replacements
  <2>6. gone(d.new) => d.new \in Ended'
    BY <1>5, <2>3
  <2>. QED BY <1>2, <1>5, <2>2, <2>3, <2>4, <2>5, <2>6 DEF Inv, Replacements, Active
<1>10. TokensUsable'
  <2>1. ASSUME NEW i \in {0} \union Issued, NEW b \in Browsers, Good(i, b)
        PROVE  Good(i, b)'
    <3>1. ASSUME i \in Issued, i \notin Ended', NEW j \in Lineage(i)
          PROVE  j \in Issued /\ sessions'[j] = sessions[j]
      <4>1. j \in Issued /\ sessions[j].browser = sessions[i].browser
        BY <3>1, LineageFamily DEF Inv
      <4>. QED BY <1>2, <1>4, <1>5, <3>1, <4>1
    <3>2. Ended \subseteq Ended'
      BY <1>0, <1>2 DEF Ended
    <3>. QED BY <1>0, <1>2, <2>1, <3>1, <3>2, GoodKept DEF Active
  <2>2. \A d \in calls' : d.at = "sent" => d \in calls
    BY <1>3
  <2>. QED BY <1>0, <2>1, <2>2, TokensFrom
<1>. QED BY <1>6, <1>7, <1>8, <1>9, <1>10 DEF Kept

\* A login ends every session there is.
LEMMA LoginStep ==
    ASSUME Inv, NEW p \in Pages, Login(p)
    PROVE  Kept'
<1>. DEFINE home == BrowserOf[p]
            new  == Len(sessions) + 1
<1>0. /\ home \in Browsers /\ jar \in [Browsers -> {0} \union Ids]
      /\ UNCHANGED <<calls, raced>> /\ closed' = Issued
  BY AuthAssumption DEF Login, Inv, TypeOK
<1>1. /\ new \notin Issued /\ new # 0 /\ Issued' = Issued \union {new}
      /\ \A j \in Issued : /\ sessions'[j].browser = sessions[j].browser
                           /\ sessions'[j].parent = sessions[j].parent
                           /\ sessions'[j].rotated = sessions[j].rotated
                           /\ sessions'[j].revoked = TRUE
      /\ sessions'[new] = [browser |-> home, revoked |-> FALSE, rotated |-> "no", parent |-> 0]
  <2>. DEFINE row == [browser |-> home, revoked |-> FALSE, rotated |-> "no", parent |-> 0]
  <2>1. sessions \in Seq(Sessions) /\ row \in Sessions
    BY <1>0 DEF Inv, TypeOK, Sessions
  <2>2. sessions' = Append(Revoked(Issued), row)
    BY DEF Login
  <2>3. /\ Revoked(Issued) \in Seq(Sessions) /\ Len(Revoked(Issued)) = Len(sessions)
        /\ \A j \in Issued : /\ Revoked(Issued)[j].browser = sessions[j].browser
                             /\ Revoked(Issued)[j].parent = sessions[j].parent
                             /\ Revoked(Issued)[j].rotated = sessions[j].rotated
                             /\ Revoked(Issued)[j].revoked = TRUE
    BY <2>1, RevokedFacts
  <2>. HIDE DEF row
  <2>4. /\ Len(sessions') = new
        /\ \A j \in Issued : sessions'[j] = Revoked(Issued)[j]
        /\ sessions'[new] = row
    BY <2>1, <2>2, <2>3, AppendFacts DEF Issued
  <2>5. Issued' = Issued \union {new} /\ new \notin Issued /\ new # 0
    BY <2>1, <2>4 DEF Issued
  <2>. QED BY <2>3, <2>4, <2>5 DEF row
<1>. HIDE DEF new
<1>2. \A b \in Browsers : jar'[b] = IF b = home THEN new ELSE jar[b]
  BY <1>0 DEF Login, new
<1>3. /\ \A j \in Issued : j \in Ended'
      /\ \A j \in Ended' : j \in Issued
  BY <1>0 DEF Ended, Inv, Held
<1>4. Families' /\ EndedStaysEnded'
  BY <1>0, <1>1, <1>3 DEF Inv, Families, EndedStaysEnded, Active
<1>5. Held'
  BY <1>0, <1>1, <1>2 DEF Inv, Held
<1>6. Phases'
  BY <1>0 DEF Inv, Phases
<1>7. HonestBrowserStaysIn'
  BY <1>0 DEF Inv, HonestBrowserStaysIn, Held
<1>8. Replacements'
  <2>1. \A d \in calls : d.token # 0 => d.token \in Issued /\ d.token \in Ended'
    BY <1>3 DEF Inv, Held
  <2>. QED BY <1>0, <1>1, <1>2, <1>3, <2>1 DEF Inv, Replacements, Phases
<1>9. TokensUsable'
  <2>1. ASSUME NEW b \in Browsers PROVE Good(jar[b], b)'
    <3>1. CASE b = home
      BY <1>1, <1>2, <3>1 DEF Good, Usable, Active
    <3>2. CASE b # home
      <4>1. jar'[b] = 0 \/ jar'[b] \in Ended'
        BY <1>2, <1>3, <3>2 DEF Inv, Held
      <4>. QED BY <4>1 DEF Good
    <3>. QED BY <3>1, <3>2
  <2>2. ASSUME NEW d \in calls PROVE Good(d.token, BrowserOf[d.page])'
    BY <1>3 DEF Good, Inv, Held
  <2>3. \A b \in Browsers : Good(jar[b], b)'
    BY <2>1
  <2>. QED BY <1>0, <2>2, <2>3 DEF TokensUsable
<1>. QED BY <1>4, <1>5, <1>6, <1>7, <1>8, <1>9 DEF Kept

-----------------------------------------------------------------------------
(* The theorems.                                                           *)

\* Initially nobody is signed in.
LEMMA Initially == Init => Inv
BY AuthAssumption DEF Init, Inv, TypeOK, Issued, Views, Families, Held, Phases, Replacements,
       EndedStaysEnded, TokensUsable, Good, HonestBrowserStaysIn

\* Every step keeps the invariant.
LEMMA Steps == Inv /\ [Next]_vars => Inv'
<1>. SUFFICES ASSUME Inv, [Next]_vars PROVE Inv'
  OBVIOUS
<1>1. TypeOK'
  BY TypeSteps
<1>2. Kept'
  BY PageSteps, CookieSteps, CheckStep, InsertStep, LinkStep, RevokeStep, LoginStep, GraceStep
     DEF Next, Serve
<1>. QED BY <1>1, <1>2 DEF Inv, Kept

\* The invariant holds of every reachable state.
THEOREM AuthInvariant == Spec => []Inv
BY Initially, Steps, PTL DEF Spec

\* For any browsers, pages and faults, sessions, cookies, pages and calls are what
\* the server and the pages write.
THEOREM AuthTypeCorrect == Spec => []TypeOK
<1>1. Inv => TypeOK
  BY DEF Inv
<1>. QED BY <1>1, AuthInvariant, PTL

\* Whatever refreshes, logouts and logins overlap, a session that was ended is not
\* active again, nor is one that its token gives, but for a refresh that raced.
THEOREM EndedSessionsStayEnded == Spec => []EndedStaysEnded
<1>1. Inv => EndedStaysEnded
  BY DEF Inv
<1>. QED BY <1>1, AuthInvariant, PTL

\* However many pages refresh with one cookie, reload and lose answers, no refresh
\* of a browser is refused within the grace of the token it holds.
THEOREM BrowsersStaySignedIn == Spec => []HonestBrowserStaysIn
<1>1. Inv => HonestBrowserStaysIn
  BY DEF Inv
<1>. QED BY <1>1, AuthInvariant, PTL
=============================================================================
