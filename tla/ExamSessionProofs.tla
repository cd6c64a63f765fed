------------------------- MODULE ExamSessionProofs -------------------------
(***************************************************************************)
(* Proofs about ExamSession: its types, that no answer is lost in silence, *)
(* and that no older answer replaces a newer one, whatever the number of   *)
(* questions, edits, recordings, part requests and reloads.                *)
(*                                                                         *)
(* Nothing is claimed of a question in crossed.  For the others the page   *)
(* is ahead of the server: whatever is stored, waiting or on its way is no *)
(* newer than what the page shows, and no save of an earlier page is left. *)
(* Below that lie the pairing of written answers with their revisions and  *)
(* the rule that a recording is uploaded alone.                            *)
(***************************************************************************)
EXTENDS ExamSession, TLAPS

\* The revision of a written question and its answer are counted together.
Paired ==
    \A q \in Written :
        /\ stored[q].text = stored[q].rev
        /\ page = "open" => text[q] = rev[q]
        /\ \A e \in pending : e.q = q => e.text = e.rev
        /\ \A r \in requests : r.q = q => r.text = r.rev
        /\ \A f \in fetches : f.rows[q].text = f.rows[q].rev

\* What HandlerLoads lets through is newer than the row it has loaded.
NewerThanItsRow ==
    \A r \in requests : r.at = "loaded" /\ r.q \in Written => r.base < r.rev

\* A request without a page has not been decided on: nobody is told of it.
GhostsAreUnderWay ==
    \A r \in requests : ~r.mine => r.at \in {"sent", "loaded"}

\* A page that loads has nothing of its own on its way.
FreshPage ==
    page = "loading" =>
        /\ pending = {} /\ saving = {} /\ recording = {} /\ leaving = NotLeaving
        /\ \A r \in requests : ~r.mine

\* One recording at a time, none while an upload of it is under way, and none
\* on the way out.
OneRecording ==
    /\ \A p, q \in recording : p = q
    /\ recording \intersect saving = {}
    /\ leaving.pc \in {"wait", "sent", "done"} => recording = {}
    /\ view = "main" => recording = {}

\* A page uploads one recording of a question at a time, and shows it.
OneUpload ==
    \A r \in requests : r.mine /\ r.q \in Spoken =>
        /\ r.q \in saving
        /\ \A s \in requests : s.mine /\ s.q = r.q => s = r

\* For answers that did not cross, the page is ahead of the server.
PageAhead ==
    page # "loading" =>
        \A q \in Questions \ crossed :
            /\ stored[q].text <= text[q]
            /\ \A e \in pending : e.q = q => e.text <= text[q]
            /\ \A r \in requests : r.q = q => r.mine /\ r.text <= text[q]

\* A part that is not loaded has not been edited.
UntouchedPart ==
    page = "open" /\ ~loaded =>
        \A q \in Written \ crossed :
            /\ stored[q].text = text[q]
            /\ \A e \in pending : e.q # q
            /\ \A r \in requests : r.q # q

\* An upload that has not been decided on is the only one and no older than
\* what is stored.
UploadAhead ==
    \A r \in requests : r.q \in Spoken \ crossed =>
        /\ \A s \in requests : s.q = r.q => s = r
        /\ r.at \in {"sent", "loaded"} => stored[r.q].text <= r.text

\* What the page takes for saved is stored, or something newer is.
SavedIsStored ==
    \A r \in requests : r.at = "saved" /\ r.q \notin crossed => r.text <= stored[r.q].text

Kept ==
    /\ Paired /\ NewerThanItsRow /\ GhostsAreUnderWay /\ FreshPage /\ OneRecording /\ OneUpload
    /\ PageAhead /\ UntouchedPart /\ UploadAhead /\ SavedIsStored /\ NothingLostSilently

IInv == TypeOK /\ Kept

-----------------------------------------------------------------------------
(* Types.                                                                  *)

\* What persist adds is a request.
LEMMA RequestTypes ==
    ASSUME NEW q \in Questions, NEW t \in Nat, NEW v \in Nat, NEW awaited \in BOOLEAN
    PROVE  /\ Request(q, t, v, awaited) \in Requests
           /\ Request(q, t, v, awaited).q = q
           /\ Request(q, t, v, awaited).text = t
           /\ Request(q, t, v, awaited).rev = v
           /\ Request(q, t, v, awaited).base = 0
           /\ Request(q, t, v, awaited).at = "sent"
           /\ Request(q, t, v, awaited).mine = TRUE
BY DEF Request, Requests

\* The requests that persist adds for a set of edits are the page's own.
LEMMA PersistTypes ==
    ASSUME TypeOK, NEW edits, edits \subseteq [q : Questions, text : Nat, rev : Nat],
           NEW awaited \in BOOLEAN, Persist(edits, awaited)
    PROVE  requests' \subseteq Requests /\ saving' \subseteq Questions
<1>1. \A e \in edits : Request(e.q, e.text, e.rev, awaited) \in Requests
  BY RequestTypes
<1>. QED BY <1>1 DEF Persist, TypeOK

\* Wherever a handler leaves a request, it is the same request.
LEMMA MovedRequests ==
    ASSUME TypeOK, NEW r \in requests, NEW place \in {"sent", "loaded", "saved", "older", "closed", "failed"},
           NEW base \in Nat
    PROVE  /\ [r EXCEPT !.at = place] \in Requests
           /\ [r EXCEPT !.at = place, !.base = base] \in Requests
           /\ [r EXCEPT !.mine = FALSE] \in Requests
           /\ Become(r, place) \subseteq Requests
BY DEF TypeOK, Requests, Become

\* Every step keeps the types.
LEMMA TypeSteps == TypeOK /\ [Next]_vars => TypeOK'
<1>. SUFFICES ASSUME TypeOK, [Next]_vars PROVE TypeOK'
  OBVIOUS
<1>1. ASSUME NEW q \in Written, NEW debounce \in BOOLEAN, Edit(q, debounce) PROVE TypeOK'
  <2>1. [q |-> q, text |-> text[q] + 1, rev |-> rev[q] + 1]
            \in [q : Written, text : Nat, rev : Nat]
    BY <1>1 DEF TypeOK, Questions
  <2>2. requests' \subseteq Requests /\ saving' \subseteq Questions
    BY <1>1, <2>1, PersistTypes DEF Edit, TypeOK, Questions
  <2>3. pending' \subseteq [q : Written, text : Nat, rev : Nat]
    BY <1>1, <2>1 DEF Edit, TypeOK
  <2>. QED BY <1>1, <2>2, <2>3 DEF Edit, TypeOK, server, Questions
<1>2. ASSUME NEW e \in pending, DebounceFires(e) PROVE TypeOK'
  <2>1. requests' \subseteq Requests /\ saving' \subseteq Questions
    BY <1>2, PersistTypes DEF DebounceFires, TypeOK, Questions
  <2>. QED BY <1>2, <2>1 DEF DebounceFires, TypeOK, server
<1>3. ASSUME NEW r \in requests, HandlerLoads(r) PROVE TypeOK'
  <2>1. stored[r.q].rev \in Nat
    BY DEF TypeOK, Requests, Answers
  <2>2. requests' \subseteq Requests
    BY <1>3, <2>1, MovedRequests DEF HandlerLoads, TypeOK
  <2>. QED BY <1>3, <2>2 DEF HandlerLoads, TypeOK, server, client
<1>4. ASSUME NEW r \in requests, HandlerCommits(r) PROVE TypeOK'
  <2>1. requests' \subseteq Requests
    BY <1>4, MovedRequests DEF HandlerCommits
  <2>2. [text |-> r.text, rev |-> IF r.q \in Written THEN r.rev ELSE r.base + 1] \in Answers
    BY DEF TypeOK, Requests, Answers
  <2>3. stored' \in [Questions -> Answers] /\ crossed' \subseteq Questions
    BY <1>4, <2>2 DEF HandlerCommits, TypeOK, Requests
  <2>. QED BY <1>4, <2>1, <2>3 DEF HandlerCommits, TypeOK, client
<1>5. ASSUME NEW r \in requests, Lose(r) \/ Hear(r) PROVE TypeOK'
  BY <1>5 DEF Lose, Hear, TypeOK, Requests, server
<1>6. ASSUME NEW q \in Spoken, StartRecording(q) PROVE TypeOK'
  BY <1>6 DEF StartRecording, TypeOK, server
<1>7. ASSUME NEW q \in Spoken, RecorderStops(q) PROVE TypeOK'
  <2>0. {[q |-> q, text |-> text[q] + 1, rev |-> 0]} \subseteq [q : Questions, text : Nat, rev : Nat]
    BY DEF TypeOK, Questions
  <2>1. requests' \subseteq Requests /\ saving' \subseteq Questions
    BY <1>7, <2>0, PersistTypes DEF RecorderStops
  <2>2. leaving' \in [kind : {"none", "submit", "seal", "defer"},
                      pc : {"none", "flush", "stopping", "wait", "sent", "done"}]
    BY <1>7 DEF RecorderStops, Signal, FirstLook, TypeOK
  <2>. QED BY <1>7, <2>1, <2>2 DEF RecorderStops, TypeOK, server, Questions
<1>8. ASSUME NEW q \in Spoken, RecorderFails(q) PROVE TypeOK'
  BY <1>8 DEF RecorderFails, Signal, FirstLook, TypeOK, server, Questions
<1>9. ASSUME BeginSubmit PROVE TypeOK'
  <2>1. requests' \subseteq Requests /\ saving' \subseteq Questions
    BY <1>9, PersistTypes DEF BeginSubmit, TypeOK, Questions
  <2>. QED BY <1>9, <2>1 DEF BeginSubmit, TypeOK, server
<1>10. ASSUME NEW kind \in {"seal", "defer"}, BeginSeal(kind) PROVE TypeOK'
  <2>1. requests' \subseteq Requests /\ saving' \subseteq Questions
    BY <1>10, PersistTypes DEF BeginSeal, TypeOK, Questions
  <2>. QED BY <1>10, <2>1 DEF BeginSeal, FirstLook, TypeOK, server
<1>11. ASSUME FlushSettles \/ (\E gaveUp \in BOOLEAN : Post(gaveUp)) \/ ServerSubmits \/ ServerSeals
              \/ LeavingFails \/ LeavingSucceeds
       PROVE  TypeOK'
  <2>1. leaving' \in [kind : {"none", "submit", "seal", "defer"},
                      pc : {"none", "flush", "stopping", "wait", "sent", "done"}]
    BY <1>11 DEF FlushSettles, Post, ServerSubmits, ServerSeals, LeavingFails, LeavingSucceeds,
         NotLeaving, TypeOK
  <2>2. /\ status' \in {"in_progress", "submitted", "expired"}
        /\ phase' \in {"main", "speaking", "pending"} /\ overdue' \in BOOLEAN
        /\ page' \in {"loading", "open", "left"} /\ view' \in {"main", "speaking"}
        /\ UNCHANGED <<stored, final, loaded, text, rev, pending, saving, recording, requests,
                       fetches, reloads, told, crossed>>
    BY <1>11 DEF FlushSettles, Post, ServerSubmits, ServerSeals, LeavingFails, LeavingSucceeds,
       TypeOK, server
  <2>. QED BY <2>1, <2>2 DEF TypeOK
<1>12. ASSUME Load \/ LoadFindsOver PROVE TypeOK'
  <2>1. Ghosts \subseteq Questions
    BY DEF Ghosts, TypeOK, Requests
  <2>. QED BY <1>12, <2>1 DEF Load, LoadFindsOver, TypeOK, Answers, server
<1>13. ASSUME SelectPart PROVE TypeOK'
  BY <1>13 DEF SelectPart, TypeOK, server, client
<1>14. ASSUME NEW f \in fetches, PartArrives(f) PROVE TypeOK'
  BY <1>14 DEF PartArrives, TypeOK, Answers, Questions, server
<1>15. ASSUME Reload PROVE TypeOK'
  <2>1. requests' \subseteq Requests
    BY <1>15, MovedRequests DEF Reload
  <2>2. leaving' \in [kind : {"none", "submit", "seal", "defer"},
                      pc : {"none", "flush", "stopping", "wait", "sent", "done"}]
    BY <1>15 DEF Reload, NotLeaving
  <2>3. reloads' \in 0..MaxReloads
    BY <1>15, ExamAssumption DEF Reload, TypeOK
  <2>. QED BY <1>15, <2>1, <2>2, <2>3 DEF Reload, TypeOK, server
<1>16. ASSUME ResumeSpeaking \/ TimeUp \/ Sweep \/ UNCHANGED vars PROVE TypeOK'
  BY <1>16 DEF ResumeSpeaking, TimeUp, Sweep, vars, client, TypeOK
<1>. QED
  BY <1>1, <1>2, <1>3, <1>4, <1>5, <1>6, <1>7, <1>8, <1>9, <1>10, <1>11, <1>12, <1>13, <1>14,
     <1>15, <1>16 DEF Next, Student, Page, Server

-----------------------------------------------------------------------------
(* The handlers.                                                           *)

\* x is the request r at another place on its way.
Moved(x, r) == x.q = r.q /\ x.text = r.text /\ x.rev = r.rev /\ x.mine = r.mine

\* A handler takes one request on, or drops it when its page is gone.
OnlyMoves(r) ==
    /\ \A x \in requests' : (x \in requests /\ x # r) \/ Moved(x, r)
    /\ \A x, y \in requests' : Moved(x, r) /\ Moved(y, r) =>
          x = y \/ (x \in requests /\ x # r) \/ (y \in requests /\ y # r)

\* What depends on the requests alone, and not on how far they have come.
LEMMA MovesStep ==
    ASSUME IInv, NEW r \in requests, OnlyMoves(r), requests' \subseteq Requests,
           UNCHANGED <<page, view, leaving, pending, saving, recording, fetches>>
    PROVE  FreshPage' /\ OneRecording' /\ OneUpload'
<1>1. FreshPage'
  BY DEF IInv, Kept, FreshPage, OnlyMoves, Moved
<1>2. OneRecording'
  BY DEF IInv, Kept, OneRecording
<1>3. OneUpload'
  <2>. SUFFICES ASSUME NEW x \in requests', x.mine, x.q \in Spoken
                PROVE  x.q \in saving /\ \A y \in requests' : y.mine /\ y.q = x.q => y = x
    BY DEF OneUpload
  <2>1. x.q \in saving
    BY DEF IInv, Kept, OneUpload, OnlyMoves, Moved
  <2>2. ASSUME NEW y \in requests', y.mine, y.q = x.q PROVE y = x
    <3>1. CASE x \in requests /\ x # r /\ y \in requests /\ y # r
      BY <2>2, <3>1 DEF IInv, Kept, OneUpload
    <3>2. CASE x \in requests /\ x # r /\ Moved(y, r)
      BY <2>2, <3>2 DEF IInv, Kept, OneUpload, Moved
    <3>3. CASE Moved(x, r) /\ y \in requests /\ y # r
      BY <2>2, <3>3 DEF IInv, Kept, OneUpload, Moved
    <3>4. CASE Moved(x, r) /\ Moved(y, r) /\ ~(x \in requests /\ x # r) /\ ~(y \in requests /\ y # r)
      BY <3>4 DEF OnlyMoves
    <3>. QED BY <3>1, <3>2, <3>3, <3>4 DEF OnlyMoves
  <2>. QED BY <2>1, <2>2
<1>. QED BY <1>1, <1>2, <1>3

\* A request that is loaded is newer than its row; a refused one has lost nothing.
LEMMA HandlerLoadsStep ==
    ASSUME IInv, NEW r \in requests, HandlerLoads(r)
    PROVE  Kept'
<1>0. /\ r \in Requests /\ r.q \in Questions /\ stored[r.q].rev \in Nat
      /\ TypeOK'
  BY TypeSteps DEF IInv, TypeOK, Requests, Answers, Next, Server
<1>1. \E place \in {"loaded", "older", "closed"} :
        \/ ~r.mine /\ place # "loaded" /\ requests' = requests \ {r}
        \/ \E n \in Requests :
              /\ requests' = (requests \ {r}) \union {n}
              /\ Moved(n, r) /\ n.at = place /\ (place # "loaded" => r.mine)
              /\ place = "loaded" =>
                    n.base = stored[r.q].rev /\ (r.q \in Written => n.base < r.rev)
              /\ place = "older" => r.q \in Written /\ r.rev <= stored[r.q].rev
  <2>1. ASSUME NEW place \in {"older", "closed"}, requests' = Become(r, place)
        PROVE  \/ ~r.mine /\ requests' = requests \ {r}
               \/ r.mine /\ requests' = (requests \ {r}) \union {[r EXCEPT !.at = place]}
    BY <2>1 DEF Become
  <2>2. ASSUME NEW place \in {"older", "closed"}
        PROVE  LET n == [r EXCEPT !.at = place]
               IN  n \in Requests /\ Moved(n, r) /\ n.at = place
    BY <1>0 DEF Moved, Requests
  <2>3. LET n == [r EXCEPT !.at = "loaded", !.base = stored[r.q].rev]
        IN  n \in Requests /\ Moved(n, r) /\ n.at = "loaded" /\ n.base = stored[r.q].rev
            /\ n.rev = r.rev
    BY <1>0 DEF Moved, Requests
  <2>4. CASE requests' = Become(r, "closed")
    BY <2>1, <2>2, <2>4
  <2>5. CASE requests' = Become(r, "older") /\ r.q \in Written /\ r.rev <= stored[r.q].rev
    BY <2>1, <2>2, <2>5
  <2>6. CASE /\ requests' = (requests \ {r}) \union {[r EXCEPT !.at = "loaded", !.base = stored[r.q].rev]}
             /\ ~(r.q \in Written /\ r.rev <= stored[r.q].rev)
    <3>1. r.q \in Written => stored[r.q].rev < r.rev
      BY <1>0, <2>6 DEF Requests
    <3>. QED BY <2>3, <2>6, <3>1
  <2>. QED BY <2>4, <2>5, <2>6 DEF HandlerLoads
<1>2. OnlyMoves(r)
  BY <1>1 DEF OnlyMoves
<1>3. FreshPage' /\ OneRecording' /\ OneUpload'
  BY <1>0, <1>2, MovesStep DEF HandlerLoads, client, TypeOK
<1>4. Paired'
  BY <1>2 DEF HandlerLoads, client, server, IInv, Kept, Paired, OnlyMoves, Moved
<1>5. NewerThanItsRow' /\ GhostsAreUnderWay'
  BY <1>1 DEF IInv, Kept, NewerThanItsRow, GhostsAreUnderWay, Moved
<1>6. PageAhead' /\ UntouchedPart'
  BY <1>2 DEF HandlerLoads, client, server, IInv, Kept, PageAhead, UntouchedPart, OnlyMoves, Moved
<1>7. UploadAhead'
  <2>. SUFFICES ASSUME NEW x \in requests', x.q \in Spoken \ crossed
                PROVE  /\ \A y \in requests' : y.q = x.q => y = x
                       /\ x.at \in {"sent", "loaded"} => stored[x.q].text <= x.text
    BY DEF HandlerLoads, server, UploadAhead
  <2>1. CASE x \in requests /\ x # r
    BY <1>1, <2>1 DEF IInv, Kept, UploadAhead, Moved
  <2>2. CASE ~(x \in requests /\ x # r)
    BY <1>1, <2>2 DEF HandlerLoads, IInv, Kept, UploadAhead, Moved
  <2>. QED BY <2>1, <2>2
<1>8. SavedIsStored'
  BY <1>1 DEF HandlerLoads, server, IInv, Kept, SavedIsStored
<1>9. NothingLostSilently'
  <2>. SUFFICES ASSUME NEW q \in Questions, Unsaved(q), q \notin told \union crossed,
                       ~(page = "open" /\ q \in recording),
                       ~\E e \in pending : e.q = q /\ e.text = text[q]
                PROVE  \E x \in requests' : x.q = q /\ x.text = text[q] /\ x.mine /\ x.at # "older"
    BY DEF HandlerLoads, server, client, NothingLostSilently, Unsaved
  <2>1. PICK s \in requests : s.q = q /\ s.text = text[q] /\ s.mine /\ s.at # "older"
    BY DEF IInv, Kept, NothingLostSilently
  <2>2. CASE s # r
    BY <1>1, <2>1, <2>2
  <2>3. CASE s = r
    <3>1. stored[q].text <= text[q] /\ stored[q].text # text[q]
      BY DEF IInv, Kept, PageAhead, Unsaved
    <3>2. stored[r.q].text < r.text
      <4>1. stored[q].text \in Nat /\ text[q] \in Nat
        BY DEF IInv, TypeOK, Answers
      <4>. QED BY <2>1, <2>3, <3>1, <4>1
    <3>3. r.q \in Written => stored[r.q].text = stored[r.q].rev /\ r.text = r.rev
      BY DEF IInv, Kept, Paired
    <3>4. r.q \in Written => ~(r.rev <= stored[r.q].rev)
      BY <1>0, <3>2, <3>3 DEF Requests
    <3>. QED BY <1>0, <1>1, <2>1, <2>3, <3>4 DEF Moved, Requests
  <2>. QED BY <2>2, <2>3
<1>. QED BY <1>3, <1>4, <1>5, <1>6, <1>7, <1>8, <1>9 DEF Kept

\* A commit stores the request, or has it fail, and tells an answer that crossed.
LEMMA HandlerCommitsStep ==
    ASSUME IInv, NEW r \in requests, HandlerCommits(r)
    PROVE  Kept' /\ \A q \in Questions : stored'[q].text < stored[q].text => q \in crossed'
<1>0. /\ r \in Requests /\ r.q \in Questions /\ TypeOK /\ TypeOK' /\ r.at = "loaded"
      /\ \A q \in Questions : stored[q].text \in Nat /\ stored[q].rev \in Nat
  BY TypeSteps DEF IInv, TypeOK, Requests, Answers, Next, Server, HandlerCommits
<1>1. \E place \in {"saved", "failed"} :
        /\ \/ ~r.mine /\ requests' = requests \ {r}
           \/ \E n \in Requests :
                 /\ requests' = (requests \ {r}) \union {n}
                 /\ Moved(n, r) /\ n.at = place /\ r.mine
        /\ place = "failed" => UNCHANGED <<stored, crossed>>
        /\ place = "saved" =>
              /\ \A q \in Questions : q # r.q => stored'[q] = stored[q]
              /\ stored'[r.q].text = r.text
              /\ r.q \in Written => stored'[r.q].rev = r.rev
              /\ crossed' = IF stored[r.q].rev # r.base THEN crossed \union {r.q} ELSE crossed
  <2>1. ASSUME NEW place \in {"saved", "failed"}, requests' = Become(r, place)
        PROVE  \/ ~r.mine /\ requests' = requests \ {r}
               \/ r.mine /\ requests' = (requests \ {r}) \union {[r EXCEPT !.at = place]}
    BY <2>1 DEF Become
  <2>2. ASSUME NEW place \in {"saved", "failed"}
        PROVE  LET n == [r EXCEPT !.at = place]
               IN  n \in Requests /\ Moved(n, r) /\ n.at = place
    BY <1>0 DEF Moved, Requests
  <2>3. CASE requests' = Become(r, "failed") /\ UNCHANGED <<stored, crossed>>
    BY <2>1, <2>2, <2>3
  <2>4. CASE /\ requests' = Become(r, "saved")
             /\ stored' = [stored EXCEPT ![r.q] =
                    [text |-> r.text, rev |-> IF r.q \in Written THEN r.rev ELSE r.base + 1]]
             /\ crossed' = IF stored[r.q].rev # r.base THEN crossed \union {r.q} ELSE crossed
    <3>1. /\ \A q \in Questions : q # r.q => stored'[q] = stored[q]
          /\ stored'[r.q].text = r.text
          /\ r.q \in Written => stored'[r.q].rev = r.rev
      BY <1>0, <2>4 DEF TypeOK
    <3>. QED BY <2>1, <2>2, <2>4, <3>1
  <2>. QED BY <2>3, <2>4 DEF HandlerCommits
<1>2. OnlyMoves(r)
  BY <1>1 DEF OnlyMoves
<1>3. /\ crossed \subseteq crossed'
      /\ UNCHANGED <<page, view, loaded, text, rev, leaving, pending, saving, recording, fetches, told>>
  BY <1>1 DEF HandlerCommits, client
<1>4. \A q \in Questions : \/ stored'[q] = stored[q]
                           \/ q = r.q /\ stored'[q].text = r.text /\ stored[q].rev = r.base
                           \/ q \in crossed'
  BY <1>1
<1>5. ASSUME NEW q \in Questions \ crossed' PROVE stored[q].text <= stored'[q].text
  <2>1. CASE stored'[q] = stored[q]
    BY <1>0, <2>1
  <2>2. CASE q = r.q /\ stored'[q].text = r.text /\ stored[q].rev = r.base
    <3>1. CASE q \in Written
      BY <1>0, <2>2, <3>1 DEF IInv, Kept, Paired, NewerThanItsRow, Requests
    <3>2. CASE q \in Spoken
      BY <1>0, <1>3, <2>2, <3>2 DEF IInv, Kept, UploadAhead
    <3>. QED BY <3>1, <3>2 DEF Questions
  <2>. QED BY <1>4, <2>1, <2>2
<1>6. FreshPage' /\ OneRecording' /\ OneUpload'
  BY <1>0, <1>2, <1>3, MovesStep DEF TypeOK
<1>7. Paired'
  <2>1. \A q \in Written : stored'[q].text = stored'[q].rev
    BY <1>1 DEF IInv, Kept, Paired, Questions
  <2>. QED BY <1>2, <1>3, <2>1 DEF IInv, Kept, Paired, OnlyMoves, Moved
<1>8. NewerThanItsRow' /\ GhostsAreUnderWay'
  BY <1>1 DEF IInv, Kept, NewerThanItsRow, GhostsAreUnderWay, Moved
<1>9. PageAhead'
  <2>. SUFFICES ASSUME page # "loading", NEW q \in Questions \ crossed'
                PROVE  /\ stored'[q].text <= text[q]
                       /\ \A e \in pending : e.q = q => e.text <= text[q]
                       /\ \A x \in requests' : x.q = q => x.mine /\ x.text <= text[q]
    BY <1>3 DEF PageAhead
  <2>1. /\ stored[q].text <= text[q]
        /\ \A e \in pending : e.q = q => e.text <= text[q]
        /\ \A x \in requests : x.q = q => x.mine /\ x.text <= text[q]
    BY <1>3 DEF IInv, Kept, PageAhead
  <2>2. stored'[q].text <= text[q]
    BY <1>4, <2>1
  <2>3. \A x \in requests' : x.q = q => x.mine /\ x.text <= text[q]
    BY <1>2, <2>1 DEF OnlyMoves, Moved
  <2>. QED BY <2>1, <2>2, <2>3
<1>10. UntouchedPart'
  <2>. SUFFICES ASSUME page = "open", ~loaded, NEW q \in Written \ crossed'
                PROVE  /\ stored'[q].text = text[q]
                       /\ \A e \in pending : e.q # q
                       /\ \A x \in requests' : x.q # q
    BY <1>3 DEF UntouchedPart
  <2>1. /\ stored[q].text = text[q]
        /\ \A e \in pending : e.q # q
        /\ \A x \in requests : x.q # q
    BY <1>3 DEF IInv, Kept, UntouchedPart
  <2>. QED BY <1>2, <1>4, <2>1 DEF OnlyMoves, Moved, Questions
<1>11. UploadAhead'
  <2>. SUFFICES ASSUME NEW x \in requests', x.q \in Spoken \ crossed'
                PROVE  /\ \A y \in requests' : y.q = x.q => y = x
                       /\ x.at \in {"sent", "loaded"} => stored'[x.q].text <= x.text
    BY DEF UploadAhead
  <2>1. CASE x \in requests /\ x # r
    <3>1. x.q # r.q
      BY <1>3, <2>1 DEF IInv, Kept, UploadAhead
    <3>. QED BY <1>1, <1>3, <2>1, <3>1 DEF IInv, Kept, UploadAhead, Moved, Questions
  <2>2. CASE ~(x \in requests /\ x # r)
    BY <1>1, <1>3, <2>2 DEF IInv, Kept, UploadAhead, Moved
  <2>. QED BY <2>1, <2>2
<1>12. SavedIsStored'
  <2>. SUFFICES ASSUME NEW x \in requests', x.at = "saved", x.q \notin crossed'
                PROVE  x.text <= stored'[x.q].text
    BY DEF SavedIsStored
  <2>0. x \in Requests /\ x.q \in Questions
    BY <1>0 DEF TypeOK, Requests
  <2>1. CASE x \in requests /\ x # r
    <3>1. x.text <= stored[x.q].text
      BY <1>3, <2>1 DEF IInv, Kept, SavedIsStored
    <3>2. stored[x.q].text \in Nat /\ stored'[x.q].text \in Nat /\ x.text \in Nat
      BY <1>0, <2>0 DEF TypeOK, Answers, Requests
    <3>. QED BY <1>5, <2>0, <3>1, <3>2
  <2>2. CASE ~(x \in requests /\ x # r)
    BY <1>0, <1>1, <2>2 DEF Moved, Requests
  <2>. QED BY <2>1, <2>2
<1>13. NothingLostSilently'
  <2>. SUFFICES ASSUME NEW q \in Questions, Unsaved(q)', q \notin told \union crossed',
                       ~(page = "open" /\ q \in recording),
                       ~\E e \in pending : e.q = q /\ e.text = text[q]
                PROVE  \E x \in requests' : x.q = q /\ x.text = text[q] /\ x.mine /\ x.at # "older"
    BY <1>3 DEF NothingLostSilently
  <2>1. Unsaved(q)
    <3>. SUFFICES ASSUME text[q] = stored[q].text PROVE FALSE
      BY <1>3 DEF Unsaved
    <3>1. page # "loading" /\ stored'[q].text # text[q]
      BY <1>3 DEF Unsaved
    <3>2. stored'[q].text <= text[q]
      BY <1>3, <1>9, <3>1 DEF PageAhead
    <3>3. stored'[q].text \in Nat /\ text[q] \in Nat
      BY <1>0 DEF TypeOK, Answers
    <3>. QED BY <1>0, <1>5, <3>1, <3>2, <3>3
  <2>2. PICK s \in requests : s.q = q /\ s.text = text[q] /\ s.mine /\ s.at # "older"
    BY <1>3, <2>1 DEF IInv, Kept, NothingLostSilently
  <2>. QED BY <1>1, <2>2 DEF Moved
<1>14. ASSUME NEW q \in Questions, stored'[q].text < stored[q].text PROVE q \in crossed'
  <2>1. stored'[q].text \in Nat /\ stored[q].text \in Nat
    BY <1>0 DEF TypeOK, Answers
  <2>. QED BY <1>5, <1>14, <2>1
<1>. QED
  BY <1>6, <1>7, <1>8, <1>9, <1>10, <1>11, <1>12, <1>13, <1>14 DEF Kept

-----------------------------------------------------------------------------
(* The page.                                                               *)

\* Whether an answer is accounted for, see NothingLostSilently.
Accounted(q) ==
    \/ \E e \in pending : e.q = q /\ e.text = text[q]
    \/ \E r \in requests : r.q = q /\ r.text = text[q] /\ r.mine /\ r.at # "older"
    \/ page = "open" /\ q \in recording
    \/ q \in told \union crossed

\* persist, for one edit, adds one request of the page's own.
LEMMA PersistOne ==
    ASSUME TypeOK, NEW e \in [q : Questions, text : Nat, rev : Nat], NEW awaited \in BOOLEAN,
           Persist({e}, awaited)
    PROVE  /\ saving' = saving \union {e.q}
           /\ \E n \in Requests :
                /\ requests' = requests \union {n}
                /\ n.q = e.q /\ n.text = e.text /\ n.rev = e.rev /\ n.at = "sent" /\ n.mine
<1>1. requests' = requests \union {Request(e.q, e.text, e.rev, awaited)}
  BY DEF Persist
<1>2. saving' = saving \union {e.q}
  BY DEF Persist
<1>. QED BY <1>1, <1>2, RequestTypes

\* An edit is the newest there is; it waits for its timer or is sent.
LEMMA EditStep ==
    ASSUME IInv, NEW q \in Written, NEW debounce \in BOOLEAN, Edit(q, debounce)
    PROVE  Kept'
<1>0. /\ TypeOK /\ TypeOK' /\ q \in Questions /\ q \notin Spoken
      /\ text[q] \in Nat /\ rev[q] \in Nat /\ stored[q].text \in Nat
  BY TypeSteps, ExamAssumption DEF IInv, TypeOK, Answers, Questions, Next, Student
<1>1. PICK edit \in [q : Written, text : Nat, rev : Nat] :
        /\ edit.q = q /\ edit.text = text[q] + 1 /\ edit.rev = rev[q] + 1
        /\ pending' \subseteq pending \union {edit}
        /\ \A e \in pending : e.q # q => e \in pending'
        /\ \/ edit \in pending' /\ requests' = requests
           \/ \E n \in Requests :
                /\ requests' = requests \union {n}
                /\ n.q = q /\ n.text = edit.text /\ n.rev = edit.rev /\ n.at = "sent" /\ n.mine
        /\ saving \subseteq saving' /\ saving' \subseteq saving \union {q}
  <2> DEFINE edit == [q |-> q, text |-> text[q] + 1, rev |-> rev[q] + 1]
  <2>1. edit \in [q : Written, text : Nat, rev : Nat]
    BY <1>0
  <2>2. CASE debounce
    <3>1. pending' = {e \in pending : e.q # q} \union {edit} /\ UNCHANGED <<requests, saving>>
      BY <2>2 DEF Edit
    <3>. QED BY <2>1, <3>1
  <2>3. CASE ~debounce
    <3>1. pending' = pending /\ Persist({edit}, FALSE)
      BY <2>3 DEF Edit
    <3>2. edit \in [q : Questions, text : Nat, rev : Nat]
      BY <1>0, <2>1
    <3>3. /\ saving' = saving \union {q}
          /\ \E n \in Requests :
            /\ requests' = requests \union {n}
            /\ n.q = edit.q /\ n.text = edit.text /\ n.rev = edit.rev /\ n.at = "sent" /\ n.mine
      BY <1>0, <3>1, <3>2, PersistOne
    <3>. QED BY <2>1, <3>1, <3>3
  <2>. QED BY <2>2, <2>3
<1>2. /\ page = "open" /\ page' = "open" /\ view = "main" /\ loaded /\ loaded'
      /\ text' = [text EXCEPT ![q] = @ + 1] /\ rev' = [rev EXCEPT ![q] = @ + 1]
      /\ told' = told \ {q}
      /\ saving \subseteq saving' /\ saving' \subseteq saving \union {q}
      /\ UNCHANGED <<stored, view, recording, leaving, fetches, crossed>>
  <2>1. /\ page = "open" /\ page' = "open" /\ view = "main" /\ loaded /\ loaded'
        /\ text' = [text EXCEPT ![q] = @ + 1] /\ rev' = [rev EXCEPT ![q] = @ + 1]
        /\ told' = told \ {q}
        /\ UNCHANGED <<stored, view, recording, leaving, fetches, crossed>>
    BY DEF Edit, server
  <2>. QED BY <1>1, <2>1
<1>3. Paired'
  BY <1>0, <1>1, <1>2 DEF IInv, Kept, Paired, TypeOK
<1>4. NewerThanItsRow' /\ GhostsAreUnderWay' /\ FreshPage' /\ OneRecording' /\ UntouchedPart'
  BY <1>0, <1>1, <1>2
     DEF IInv, Kept, NewerThanItsRow, GhostsAreUnderWay, FreshPage, OneRecording, UntouchedPart, TypeOK
<1>5. OneUpload' /\ UploadAhead' /\ SavedIsStored'
  BY <1>0, <1>1, <1>2 DEF IInv, Kept, OneUpload, UploadAhead, SavedIsStored
<1>6. PageAhead'
  <2>. SUFFICES ASSUME NEW p \in Questions \ crossed
                PROVE  /\ stored[p].text <= text'[p]
                       /\ \A e \in pending' : e.q = p => e.text <= text'[p]
                       /\ \A x \in requests' : x.q = p => x.mine /\ x.text <= text'[p]
    BY <1>2 DEF PageAhead
  <2>1. text[p] \in Nat /\ text'[p] \in Nat /\ text[p] <= text'[p] /\ text'[q] = text[q] + 1
    BY <1>0, <1>2 DEF TypeOK
  <2>2. stored[p].text \in Nat /\ (\A e \in pending : e.text \in Nat) /\ (\A x \in requests : x.text \in Nat)
    BY <1>0 DEF TypeOK, Answers, Requests
  <2>. QED BY <1>1, <1>2, <2>1, <2>2 DEF IInv, Kept, PageAhead
<1>7. NothingLostSilently'
  <2>. SUFFICES ASSUME NEW p \in Questions, Unsaved(p)' PROVE Accounted(p)'
    BY DEF NothingLostSilently, Accounted
  <2>1. CASE p = q
    BY <1>0, <1>1, <1>2, <2>1 DEF Accounted, TypeOK
  <2>2. CASE p # q
    <3>1. Unsaved(p) /\ text'[p] = text[p]
      BY <1>0, <1>2, <2>2 DEF Unsaved, TypeOK
    <3>2. Accounted(p)
      BY <3>1 DEF IInv, Kept, NothingLostSilently, Accounted
    <3>. QED BY <1>1, <1>2, <2>2, <3>1, <3>2 DEF Accounted
  <2>. QED BY <2>1, <2>2
<1>. QED BY <1>3, <1>4, <1>5, <1>6, <1>7 DEF Kept

\* The timer of an edit, submit and the seal send what has been waiting.
LEMMA SendStep ==
    ASSUME IInv, NEW edits \in SUBSET pending, NEW awaited \in BOOLEAN, Persist(edits, awaited),
           pending' = pending \ edits, page # "loading",
           UNCHANGED <<stored, page, view, loaded, text, rev, recording, fetches, told, crossed>>,
           leaving'.pc \in {"wait", "sent", "done"} => recording = {}
    PROVE  Kept'
<1>0. /\ TypeOK /\ Written \intersect Spoken = {}
      /\ \A e \in pending : e \in [q : Written, text : Nat, rev : Nat] /\ e.q \in Questions
  BY ExamAssumption DEF IInv, TypeOK, Questions
<1>1. /\ requests \subseteq requests'
      /\ \A x \in requests' : x \in requests \/ \E e \in edits :
            /\ x.q = e.q /\ x.text = e.text /\ x.rev = e.rev
            /\ x.at = "sent" /\ x.mine /\ x.q \in Written
      /\ \A e \in edits : \E x \in requests' :
            x.q = e.q /\ x.text = e.text /\ x.mine /\ x.at = "sent"
  <2>1. \A e \in edits :
          LET x == Request(e.q, e.text, e.rev, awaited)
          IN  x.q = e.q /\ x.text = e.text /\ x.rev = e.rev /\ x.at = "sent" /\ x.mine /\ x.q \in Written
    <3>. SUFFICES ASSUME NEW e \in edits
                  PROVE  LET x == Request(e.q, e.text, e.rev, awaited)
                         IN  /\ x.q = e.q /\ x.text = e.text /\ x.rev = e.rev
                             /\ x.at = "sent" /\ x.mine /\ x.q \in Written
      OBVIOUS
    <3>1. e.q \in Questions /\ e.q \in Written /\ e.text \in Nat /\ e.rev \in Nat
      BY <1>0
    <3>. QED BY <3>1 DEF Request
  <2>2. requests' = requests \union {Request(e.q, e.text, e.rev, awaited) : e \in edits}
    BY DEF Persist
  <2>. QED BY <2>1, <2>2
<1>2. saving \subseteq saving' /\ \A q \in saving' : q \in saving \/ q \in Written
  BY <1>0 DEF Persist
<1>3. Paired' /\ NewerThanItsRow' /\ GhostsAreUnderWay' /\ FreshPage'
  BY <1>1 DEF IInv, Kept, Paired, NewerThanItsRow, GhostsAreUnderWay, FreshPage
<1>4. OneRecording'
  BY <1>0, <1>2 DEF IInv, Kept, OneRecording, TypeOK
<1>5. OneUpload' /\ UploadAhead' /\ SavedIsStored'
  BY <1>0, <1>1, <1>2 DEF IInv, Kept, OneUpload, UploadAhead, SavedIsStored
<1>6. PageAhead' /\ UntouchedPart'
  BY <1>0, <1>1 DEF IInv, Kept, PageAhead, UntouchedPart
<1>7. NothingLostSilently'
  <2>. SUFFICES ASSUME NEW q \in Questions, Unsaved(q)' PROVE Accounted(q)'
    BY DEF NothingLostSilently, Accounted
  <2>1. Accounted(q)
    BY DEF IInv, Kept, NothingLostSilently, Unsaved, Accounted
  <2>2. CASE \E e \in edits : e.q = q /\ e.text = text[q]
    BY <1>1, <2>2 DEF Accounted
  <2>3. CASE ~\E e \in edits : e.q = q /\ e.text = text[q]
    BY <1>1, <2>1, <2>3 DEF Accounted
  <2>. QED BY <2>2, <2>3
<1>. QED BY <1>3, <1>4, <1>5, <1>6, <1>7 DEF Kept

\* The timer sends one edit.
LEMMA DebounceFiresStep ==
    ASSUME IInv, NEW e \in pending, DebounceFires(e)
    PROVE  Kept'
<1>1. leaving'.pc \in {"wait", "sent", "done"} => recording = {}
  BY DEF DebounceFires, IInv, Kept, OneRecording
<1>. QED BY <1>1, SendStep DEF DebounceFires, server

\* Submit sends all that waits, and then looks for a recorder that runs.
LEMMA BeginSubmitStep ==
    ASSUME IInv, BeginSubmit
    PROVE  Kept'
<1>1. pending' = pending \ pending /\ page # "loading" /\ leaving'.pc = "flush"
  BY DEF BeginSubmit
<1>. QED BY <1>1, SendStep DEF BeginSubmit, server

\* The seal sends all that waits; there is no recorder in the written phase.
LEMMA BeginSealStep ==
    ASSUME IInv, NEW kind \in {"seal", "defer"}, BeginSeal(kind)
    PROVE  Kept'
<1>1. pending' = pending \ pending /\ page # "loading" /\ recording = {}
  BY DEF BeginSeal, IInv, Kept, OneRecording
<1>. QED BY <1>1, SendStep DEF BeginSeal, server

\* The page hears of a request, or loses it: what it is not told of is stored.
LEMMA HearStep ==
    ASSUME IInv, NEW r \in requests, Hear(r) \/ Lose(r)
    PROVE  Kept'
<1>0. TypeOK /\ r \in Requests /\ r.q \in Questions
  BY DEF IInv, TypeOK, Requests
<1>1. /\ requests' = requests \ {r} /\ saving' = saving \ {r.q}
      /\ told \subseteq told'
      /\ r.q \in told' \/ r.at \in {"saved", "older"}
      /\ UNCHANGED <<stored, page, view, loaded, text, rev, pending, recording, leaving, fetches, crossed>>
  BY DEF Hear, Lose, server
<1>2. r.mine
  BY DEF Hear, Lose, IInv, Kept, GhostsAreUnderWay
<1>3. Paired' /\ NewerThanItsRow' /\ GhostsAreUnderWay' /\ FreshPage' /\ OneRecording'
  BY <1>1
     DEF IInv, Kept, Paired, NewerThanItsRow, GhostsAreUnderWay, FreshPage, OneRecording
<1>4. OneUpload'
  BY <1>1, <1>2 DEF IInv, Kept, OneUpload
<1>5. PageAhead' /\ UntouchedPart' /\ UploadAhead' /\ SavedIsStored'
  BY <1>1 DEF IInv, Kept, PageAhead, UntouchedPart, UploadAhead, SavedIsStored
<1>6. NothingLostSilently'
  <2>. SUFFICES ASSUME NEW q \in Questions, Unsaved(q)' PROVE Accounted(q)'
    BY DEF NothingLostSilently, Accounted
  <2>1. Unsaved(q) /\ Accounted(q)
    BY <1>1 DEF IInv, Kept, NothingLostSilently, Unsaved, Accounted
  <2>2. CASE r.q = q /\ r.text = text[q] /\ r.at = "saved" /\ q \notin crossed
    <3>1. r.text <= stored[q].text
      BY <2>2 DEF IInv, Kept, SavedIsStored
    <3>2. page # "loading" /\ text[q] # stored[q].text
      BY <2>1 DEF Unsaved
    <3>3. stored[q].text <= text[q]
      BY <2>2, <3>2 DEF IInv, Kept, PageAhead
    <3>. QED BY <1>0, <2>2, <3>1, <3>2, <3>3 DEF TypeOK, Answers
  <2>3. CASE ~(r.q = q /\ r.text = text[q] /\ r.at = "saved") \/ q \in crossed
    BY <1>1, <2>1, <2>3 DEF Accounted
  <2>. QED BY <2>2, <2>3
<1>. QED BY <1>3, <1>4, <1>5, <1>6 DEF Kept

\* The recorder starts: what the page shows of the question is being replaced.
LEMMA StartRecordingStep ==
    ASSUME IInv, NEW q \in Spoken, StartRecording(q)
    PROVE  Kept'
<1>0. TypeOK /\ q \in Questions /\ page = "open" /\ view # "main" /\ q \notin saving
  BY DEF IInv, TypeOK, Questions, StartRecording, StageReady
<1>1. /\ leaving = NotLeaving /\ recording = {} /\ recording' = {q} /\ told' = told \ {q}
      /\ UNCHANGED <<stored, page, view, loaded, text, rev, pending, saving, requests, leaving,
                     fetches, crossed>>
  BY DEF StartRecording, server
<1>2. Paired' /\ NewerThanItsRow' /\ GhostsAreUnderWay' /\ FreshPage' /\ OneUpload' /\ PageAhead'
      /\ UntouchedPart' /\ UploadAhead' /\ SavedIsStored'
  BY <1>0, <1>1
     DEF IInv, Kept, Paired, NewerThanItsRow, GhostsAreUnderWay, FreshPage, OneUpload, PageAhead,
         UntouchedPart, UploadAhead, SavedIsStored
<1>3. OneRecording'
  BY <1>0, <1>1 DEF OneRecording, NotLeaving
<1>4. NothingLostSilently'
  BY <1>0, <1>1 DEF IInv, Kept, NothingLostSilently, Unsaved
<1>. QED BY <1>2, <1>3, <1>4 DEF Kept

\* The recorder stops: its upload is the only one of the question.
LEMMA RecorderStopsStep ==
    ASSUME IInv, NEW q \in Spoken, RecorderStops(q)
    PROVE  Kept'
<1>0. /\ TypeOK /\ TypeOK' /\ q \in Questions /\ q \notin Written /\ Written \intersect Spoken = {}
      /\ text[q] \in Nat /\ page = "open" /\ q \in recording /\ q \notin saving
  BY TypeSteps, ExamAssumption
     DEF IInv, Kept, OneRecording, TypeOK, Questions, RecorderStops, Next, Page
<1>1. /\ recording' = {} /\ text' = [text EXCEPT ![q] = @ + 1] /\ saving' = saving \union {q}
      /\ UNCHANGED <<stored, page, view, loaded, rev, pending, fetches, told, crossed>>
  <2>1. recording' = {} /\ text' = [text EXCEPT ![q] = @ + 1]
        /\ UNCHANGED <<stored, page, view, loaded, rev, pending, fetches, told, crossed>>
    BY DEF RecorderStops, server
  <2>2. saving' = saving \union {q}
    BY DEF RecorderStops, Persist
  <2>. QED BY <2>1, <2>2
<1>2. PICK n \in Requests :
        /\ requests' = requests \union {n}
        /\ n.q = q /\ n.text = text[q] + 1 /\ n.at = "sent" /\ n.mine
  <2>1. [q |-> q, text |-> text[q] + 1, rev |-> 0] \in [q : Questions, text : Nat, rev : Nat]
    BY <1>0
  <2>. QED BY <1>0, <2>1, PersistOne DEF RecorderStops
<1>3. \A r \in requests : r.q = q => ~r.mine /\ q \in crossed
  BY <1>0 DEF IInv, Kept, OneUpload, PageAhead
<1>4. Paired' /\ NewerThanItsRow' /\ GhostsAreUnderWay' /\ FreshPage' /\ OneRecording' /\ UntouchedPart'
  BY <1>0, <1>1, <1>2
     DEF IInv, Kept, Paired, NewerThanItsRow, GhostsAreUnderWay, FreshPage, OneRecording,
         UntouchedPart, TypeOK, Questions
<1>5. OneUpload' /\ SavedIsStored'
  BY <1>0, <1>1, <1>2, <1>3 DEF IInv, Kept, OneUpload, SavedIsStored
<1>6. stored[q].text \in Nat /\ (q \notin crossed => stored[q].text <= text[q])
  BY <1>0 DEF IInv, Kept, PageAhead, TypeOK, Answers
<1>7. UploadAhead'
  BY <1>0, <1>1, <1>2, <1>3, <1>6 DEF IInv, Kept, UploadAhead
<1>8. PageAhead'
  <2>. SUFFICES ASSUME NEW p \in Questions \ crossed
                PROVE  /\ stored[p].text <= text'[p]
                       /\ \A e \in pending : e.q = p => e.text <= text'[p]
                       /\ \A x \in requests' : x.q = p => x.mine /\ x.text <= text'[p]
    BY <1>1 DEF PageAhead
  <2>1. CASE p = q
    <3>1. text'[p] = text[q] + 1 /\ \A e \in pending : e.q # p
      BY <1>0, <1>1, <2>1 DEF TypeOK
    <3>. QED BY <1>0, <1>2, <1>3, <1>6, <2>1, <3>1
  <2>2. CASE p # q
    <3>1. text'[p] = text[p]
      BY <1>0, <1>1, <2>2 DEF TypeOK
    <3>. QED BY <1>0, <1>2, <2>2, <3>1 DEF IInv, Kept, PageAhead
  <2>. QED BY <2>1, <2>2
<1>9. NothingLostSilently'
  <2>. SUFFICES ASSUME NEW p \in Questions, Unsaved(p)' PROVE Accounted(p)'
    BY DEF NothingLostSilently, Accounted
  <2>1. CASE p = q
    BY <1>0, <1>1, <1>2, <2>1 DEF Accounted, TypeOK
  <2>2. CASE p # q
    <3>1. text'[p] = text[p] /\ p \notin recording
      BY <1>0, <1>1, <2>2 DEF IInv, Kept, OneRecording, TypeOK
    <3>2. Accounted(p)
      BY <1>1, <3>1 DEF IInv, Kept, NothingLostSilently, Unsaved, Accounted
    <3>. QED BY <1>1, <1>2, <3>1, <3>2 DEF Accounted
  <2>. QED BY <2>1, <2>2
<1>. QED BY <1>4, <1>5, <1>7, <1>8, <1>9 DEF Kept

\* The recorder fails, and says so.
LEMMA RecorderFailsStep ==
    ASSUME IInv, NEW q \in Spoken, RecorderFails(q)
    PROVE  Kept'
<1>0. TypeOK /\ q \in recording /\ page = "open" /\ \A p \in recording : p = q
  BY DEF IInv, Kept, OneRecording, RecorderFails
<1>1. /\ recording' = {} /\ told' = told \union {q}
      /\ UNCHANGED <<stored, page, view, loaded, text, rev, pending, saving, requests, fetches, crossed>>
  BY DEF RecorderFails, server
<1>2. Paired' /\ NewerThanItsRow' /\ GhostsAreUnderWay' /\ FreshPage' /\ OneRecording' /\ OneUpload'
      /\ PageAhead' /\ UntouchedPart' /\ UploadAhead' /\ SavedIsStored'
  BY <1>0, <1>1
     DEF IInv, Kept, Paired, NewerThanItsRow, GhostsAreUnderWay, FreshPage, OneRecording,
         OneUpload, PageAhead, UntouchedPart, UploadAhead, SavedIsStored
<1>3. NothingLostSilently'
  BY <1>0, <1>1 DEF IInv, Kept, NothingLostSilently, Unsaved
<1>. QED BY <1>2, <1>3 DEF Kept

\* Steps that leave the answers alone: the clock, the way out, another click.
LEMMA OtherSteps ==
    ASSUME IInv,
           \/ FlushSettles \/ (\E gaveUp \in BOOLEAN : Post(gaveUp)) \/ ServerSubmits \/ ServerSeals
           \/ LeavingFails \/ LeavingSucceeds \/ ResumeSpeaking \/ TimeUp \/ Sweep \/ UNCHANGED vars
    PROVE  Kept'
<1>1. UNCHANGED <<stored, loaded, text, rev, pending, saving, recording, requests, fetches, told,
                   crossed>>
  BY DEF FlushSettles, Post, ServerSubmits, ServerSeals, LeavingFails, LeavingSucceeds,
         ResumeSpeaking, TimeUp, Sweep, vars, client, server
<1>2. /\ page' # page => page # "loading" /\ page' = "left" /\ leaving.pc = "done"
      /\ view' # view => view' = "speaking"
      /\ page = "loading" => leaving' = leaving
      /\ leaving'.pc \in {"wait", "sent", "done"} =>
            leaving.pc \in {"wait", "sent", "done"} \/ recording = {}
  <2>1. page = "loading" => leaving.pc = "none" /\ leaving.kind = "none"
    BY DEF IInv, Kept, FreshPage, NotLeaving
  <2>2. CASE FlushSettles
    BY <2>1, <2>2 DEF FlushSettles, IInv, TypeOK
  <2>3. CASE (\E gaveUp \in BOOLEAN : Post(gaveUp)) \/ ServerSubmits \/ ServerSeals
    BY <2>1, <2>3 DEF Post, ServerSubmits, ServerSeals
  <2>4. CASE LeavingFails \/ LeavingSucceeds
    BY <2>1, <2>4 DEF LeavingFails, LeavingSucceeds, NotLeaving
  <2>5. CASE ResumeSpeaking \/ TimeUp \/ Sweep \/ UNCHANGED vars
    BY <2>1, <2>5 DEF ResumeSpeaking, TimeUp, Sweep, vars, client
  <2>. QED BY <2>2, <2>3, <2>4, <2>5
<1>3. leaving.pc \in {"wait", "sent", "done"} => recording = {}
  BY DEF IInv, Kept, OneRecording
<1>4. Paired' /\ NewerThanItsRow' /\ GhostsAreUnderWay' /\ OneRecording' /\ OneUpload' /\ UntouchedPart'
      /\ UploadAhead' /\ SavedIsStored'
  BY <1>1, <1>2, <1>3
     DEF IInv, Kept, Paired, NewerThanItsRow, GhostsAreUnderWay, OneRecording, OneUpload,
         UntouchedPart, UploadAhead, SavedIsStored
<1>5. FreshPage' /\ PageAhead'
  BY <1>1, <1>2 DEF IInv, Kept, FreshPage, PageAhead
<1>6. NothingLostSilently'
  BY <1>1, <1>2, <1>3 DEF IInv, Kept, NothingLostSilently, Unsaved
<1>. QED BY <1>4, <1>5, <1>6 DEF Kept

-----------------------------------------------------------------------------
(* Loading and reloading.                                                  *)

\* While a page loads, what is on its way is a ghost's.
LEMMA LoadingGhosts ==
    ASSUME IInv, page = "loading"
    PROVE  /\ pending = {} /\ saving = {} /\ recording = {} /\ leaving = NotLeaving
           /\ \A r \in requests : ~r.mine /\ r.q \in Ghosts
BY DEF IInv, Kept, FreshPage, Ghosts

\* The page is level with the server, and what may still overtake it is marked.
LEMMA LoadStep ==
    ASSUME IInv, Load \/ LoadFindsOver
    PROVE  Kept'
<1>0. TypeOK /\ page = "loading" /\ page' # "loading"
      /\ \A q \in Questions : stored[q].text \in Nat
  BY DEF IInv, TypeOK, Answers, Load, LoadFindsOver
<1>1. /\ \A q \in Questions : text'[q] = stored[q].text
      /\ page' = "open" => \A q \in Questions : rev'[q] = stored[q].rev
      /\ crossed' = crossed \union Ghosts
      /\ UNCHANGED <<stored, pending, saving, recording, leaving, requests, fetches, told>>
  BY DEF Load, LoadFindsOver, server
<1>2. /\ pending = {} /\ saving = {} /\ recording = {} /\ leaving = NotLeaving
      /\ \A r \in requests : ~r.mine /\ r.q \in Ghosts
  BY <1>0, LoadingGhosts
<1>3. Paired' /\ NewerThanItsRow' /\ GhostsAreUnderWay' /\ FreshPage'
  BY <1>0, <1>1
     DEF IInv, Kept, Paired, NewerThanItsRow, GhostsAreUnderWay, FreshPage, Questions
<1>4. OneRecording' /\ OneUpload' /\ UploadAhead' /\ SavedIsStored'
  BY <1>1, <1>2 DEF IInv, Kept, OneRecording, OneUpload, UploadAhead, SavedIsStored
<1>5. PageAhead'
  BY <1>0, <1>1, <1>2 DEF PageAhead
<1>6. UntouchedPart'
  BY <1>1, <1>2 DEF UntouchedPart, Questions
<1>7. NothingLostSilently'
  BY <1>1 DEF NothingLostSilently, Unsaved
<1>. QED BY <1>3, <1>4, <1>5, <1>6, <1>7 DEF Kept

\* Another click on the part: what comes back are rows that were stored.
LEMMA SelectPartStep ==
    ASSUME IInv, SelectPart
    PROVE  Kept'
<1>1. /\ \A f \in fetches' : f \in fetches \/ f.rows = stored
      /\ UNCHANGED <<stored, page, view, loaded, text, rev, pending, saving, recording, leaving,
                     requests, told, crossed>>
  BY DEF SelectPart, server, client
<1>2. Paired'
  BY <1>1 DEF IInv, Kept, Paired
<1>3. NewerThanItsRow' /\ GhostsAreUnderWay' /\ FreshPage' /\ OneRecording' /\ OneUpload'
      /\ PageAhead' /\ UntouchedPart' /\ UploadAhead' /\ SavedIsStored'
  BY <1>1
     DEF IInv, Kept, NewerThanItsRow, GhostsAreUnderWay, FreshPage, OneRecording,
         OneUpload, PageAhead, UntouchedPart, UploadAhead, SavedIsStored
<1>4. NothingLostSilently'
  BY <1>1 DEF IInv, Kept, NothingLostSilently, Unsaved
<1>. QED BY <1>2, <1>3, <1>4 DEF Kept

\* The part arrives: an answer it changes has crossed.
LEMMA PartArrivesStep ==
    ASSUME IInv, NEW f \in fetches, PartArrives(f)
    PROVE  Kept'
<1>0. TypeOK /\ Written \subseteq Questions
  BY DEF IInv, Questions
<1>1. /\ page = "open" /\ loaded' /\ fetches' = fetches \ {f} /\ crossed \subseteq crossed'
      /\ text' = [q \in Questions |-> IF q \in Written THEN f.rows[q].text ELSE text[q]]
      /\ rev' = [q \in Questions |-> IF q \in Written THEN f.rows[q].rev ELSE rev[q]]
      /\ UNCHANGED <<stored, page, view, pending, saving, recording, leaving, requests, told>>
  BY DEF PartArrives, server
<1>2. \A q \in Questions \ crossed' : text'[q] = text[q]
  BY <1>1 DEF PartArrives
<1>3. Paired'
  BY <1>0, <1>1 DEF IInv, Kept, Paired
<1>4. NewerThanItsRow' /\ GhostsAreUnderWay' /\ FreshPage' /\ OneRecording' /\ OneUpload'
      /\ UntouchedPart' /\ UploadAhead' /\ SavedIsStored'
  BY <1>1
     DEF IInv, Kept, NewerThanItsRow, GhostsAreUnderWay, FreshPage, OneRecording, OneUpload,
         UntouchedPart, UploadAhead, SavedIsStored
<1>5. PageAhead'
  BY <1>1, <1>2 DEF IInv, Kept, PageAhead
<1>6. NothingLostSilently'
  <2>. SUFFICES ASSUME NEW q \in Questions \ crossed', Unsaved(q)' PROVE Accounted(q)'
    BY DEF NothingLostSilently, Accounted
  <2>1. Unsaved(q)
    <3>1. q \in Written /\ ~loaded => stored[q].text = text[q]
      BY <1>1 DEF IInv, Kept, UntouchedPart
    <3>. QED BY <1>1, <1>2, <3>1 DEF Unsaved
  <2>2. Accounted(q)
    BY <2>1 DEF IInv, Kept, NothingLostSilently, Accounted
  <2>. QED BY <1>1, <1>2, <2>2 DEF Accounted
<1>. QED BY <1>3, <1>4, <1>5, <1>6 DEF Kept

\* What a page had sent outlives it.
LEMMA ReloadStep ==
    ASSUME IInv, Reload
    PROVE  Kept'
<1>0. TypeOK
  BY DEF IInv
<1>1. /\ page' = "loading" /\ pending' = {} /\ saving' = {} /\ recording' = {}
      /\ leaving' = NotLeaving /\ fetches' = {}
      /\ UNCHANGED <<stored, crossed>>
  BY DEF Reload, server
<1>2. \A x \in requests' : \E r \in requests :
        /\ x = [r EXCEPT !.mine = FALSE]
        /\ x.q = r.q /\ x.text = r.text /\ x.rev = r.rev /\ x.base = r.base /\ x.at = r.at
        /\ ~x.mine /\ x.at \in {"sent", "loaded"}
  BY <1>0 DEF Reload, TypeOK, Requests
<1>3. Paired'
  BY <1>1, <1>2 DEF IInv, Kept, Paired
<1>4. NewerThanItsRow' /\ GhostsAreUnderWay' /\ FreshPage' /\ OneRecording' /\ OneUpload'
      /\ PageAhead' /\ UntouchedPart' /\ SavedIsStored'
  BY <1>1, <1>2
     DEF IInv, Kept, NewerThanItsRow, GhostsAreUnderWay, FreshPage, OneRecording, OneUpload,
         PageAhead, UntouchedPart, SavedIsStored, NotLeaving
<1>5. UploadAhead'
  <2>. SUFFICES ASSUME NEW x \in requests', x.q \in Spoken \ crossed
                PROVE  /\ \A y \in requests' : y.q = x.q => y = x
                       /\ x.at \in {"sent", "loaded"} => stored[x.q].text <= x.text
    BY <1>1 DEF UploadAhead
  <2>1. PICK r \in requests : x = [r EXCEPT !.mine = FALSE] /\ x.q = r.q /\ x.text = r.text /\ x.at = r.at
    BY <1>2
  <2>2. /\ \A s \in requests : s.q = r.q => s = r
        /\ r.at \in {"sent", "loaded"} => stored[r.q].text <= r.text
    BY <2>1 DEF IInv, Kept, UploadAhead
  <2>3. ASSUME NEW y \in requests', y.q = x.q PROVE y = x
    <3>1. PICK s \in requests : y = [s EXCEPT !.mine = FALSE] /\ y.q = s.q
      BY <1>2
    <3>. QED BY <2>1, <2>2, <2>3, <3>1
  <2>. QED BY <2>1, <2>2, <2>3
<1>6. NothingLostSilently'
  BY <1>1 DEF NothingLostSilently, Unsaved
<1>. QED BY <1>3, <1>4, <1>5, <1>6 DEF Kept

-----------------------------------------------------------------------------
(* The theorems.                                                           *)

\* Nothing has been typed when the paper opens.
LEMMA Initially == Init => IInv
<1>. SUFFICES ASSUME Init PROVE IInv
  OBVIOUS
<1>1. /\ stored = [q \in Questions |-> Blank] /\ text = [q \in Questions |-> 0]
      /\ page = "loading" /\ pending = {} /\ saving = {} /\ recording = {} /\ leaving = NotLeaving
      /\ requests = {} /\ fetches = {}
  BY DEF Init
<1>2. TypeOK
  <2>1. Blank \in Answers /\ 0 \in 0..MaxReloads
    BY ExamAssumption DEF Blank, Answers
  <2>2. NotLeaving \in [kind : {"none", "submit", "seal", "defer"},
                        pc : {"none", "flush", "stopping", "wait", "sent", "done"}]
    BY DEF NotLeaving
  <2>. QED BY <2>1, <2>2 DEF Init, TypeOK
<1>3. Paired /\ NewerThanItsRow /\ GhostsAreUnderWay /\ FreshPage /\ OneRecording /\ OneUpload
  BY <1>1
     DEF Paired, NewerThanItsRow, GhostsAreUnderWay, FreshPage, OneRecording, OneUpload, Questions,
         Blank
<1>4. PageAhead /\ UntouchedPart /\ UploadAhead /\ SavedIsStored /\ NothingLostSilently
  BY <1>1 DEF PageAhead, UntouchedPart, UploadAhead, SavedIsStored, NothingLostSilently, Unsaved
<1>. QED BY <1>2, <1>3, <1>4 DEF IInv, Kept

\* Every step keeps the invariant.
LEMMA Steps == IInv /\ [Next]_vars => IInv'
<1>. SUFFICES ASSUME IInv, [Next]_vars PROVE IInv'
  OBVIOUS
<1>1. TypeOK'
  BY TypeSteps DEF IInv
<1>2. Kept'
  BY EditStep, DebounceFiresStep, HandlerLoadsStep, HandlerCommitsStep, HearStep, StartRecordingStep,
     RecorderStopsStep, RecorderFailsStep, BeginSubmitStep, BeginSealStep, OtherSteps, LoadStep,
     SelectPartStep, PartArrivesStep, ReloadStep
     DEF Next, Student, Page, Server
<1>. QED BY <1>1, <1>2 DEF IInv

\* Only a commit changes what is stored.
LEMMA OlderSteps ==
    IInv /\ [Next]_vars =>
        \A q \in Questions : stored'[q].text < stored[q].text => q \in crossed'
<1>. SUFFICES ASSUME IInv, [Next]_vars, NEW q \in Questions, stored'[q].text < stored[q].text
              PROVE  q \in crossed'
  OBVIOUS
<1>1. stored[q].text \in Nat
  BY DEF IInv, TypeOK, Answers
<1>2. CASE \E r \in requests : HandlerCommits(r)
  BY <1>2, HandlerCommitsStep
<1>3. CASE ~\E r \in requests : HandlerCommits(r)
  <2>1. stored' = stored
    BY <1>3
       DEF Next, Student, Page, Server, vars, server, client, Edit, DebounceFires, HandlerLoads,
           Lose, Hear, StartRecording, RecorderStops, RecorderFails, BeginSubmit, FlushSettles,
           BeginSeal, Post, ServerSubmits, ServerSeals, LeavingFails, LeavingSucceeds, Load,
           LoadFindsOver, SelectPart, PartArrives, Reload, ResumeSpeaking, TimeUp, Sweep
  <2>. QED BY <1>1, <2>1
<1>. QED BY <1>2, <1>3

\* The invariant holds of every reachable state.
THEOREM ExamInvariant == Spec => []IInv
BY Initially, Steps, PTL DEF Spec

\* For any questions and bounds, the rows, the page and the requests are what the
\* handlers and the page write.
THEOREM ExamTypeCorrect == Spec => []TypeOK
<1>1. IInv => TypeOK
  BY DEF IInv
<1>. QED BY <1>1, ExamInvariant, PTL

\* However saves overtake each other, fail, outlive a page or lose their answers,
\* an answer the page shows and the server does not have is waiting, on its way,
\* being recorded, or has been reported.
THEOREM AnswersAreNotLostSilently == Spec => []NothingLostSilently
<1>1. IInv => NothingLostSilently
  BY DEF IInv, Kept
<1>. QED BY <1>1, ExamInvariant, PTL

\* In whatever order handlers load and commit, no older answer replaces a newer
\* one, unless answers crossed.
THEOREM AnswersGrowNewer == Spec => StoredNeverOlder
<1>1. IInv /\ [Next]_vars =>
        [\A q \in Questions : stored'[q].text < stored[q].text => q \in crossed']_vars
  BY OlderSteps
<1>. QED BY <1>1, ExamInvariant, PTL DEF Spec, StoredNeverOlder
=============================================================================
