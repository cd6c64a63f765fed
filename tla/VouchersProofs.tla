-------------------------- MODULE VouchersProofs --------------------------
(* Proofs about Vouchers, for any buyers and any number of codes.          *)
EXTENDS Vouchers, TLAPS

-----------------------------------------------------------------------------
(* The inductive invariant.  An order opens one purchase, once; what a     *)
(* request has read of a purchase's code can only have been cleared since, *)
(* so no write reaches the code of another.                                *)

Placed(p) == order[p].at \in {"posting", "ended"}

\* Purchase p names code c, or none any more.
NamesAtMost(p, c) == Placed(p) /\ purchase[p].code \in {c, None}

UnplacedIsEmpty == \A p \in Purchases : ~Placed(p) => purchase[p] = NoPurchase
OpenedIsOrdered == \A p \in Purchases : window[p] # "unopened" => purchase[p].ordered
EditsHaveCodes  == edit # NoEdit => edit.code \in Codes
ReleasesAgree   == \A p \in Purchases : \A r \in order[p].stale : NamesAtMost(r[2], r[1])
CallsAgree ==
    \A p \in Purchases : \A k \in Calls : call[p][k].at = "loaded" /\ call[p][k].code # None =>
        NamesAtMost(p, call[p][k].code)
VerifiesHaveCodes == \A p \in Purchases : call[p]["verify"].at = "loaded" => call[p]["verify"].code # None
\* A cancellation that read a code out of reach did so for good.
CancelsAgree ==
    \A p \in Purchases : \A k \in Cancellations : call[p][k].at = "loaded" =>
        /\ Placed(p)
        /\ call[p][k].code = None /\ purchase[p].code # None =>
               code[purchase[p].code].status # "reserved"

Requests == /\ UnplacedIsEmpty /\ OpenedIsOrdered /\ EditsHaveCodes /\ ReleasesAgree
            /\ CallsAgree /\ VerifiesHaveCodes /\ CancelsAgree

Inv == TypeOK /\ Requests /\ ReservedIsHeld

LEMMA InvInit == Init => Inv
  BY VouchersAssumption DEF Init, Inv, TypeOK, Requests, ReservedIsHeld, UnplacedIsEmpty,
     OpenedIsOrdered, EditsHaveCodes, ReleasesAgree, CallsAgree, VerifiesHaveCodes, CancelsAgree,
     Placed, NewCode, NoPurchase, NoCall, NoEdit, CodeRows, PurchaseRows, OrderStates, CallStates,
     EditStates, CodeStatuses, PurchaseStatuses, Calls, Cancellations

-----------------------------------------------------------------------------
(* Type correctness                                                        *)

LEMMA CodesExist == 1 \in Codes
  BY VouchersAssumption DEF Codes

\* The rows a handler writes are rows.
LEMMA RowTypes ==
    ASSUME TypeOK, NEW c \in Codes, NEW p \in Purchases
    PROVE  /\ Freed(code[c]) \in CodeRows /\ Sold(code[c]) \in CodeRows
           /\ Failed(purchase[p]) \in PurchaseRows /\ Completed(purchase[p]) \in PurchaseRows
           /\ Failed(purchase[p]).status = "failed"
           /\ Completed(purchase[p]).status = "completed"
           /\ Failed(purchase[p]).ordered = purchase[p].ordered
           /\ Completed(purchase[p]).ordered = purchase[p].ordered
  <1>1. Freed(code[c]) \in CodeRows
    BY ZenonT(60) DEF TypeOK, Freed, CodeRows, CodeStatuses
  <1>2. Sold(code[c]) \in CodeRows
    BY DEF TypeOK, Sold, CodeRows, CodeStatuses
  <1>3. Failed(purchase[p]) \in PurchaseRows
    BY ZenonT(60) DEF TypeOK, Failed, PurchaseRows, PurchaseStatuses
  <1>4. Completed(purchase[p]) \in PurchaseRows
    BY DEF TypeOK, Completed, PurchaseRows, PurchaseStatuses
  <1>5. Failed(purchase[p]).status = "failed" /\ Completed(purchase[p]).status = "completed"
    BY DEF TypeOK, Failed, Completed, PurchaseRows
  <1>6. Failed(purchase[p]).ordered = purchase[p].ordered
    BY DEF TypeOK, Failed, PurchaseRows
  <1>7. Completed(purchase[p]).ordered = purchase[p].ordered
    BY DEF TypeOK, Completed, PurchaseRows
  <1> QED BY <1>1, <1>2, <1>3, <1>4, <1>5, <1>6, <1>7

\* What a browser sends, and what a handler remembers, are calls.
LEMMA CallTypes ==
    ASSUME TypeOK, NEW p \in Purchases
    PROVE  /\ \A ks \in SUBSET Calls : Send(p, ks) => call' \in [Purchases -> [Calls -> CallStates]]
           /\ \A k \in Calls : Ends(p, k) => call' \in [Purchases -> [Calls -> CallStates]]
           /\ \A k \in Calls, c \in Codes \union {None} :
                  Read(p, k, c) => call' \in [Purchases -> [Calls -> CallStates]]
  <1>1. /\ NoCall \in CallStates /\ [NoCall EXCEPT !.at = "sent"] \in CallStates
        /\ \A c \in Codes \union {None} :
               [at |-> "loaded", code |-> c, saw |-> IF c = None THEN "none" ELSE code[c].status]
                   \in CallStates
    <2>1. \A c \in Codes : code[c].status \in CodeStatuses
      BY DEF TypeOK, CodeRows
    <2> QED BY <2>1 DEF NoCall, CallStates, CodeStatuses
  <1>2. \A ks \in SUBSET Calls : Send(p, ks) => call' \in [Purchases -> [Calls -> CallStates]]
    BY <1>1 DEF Send, TypeOK
  <1>3. \A k \in Calls : Ends(p, k) => call' \in [Purchases -> [Calls -> CallStates]]
    BY <1>1 DEF Ends, TypeOK
  <1>4. \A k \in Calls, c \in Codes \union {None} :
            Read(p, k, c) => call' \in [Purchases -> [Calls -> CallStates]]
    BY <1>1 DEF Read, TypeOK
  <1> QED BY <1>2, <1>3, <1>4

\* What was paid for was ordered before.
LEMMA PlacedWhenPaid ==
    ASSUME TypeOK, UnplacedIsEmpty, NEW p \in captured
    PROVE  Placed(p)
  BY DEF TypeOK, UnplacedIsEmpty, NoPurchase

LEMMA OrderTypes ==
    ASSUME TypeOK, UnplacedIsEmpty, NEW p \in Purchases,
           OrderLooks(p) \/ OrderReleases(p) \/ OrderReserves(p) \/ OrderRefused(p)
           \/ OrderOpened(p) \/ OrderUnreachable(p) \/ OrderAbandoned(p) \/ TimePasses(p)
    PROVE  TypeOK'
  <1>1. CASE OrderLooks(p)
    <2>1. {<<c, code[c].by>> : c \in StaleReservations} \in SUBSET (Codes \X Purchases)
      BY DEF StaleReservations, TypeOK, CodeRows
    <2> QED BY <1>1, <2>1 DEF OrderLooks, TypeOK, OrderStates
  <1>2. CASE OrderReleases(p)
    <2>1. \A c \in Codes : Freed(code[c]) \in CodeRows
      BY RowTypes
    <2>2. \A q \in Purchases : /\ Failed(purchase[q]) \in PurchaseRows
                               /\ Failed(purchase[q]).status = "failed"
                               /\ Failed(purchase[q]).ordered = purchase[q].ordered
      BY RowTypes, CodesExist
    <2>3. code' \in [Codes -> CodeRows]
      BY <1>2, <2>1 DEF OrderReleases, TypeOK
    <2>4. /\ purchase' \in [Purchases -> PurchaseRows]
          /\ \A q \in Purchases : purchase'[q] \in {purchase[q], Failed(purchase[q])}
      BY <1>2, <2>2 DEF OrderReleases, TypeOK
    <2>5. order' \in [Purchases -> OrderStates]
      BY <1>2 DEF OrderReleases, TypeOK, OrderStates
    <2>6. crossed' \in SUBSET Codes
      <3>1. order[p].stale \in SUBSET (Codes \X Purchases)
        BY DEF TypeOK, OrderStates
      <3> QED BY <1>2, <3>1 DEF OrderReleases, TypeOK
    <2>7. UNCHANGED <<window, captured, call, handed, edit, edits>>
      BY <1>2 DEF OrderReleases
    <2> QED BY <2>2, <2>3, <2>4, <2>5, <2>6, <2>7 DEF TypeOK
  <1>3. CASE OrderReserves(p)
    <2>1. PICK c \in Codes :
             /\ code' = [code EXCEPT ![c].status = "reserved", ![c].by = p]
             /\ purchase' = [purchase EXCEPT ![p] =
                    [status |-> "pending", code |-> c, ordered |-> FALSE, stale |-> FALSE]]
      BY <1>3 DEF OrderReserves
    <2>2. code' \in [Codes -> CodeRows]
      BY ZenonT(60), <2>1 DEF TypeOK, CodeRows, CodeStatuses
    <2>3. [status |-> "pending", code |-> c, ordered |-> FALSE, stale |-> FALSE] \in PurchaseRows
      BY DEF PurchaseRows, PurchaseStatuses
    <2>4. purchase' \in [Purchases -> PurchaseRows]
      BY <2>1, <2>3 DEF TypeOK
    <2>5. \A q \in Purchases : purchase'[q].status = "pending" => purchase'[q].code # None
      BY <2>1, VouchersAssumption DEF TypeOK, Codes
    <2>6. order' \in [Purchases -> OrderStates]
      BY SMTT(60), <1>3 DEF OrderReserves, TypeOK, OrderStates
    <2>7. \A q \in captured : purchase'[q].ordered
      <3>1. p \notin captured
        BY <1>3, PlacedWhenPaid DEF OrderReserves, Placed
      <3> QED BY <2>1, <3>1 DEF TypeOK
    <2> QED BY <1>3, <2>2, <2>4, <2>5, <2>6, <2>7 DEF OrderReserves, TypeOK
  <1>4. CASE OrderRefused(p)
    BY ZenonT(60), <1>4 DEF OrderRefused, TypeOK, OrderStates
  <1>5. CASE OrderOpened(p)
    <2>a. /\ purchase' = [purchase EXCEPT ![p].ordered = TRUE]
          /\ order' = [order EXCEPT ![p].at = "ended"]
      BY <1>5 DEF OrderOpened
    <2>1. purchase' \in [Purchases -> PurchaseRows]
      BY ZenonT(60), <2>a DEF TypeOK, PurchaseRows
    <2>2. \A q \in Purchases : /\ purchase'[q].status = purchase[q].status
                               /\ purchase'[q].code = purchase[q].code
      BY <2>a DEF TypeOK, PurchaseRows
    <2>3. \A q \in captured : purchase'[q].ordered
      BY <2>a DEF TypeOK, PurchaseRows
    <2>4. order' \in [Purchases -> OrderStates]
      <3>1. [order[p] EXCEPT !.at = "ended"] \in OrderStates
        BY DEF TypeOK, OrderStates
      <3> QED BY <2>a, <3>1 DEF TypeOK
    <2>5. window' \in [Purchases -> {"unopened", "open", "closed"}]
      BY <1>5 DEF OrderOpened, TypeOK
    <2> QED BY <1>5, <2>1, <2>2, <2>3, <2>4, <2>5 DEF OrderOpened, TypeOK
  <1>6. CASE OrderUnreachable(p)
    <2>1. \A c \in Codes : Freed(code[c]) \in CodeRows
      BY RowTypes
    <2>2. /\ Failed(purchase[p]) \in PurchaseRows /\ Failed(purchase[p]).status = "failed"
          /\ Failed(purchase[p]).ordered = purchase[p].ordered
      BY RowTypes, CodesExist
    <2>3. code' \in [Codes -> CodeRows]
      BY <1>6, <2>1 DEF OrderUnreachable, TypeOK
    <2>a. order' = [order EXCEPT ![p].at = "ended"]
      BY <1>6 DEF OrderUnreachable
    <2>4. order' \in [Purchases -> OrderStates]
      <3>1. [order[p] EXCEPT !.at = "ended"] \in OrderStates
        BY DEF TypeOK, OrderStates
      <3> QED BY <2>a, <3>1 DEF TypeOK
    <2>5. purchase' \in [Purchases -> PurchaseRows]
      BY <1>6, <2>2 DEF OrderUnreachable, TypeOK
    <2>6. \A q \in Purchases : purchase'[q].status = "pending" => purchase'[q].code # None
      BY <1>6, <2>2 DEF OrderUnreachable, TypeOK
    <2>7. \A q \in captured : purchase'[q].ordered
      BY <1>6, <2>2 DEF OrderUnreachable, TypeOK
    <2> QED BY <1>6, <2>3, <2>4, <2>5, <2>6, <2>7 DEF OrderUnreachable, TypeOK
  <1>7. CASE OrderAbandoned(p)
    BY ZenonT(60), <1>7 DEF OrderAbandoned, TypeOK, OrderStates
  <1>8. CASE TimePasses(p)
    BY ZenonT(60), <1>8 DEF TimePasses, TypeOK, PurchaseRows
  <1> QED BY <1>1, <1>2, <1>3, <1>4, <1>5, <1>6, <1>7, <1>8

LEMMA BrowserTypes ==
    ASSUME TypeOK, OpenedIsOrdered, NEW p \in Purchases, PaymentFails(p) \/ Dismiss(p) \/ Pay(p)
    PROVE  TypeOK'
  <1>1. call' \in [Purchases -> [Calls -> CallStates]]
    BY CallTypes DEF PaymentFails, Dismiss, Pay, Calls
  <1>2. CASE PaymentFails(p)
    BY <1>1, <1>2 DEF PaymentFails, TypeOK
  <1>3. CASE Dismiss(p)
    BY <1>1, <1>3 DEF Dismiss, TypeOK
  <1>4. CASE Pay(p)
    BY <1>1, <1>4 DEF Pay, TypeOK, OpenedIsOrdered
  <1> QED BY <1>2, <1>3, <1>4

\* A hand-over of a code that some request has read.
LEMMA HandOverTypes ==
    ASSUME TypeOK, NEW p \in Purchases, NEW c \in Codes, HandOver(p, c)
    PROVE  /\ code' \in [Codes -> CodeRows] /\ purchase' \in [Purchases -> PurchaseRows]
           /\ handed' \in SUBSET (Purchases \X Codes) /\ crossed' \in SUBSET Codes
           /\ \A q \in Purchases : purchase'[q].status = "pending" => purchase'[q].code # None
           /\ \A q \in Purchases : purchase'[q].ordered = purchase[q].ordered
  <1>1. Sold(code[c]) \in CodeRows /\ Completed(purchase[p]) \in PurchaseRows
        /\ Completed(purchase[p]).status = "completed"
        /\ Completed(purchase[p]).ordered = purchase[p].ordered
    BY RowTypes
  <1> QED BY <1>1 DEF HandOver, TypeOK

LEMMA HandlerTypes ==
    ASSUME TypeOK, VerifiesHaveCodes, NEW p \in Purchases, Handles(p)
    PROVE  TypeOK'
  <1>1. ASSUME NEW k \in Cancellations, CancelLooks(p, k) PROVE TypeOK'
    <2>1. k \in Calls /\ purchase[p].code \in Codes \union {None}
      BY DEF Cancellations, Calls, TypeOK, PurchaseRows
    <2>2. call' \in [Purchases -> [Calls -> CallStates]]
      BY <1>1, <2>1, CallTypes DEF CancelLooks
    <2> QED BY <1>1, <2>2 DEF CancelLooks, TypeOK
  <1>2. ASSUME NEW k \in Cancellations, CancelCommits(p, k) PROVE TypeOK'
    <2>1. k \in Calls /\ call[p][k].code \in Codes \union {None}
      BY DEF Cancellations, Calls, TypeOK, CallStates
    <2>2. call' \in [Purchases -> [Calls -> CallStates]]
      BY <1>2, <2>1, CallTypes DEF CancelCommits
    <2>3. code' \in [Codes -> CodeRows] /\ crossed' \in SUBSET Codes
      <3>1. \A c \in Codes : Freed(code[c]) \in CodeRows
        BY RowTypes
      <3> QED BY <1>2, <2>1, <3>1 DEF CancelCommits, TypeOK
    <2>4. /\ Failed(purchase[p]) \in PurchaseRows /\ Failed(purchase[p]).status = "failed"
          /\ Failed(purchase[p]).ordered = purchase[p].ordered
      BY RowTypes, CodesExist
    <2> QED BY <1>2, <2>2, <2>3, <2>4 DEF CancelCommits, TypeOK
  <1>3. CASE VerifyLooks(p)
    <2>1. "verify" \in Calls /\ purchase[p].code \in Codes \union {None}
      BY DEF Calls, TypeOK, PurchaseRows
    <2>2. call' \in [Purchases -> [Calls -> CallStates]]
      BY <1>3, <2>1, CallTypes DEF VerifyLooks
    <2> QED BY <1>3, <2>1, <2>2 DEF VerifyLooks, TypeOK
  <1>4. CASE VerifyCommits(p)
    <2>1. "verify" \in Calls /\ call[p]["verify"].code \in Codes
      BY <1>4 DEF VerifyCommits, Calls, TypeOK, CallStates, VerifiesHaveCodes
    <2>2. call' \in [Purchases -> [Calls -> CallStates]]
      BY <1>4, <2>1, CallTypes DEF VerifyCommits
    <2> QED BY <1>4, <2>1, <2>2, HandOverTypes DEF VerifyCommits, TypeOK
  <1>5. CASE WebhookLooks(p)
    <2>1. "webhook" \in Calls /\ purchase[p].code \in Codes \union {None}
      BY DEF Calls, TypeOK, PurchaseRows
    <2>2. call' \in [Purchases -> [Calls -> CallStates]]
      BY <1>5, <2>1 DEF WebhookLooks, NoCall, CallStates, PurchaseStatuses, TypeOK
    <2> QED BY <1>5, <2>2 DEF WebhookLooks, TypeOK
  <1>6. CASE WebhookCommits(p)
    <2>1. "webhook" \in Calls /\ call[p]["webhook"].code \in Codes \union {None}
      BY DEF Calls, TypeOK, CallStates
    <2>2. call' \in [Purchases -> [Calls -> CallStates]]
      <3>1. [NoCall EXCEPT !.at = "sent"] \in CallStates
        BY DEF NoCall, CallStates, PurchaseStatuses
      <3>2. CASE Ends(p, "webhook")
        BY <2>1, <3>2, CallTypes
      <3>3. CASE call' = [call EXCEPT ![p]["webhook"] = [NoCall EXCEPT !.at = "sent"]]
        BY <2>1, <3>1, <3>3 DEF TypeOK
      <3> QED BY <1>6, <3>2, <3>3 DEF WebhookCommits
    <2>3. CASE call[p]["webhook"].code # None /\ HandOver(p, call[p]["webhook"].code)
      BY <1>6, <2>1, <2>2, <2>3, HandOverTypes DEF WebhookCommits, TypeOK
    <2>4. CASE UNCHANGED <<code, purchase, handed, crossed>>
      BY <1>6, <2>2, <2>4 DEF WebhookCommits, TypeOK
    <2> QED BY <1>6, <2>3, <2>4 DEF WebhookCommits
  <1> QED BY <1>1, <1>2, <1>3, <1>4, <1>5, <1>6 DEF Handles

LEMMA AdminTypes ==
    ASSUME TypeOK, EditsHaveCodes,
           \/ \E c \in Codes : AddCode(c)
           \/ \E op \in {"disable", "enable", "delete"}, c \in Codes : EditLooks(op, c)
           \/ EditCommits
           \/ \E cs \in (SUBSET Codes) \ {{}} : DeleteCodes(cs)
    PROVE  TypeOK'
  <1>1. ASSUME NEW c \in Codes, AddCode(c) PROVE TypeOK'
    BY <1>1 DEF AddCode, TypeOK, CodeRows, CodeStatuses
  <1>2. ASSUME NEW op \in {"disable", "enable", "delete"}, NEW c \in Codes, EditLooks(op, c)
        PROVE TypeOK'
    <2>1. edits' \in 0..MaxEdits
      BY <1>2, VouchersAssumption DEF EditLooks, TypeOK
    <2>2. edit' \in EditStates
      BY <1>2 DEF EditLooks, TypeOK, EditStates, CodeRows
    <2> QED BY <1>2, <2>1, <2>2 DEF EditLooks, TypeOK
  <1>3. CASE EditCommits
    <2>1. edit.code \in Codes
      BY <1>3 DEF EditCommits, EditsHaveCodes
    <2> DEFINE status == IF edit.op = "enable" THEN "available" ELSE "disabled"
    <2>2. status \in CodeStatuses
      BY DEF CodeStatuses
    <2>3. code' = [code EXCEPT ![edit.code].status = status,
                               ![edit.code].deleted = @ \/ edit.op = "delete"]
      BY <1>3 DEF EditCommits
    <2> HIDE DEF status
    <2>4. code' \in [Codes -> CodeRows]
      BY <2>1, <2>2, <2>3 DEF TypeOK, CodeRows
    <2>5. NoEdit \in EditStates
      BY DEF NoEdit, EditStates
    <2> QED BY <1>3, <2>1, <2>4, <2>5 DEF EditCommits, TypeOK
  <1>4. ASSUME NEW cs \in SUBSET Codes, DeleteCodes(cs) PROVE TypeOK'
    <2>a. edits < MaxEdits /\ edits' = edits + 1
      BY <1>4 DEF DeleteCodes
    <2>1. edits' \in 0..MaxEdits
      BY <2>a, VouchersAssumption DEF TypeOK
    <2>2. \A c \in Codes :
             [code[c] EXCEPT !.status = "disabled", !.deleted = TRUE] \in CodeRows
      BY DEF TypeOK, CodeRows, CodeStatuses
    <2>3. code' \in [Codes -> CodeRows]
      BY <1>4, <2>2 DEF DeleteCodes, TypeOK
    <2> QED BY <1>4, <2>1, <2>3 DEF DeleteCodes, TypeOK
  <1> QED BY <1>1, <1>2, <1>3, <1>4

LEMMA TypeNext ==
    ASSUME TypeOK, Requests, [Next]_vars
    PROVE  TypeOK'
  <1>1. CASE UNCHANGED vars
    BY <1>1 DEF vars, TypeOK
  <1> QED BY <1>1, OrderTypes, BrowserTypes, HandlerTypes, AdminTypes DEF Next, Requests

-----------------------------------------------------------------------------
(* What a step does to purchases and codes                                 *)

\* A purchase never comes to name another code, and stays as it is until its
\* order is placed.
OnlyForgets ==
    \A q \in Purchases :
        /\ Placed(q) => Placed(q)' /\ purchase'[q].code \in {purchase[q].code, None}
        /\ ~Placed(q)' => purchase'[q] = purchase[q]
        /\ purchase[q].ordered => purchase'[q].ordered

\* Code c is reserved afterwards only for the purchase it was reserved for.
KeepsReserved(c) ==
    code'[c].status = "reserved" => code[c].status = "reserved" /\ code'[c].by = code[c].by

\* While code c stays reserved its holder keeps holding it.
KeepsHolder(c) ==
    \A q \in Purchases :
        /\ code[c].status = "reserved" /\ code'[c].status = "reserved" /\ code[c].by = q
        /\ purchase[q].status = "pending" /\ purchase[q].code = c
        => purchase'[q].status = "pending" /\ purchase'[q].code = c

Tame == OnlyForgets /\ \A c \in Codes : KeepsReserved(c) /\ KeepsHolder(c)

LEMMA QuietIsTame ==
    ASSUME TypeOK, UNCHANGED <<code, purchase, order>>
    PROVE  Tame
  BY DEF Tame, OnlyForgets, KeepsReserved, KeepsHolder, Placed

\* Only the code of an unreserved kind is written, and no purchase.
LEMMA CodesOnlyIsTame ==
    ASSUME TypeOK, UNCHANGED <<purchase, order>>,
           \A c \in Codes : code'[c] = code[c] \/ code'[c].status # "reserved"
    PROVE  Tame
  BY DEF Tame, OnlyForgets, KeepsReserved, KeepsHolder, Placed

\* Code c and purchase p are written together, and p named no other code.
LEMMA TogetherIsTame ==
    ASSUME TypeOK, NEW p \in Purchases, NEW c \in Codes, UNCHANGED order,
           NamesAtMost(p, c),
           code' = [code EXCEPT ![c] = Freed(@)] \/ code' = [code EXCEPT ![c] = Sold(@)],
           purchase' = [purchase EXCEPT ![p] = Failed(@)]
               \/ purchase' = [purchase EXCEPT ![p] = Completed(@)]
    PROVE  Tame
  <1>1. code'[c].status # "reserved" /\ \A d \in Codes \ {c} : code'[d] = code[d]
    <2>1. code'[c] \in {Freed(code[c]), Sold(code[c])} /\ \A d \in Codes \ {c} : code'[d] = code[d]
      BY DEF TypeOK
    <2>2. Freed(code[c]).status # "reserved" /\ Sold(code[c]).status # "reserved"
      BY DEF Freed, Sold, TypeOK, CodeRows
    <2> QED BY <2>1, <2>2
  <1>2. \A q \in Purchases \ {p} : purchase'[q] = purchase[q]
    BY DEF TypeOK
  <1>r. purchase[p] \in PurchaseRows /\ purchase'[p] \in {Failed(purchase[p]), Completed(purchase[p])}
    BY DEF TypeOK
  <1>3. purchase'[p].code \in {purchase[p].code, None}
    BY <1>r DEF PurchaseRows, Failed, Completed
  <1>4. purchase'[p].ordered = purchase[p].ordered
    BY <1>r, RowTypes
  <1>5. Placed(p)' /\ Placed(p) /\ \A q \in Purchases : Placed(q)' = Placed(q)
    BY DEF NamesAtMost, Placed
  <1>6. OnlyForgets
    BY <1>2, <1>3, <1>4, <1>5 DEF OnlyForgets
  <1>7. \A d \in Codes : KeepsReserved(d)
    BY <1>1 DEF KeepsReserved
  <1>8. ASSUME NEW d \in Codes PROVE KeepsHolder(d)
    <2>1. purchase[p].code # d \/ d = c
      BY VouchersAssumption DEF NamesAtMost, Codes
    <2> QED BY <1>1, <1>2, <2>1 DEF KeepsHolder
  <1> QED BY <1>6, <1>7, <1>8 DEF Tame

LEMMA OrderIsTame ==
    ASSUME TypeOK, Requests, NEW p \in Purchases,
           OrderLooks(p) \/ OrderReleases(p) \/ OrderRefused(p) \/ OrderOpened(p)
           \/ OrderUnreachable(p) \/ OrderAbandoned(p) \/ TimePasses(p)
    PROVE  Tame
  <1>p. \A q \in Purchases : Placed(q) => Placed(q)'
    BY DEF OrderLooks, OrderReleases, OrderRefused, OrderOpened, OrderUnreachable,
           OrderAbandoned, TimePasses, Placed, TypeOK, OrderStates
  <1>1. CASE OrderLooks(p) \/ OrderRefused(p) \/ OrderAbandoned(p)
    BY <1>1, <1>p DEF OrderLooks, OrderRefused, OrderAbandoned, Tame, OnlyForgets, KeepsReserved,
       KeepsHolder
  <1>2. CASE OrderReleases(p)
    <2> DEFINE freed == {r[1] : r \in order[p].stale}
               failed == {r[2] : r \in order[p].stale}
    <2>1. /\ code' = [c \in Codes |-> IF c \in freed THEN Freed(code[c]) ELSE code[c]]
          /\ purchase' = [q \in Purchases |-> IF q \in failed THEN Failed(purchase[q]) ELSE purchase[q]]
          /\ order' = [order EXCEPT ![p] = [at |-> "ready", stale |-> {}]]
          /\ order[p].at = "looked"
      BY <1>2 DEF OrderReleases
    <2>2. \A r \in order[p].stale : r[1] \in Codes /\ r[2] \in Purchases /\ NamesAtMost(r[2], r[1])
      BY DEF Requests, ReleasesAgree, TypeOK, OrderStates
    <2>3. \A q \in failed : Placed(q) /\ \E c \in freed : NamesAtMost(q, c)
      BY <2>2 DEF NamesAtMost
    <2>4. \A c \in Codes : c \in freed => code'[c].status # "reserved"
      BY ZenonT(60), <2>1 DEF TypeOK, CodeRows, Freed
    <2>5. \A c \in Codes : c \notin freed => code'[c] = code[c]
      BY <2>1
    <2>6. \A q \in Purchases : q \notin failed => purchase'[q] = purchase[q]
      BY <2>1
    <2>7. \A q \in Purchases : q \in failed => purchase'[q] = Failed(purchase[q])
      BY <2>1
    <2> HIDE DEF freed, failed
    <2>8. \A q \in Purchases : q \in failed => purchase'[q].code = None
      <3>1. \A q \in Purchases : Failed(purchase[q]).code = None
        BY DEF Failed, TypeOK, PurchaseRows
      <3> QED BY <2>7, <3>1
    <2>9. \A q \in Purchases : q \in failed => purchase'[q].ordered = purchase[q].ordered
      BY <2>7, RowTypes, CodesExist
    <2>10. OnlyForgets
      BY <1>p, <2>3, <2>6, <2>8, <2>9 DEF OnlyForgets
    <2>11. \A c \in Codes : KeepsReserved(c)
      BY <2>4, <2>5 DEF KeepsReserved
    <2>12. ASSUME NEW c \in Codes PROVE KeepsHolder(c)
      <3>1. \A q \in failed : purchase[q].code = c => c \in freed
        BY <2>3, VouchersAssumption DEF NamesAtMost, Codes
      <3> QED BY <3>1, <2>4, <2>6 DEF KeepsHolder
    <2> QED BY <2>10, <2>11, <2>12 DEF Tame
  <1>3. CASE OrderOpened(p) \/ TimePasses(p)
    <2>1. UNCHANGED code /\ Placed(p)
      BY <1>3 DEF OrderOpened, TimePasses, Placed
    <2>2. \/ purchase' = [purchase EXCEPT ![p].ordered = TRUE]
          \/ purchase' = [purchase EXCEPT ![p].stale = TRUE]
      BY <1>3 DEF OrderOpened, TimePasses
    <2>3. \A q \in Purchases \ {p} : purchase'[q] = purchase[q]
      BY <2>2 DEF TypeOK
    <2>4. purchase'[p].status = purchase[p].status /\ purchase'[p].code = purchase[p].code
      BY <2>2 DEF TypeOK, PurchaseRows
    <2>5. purchase[p].ordered => purchase'[p].ordered
      BY <2>2 DEF TypeOK, PurchaseRows
    <2> QED BY <1>p, <2>1, <2>3, <2>4, <2>5 DEF Tame, OnlyForgets, KeepsReserved, KeepsHolder
  <1>4. CASE OrderUnreachable(p)
    <2>1. /\ code' = [code EXCEPT ![purchase[p].code] = Freed(@)]
          /\ purchase' = [purchase EXCEPT ![p] = Failed(@)]
      BY <1>4 DEF OrderUnreachable
    <2>2. Placed(p)
      BY <1>4 DEF OrderUnreachable, Placed
    <2>3. \A q \in Purchases \ {p} : purchase'[q] = purchase[q]
      BY <2>1 DEF TypeOK
    <2>4. purchase'[p] = Failed(purchase[p])
      BY <2>1 DEF TypeOK
    <2>5. purchase'[p].code = None /\ purchase'[p].ordered = purchase[p].ordered
      BY <2>4, RowTypes, CodesExist DEF Failed, TypeOK, PurchaseRows
    <2>6. \A c \in Codes : c # purchase[p].code => code'[c] = code[c]
      BY <2>1 DEF TypeOK
    <2>7. \A c \in Codes : c = purchase[p].code => code'[c].status # "reserved"
      BY <2>1 DEF TypeOK, CodeRows, Freed
    <2>8. OnlyForgets
      BY <1>p, <2>2, <2>3, <2>5 DEF OnlyForgets
    <2>9. \A c \in Codes : KeepsReserved(c)
      BY <2>6, <2>7 DEF KeepsReserved
    <2>10. \A c \in Codes : KeepsHolder(c)
      BY <2>3, <2>7 DEF KeepsHolder
    <2> QED BY <2>8, <2>9, <2>10 DEF Tame
  <1> QED BY <1>1, <1>2, <1>3, <1>4

LEMMA HandlerIsTame ==
    ASSUME TypeOK, Requests, NEW p \in Purchases, Handles(p)
    PROVE  Tame
  <1>1. ASSUME NEW k \in Cancellations, CancelCommits(p, k) PROVE Tame
    <2>1. k \in Calls /\ call[p][k].at = "loaded" /\ UNCHANGED order
      BY <1>1 DEF CancelCommits, Cancellations, Calls
    <2>2. purchase' = [purchase EXCEPT ![p] = Failed(@)]
      BY <1>1 DEF CancelCommits
    <2>3. CASE call[p][k].code = None
      <3>1. UNCHANGED code
        BY <1>1, <2>3 DEF CancelCommits
      <3>2. Placed(p) /\ (purchase[p].code # None => code[purchase[p].code].status # "reserved")
        BY <2>1, <2>3 DEF Requests, CancelsAgree
      <3>3. \A q \in Purchases \ {p} : purchase'[q] = purchase[q]
        BY <2>2 DEF TypeOK
      <3>4. purchase'[p] = Failed(purchase[p])
        BY <2>2 DEF TypeOK
      <3>5. purchase'[p].code = None /\ purchase'[p].ordered = purchase[p].ordered
        BY <3>4, RowTypes, CodesExist DEF Failed, TypeOK, PurchaseRows
      <3>6. \A c \in Codes : c = purchase[p].code => code[c].status # "reserved"
        BY <3>2, VouchersAssumption DEF Codes
      <3>7. \A q \in Purchases : Placed(q)' = Placed(q)
        BY <2>1 DEF Placed
      <3> QED BY <3>1, <3>2, <3>3, <3>5, <3>6, <3>7 DEF Tame, OnlyForgets, KeepsReserved, KeepsHolder
    <2>4. CASE call[p][k].code # None
      <3>1. call[p][k].code \in Codes /\ NamesAtMost(p, call[p][k].code)
        BY <2>1, <2>4 DEF Requests, CallsAgree, TypeOK, CallStates
      <3>2. code' = [code EXCEPT ![call[p][k].code] = Freed(@)]
        BY <1>1, <2>4 DEF CancelCommits
      <3> QED BY <2>1, <2>2, <3>1, <3>2, TogetherIsTame
    <2> QED BY <2>3, <2>4
  <1>2. ASSUME NEW k \in Calls, call[p][k].at = "loaded", call[p][k].code # None,
               HandOver(p, call[p][k].code), UNCHANGED order
        PROVE  Tame
    <2>1. call[p][k].code \in Codes /\ NamesAtMost(p, call[p][k].code)
      BY <1>2 DEF Requests, CallsAgree, TypeOK, CallStates
    <2> QED BY <1>2, <2>1, TogetherIsTame DEF HandOver
  <1>3. CASE VerifyCommits(p)
    <2>1. "verify" \in Calls /\ call[p]["verify"].code # None
      BY <1>3 DEF VerifyCommits, Requests, VerifiesHaveCodes, Calls
    <2> QED BY <1>2, <1>3, <2>1 DEF VerifyCommits
  <1>4. CASE WebhookCommits(p)
    <2>1. "webhook" \in Calls
      BY DEF Calls
    <2> QED BY <1>2, <1>4, <2>1, QuietIsTame DEF WebhookCommits
  <1>5. ASSUME NEW k \in Cancellations, CancelLooks(p, k) PROVE Tame
    BY <1>5, QuietIsTame DEF CancelLooks
  <1>6. CASE VerifyLooks(p) \/ WebhookLooks(p)
    BY <1>6, QuietIsTame DEF VerifyLooks, WebhookLooks
  <1> QED BY <1>1, <1>3, <1>4, <1>5, <1>6 DEF Handles

LEMMA AdminIsTame ==
    ASSUME TypeOK, Requests,
           \/ \E c \in Codes : AddCode(c)
           \/ \E op \in {"disable", "enable", "delete"}, c \in Codes : EditLooks(op, c)
           \/ EditCommits
           \/ \E cs \in (SUBSET Codes) \ {{}} : DeleteCodes(cs)
    PROVE  Tame
  <1>1. ASSUME NEW c \in Codes, AddCode(c) PROVE Tame
    <2>1. \A d \in Codes : code'[d] = code[d] \/ code'[d].status # "reserved"
      BY <1>1 DEF AddCode, TypeOK, CodeRows
    <2> QED BY <1>1, <2>1, CodesOnlyIsTame DEF AddCode
  <1>2. ASSUME NEW op \in {"disable", "enable", "delete"}, NEW c \in Codes, EditLooks(op, c)
        PROVE  Tame
    BY <1>2, QuietIsTame DEF EditLooks
  <1>3. CASE EditCommits
    <2>1. edit.code \in Codes
      BY <1>3 DEF EditCommits, Requests, EditsHaveCodes
    <2>2. \A d \in Codes : code'[d] = code[d] \/ code'[d].status # "reserved"
      BY <1>3, <2>1 DEF EditCommits, TypeOK, CodeRows
    <2> QED BY <1>3, <2>2, CodesOnlyIsTame DEF EditCommits
  <1>4. ASSUME NEW cs \in SUBSET Codes, DeleteCodes(cs) PROVE Tame
    <2>1. \A d \in Codes : code'[d] = code[d] \/ code'[d].status # "reserved"
      <3>1. \A d \in Codes : [code[d] EXCEPT !.status = "disabled", !.deleted = TRUE].status # "reserved"
        BY DEF TypeOK, CodeRows
      <3> QED BY <1>4, <3>1 DEF DeleteCodes
    <2> QED BY <1>4, <2>1, CodesOnlyIsTame DEF DeleteCodes
  <1> QED BY <1>1, <1>2, <1>3, <1>4

LEMMA ReserveFacts ==
    ASSUME TypeOK, Requests, NEW p \in Purchases, OrderReserves(p)
    PROVE  /\ OnlyForgets
           /\ \E c \in Codes :
                /\ code' = [code EXCEPT ![c].status = "reserved", ![c].by = p]
                /\ purchase'[p].status = "pending" /\ purchase'[p].code = c
                /\ \A q \in Purchases : purchase[q].code # c
           /\ \A q \in Purchases \ {p} : purchase'[q] = purchase[q]
           /\ purchase[p] = NoPurchase /\ ~Placed(p)
  <1>1. PICK c \in Codes :
           /\ \A q \in Purchases : purchase[q].code # c
           /\ code' = [code EXCEPT ![c].status = "reserved", ![c].by = p]
           /\ purchase' = [purchase EXCEPT ![p] =
                  [status |-> "pending", code |-> c, ordered |-> FALSE, stale |-> FALSE]]
    BY DEF OrderReserves
  <1>2. order[p].at \in {"idle", "ready"} /\ order' = [order EXCEPT ![p].at = "posting"]
    BY DEF OrderReserves
  <1>3. ~Placed(p) /\ Placed(p)' /\ \A q \in Purchases \ {p} : Placed(q)' = Placed(q)
    BY <1>2 DEF Placed, TypeOK, OrderStates
  <1>4. purchase[p] = NoPurchase
    BY <1>3 DEF Requests, UnplacedIsEmpty
  <1>5. purchase'[p].status = "pending" /\ purchase'[p].code = c
    BY <1>1 DEF TypeOK
  <1>6. \A q \in Purchases \ {p} : purchase'[q] = purchase[q]
    BY <1>1 DEF TypeOK
  <1>7. OnlyForgets
    BY <1>3, <1>4, <1>6 DEF OnlyForgets, NoPurchase
  <1> QED BY <1>1, <1>3, <1>4, <1>5, <1>6, <1>7

LEMMA StepFacts ==
    ASSUME TypeOK, Requests, [Next]_vars
    PROVE  Tame \/ \E p \in Purchases : OrderReserves(p)
  <1>1. ASSUME NEW p \in Purchases, PaymentFails(p) \/ Dismiss(p) \/ Pay(p) PROVE Tame
    BY <1>1, QuietIsTame DEF PaymentFails, Dismiss, Pay
  <1>2. CASE UNCHANGED vars
    BY <1>2, QuietIsTame DEF vars
  <1> QED BY <1>1, <1>2, OrderIsTame, HandlerIsTame, AdminIsTame DEF Next

LEMMA PurchasesOnlyForget == TypeOK /\ Requests /\ [Next]_vars => OnlyForgets
  BY StepFacts, ReserveFacts DEF Tame

-----------------------------------------------------------------------------
(* The invariant is kept                                                   *)

\* What was read of a purchase's code stays true of it.
LEMMA NamesAtMostStays ==
    ASSUME OnlyForgets, NEW q \in Purchases, NEW c, NamesAtMost(q, c)
    PROVE  NamesAtMost(q, c)'
  BY DEF OnlyForgets, NamesAtMost

LEMMA ReservedIsHeldNext ==
    ASSUME TypeOK, Requests, ReservedIsHeld, [Next]_vars
    PROVE  ReservedIsHeld'
  <1> SUFFICES ASSUME NEW c \in Codes, code'[c].status = "reserved"
               PROVE  \E p \in Purchases : /\ code'[c].by = p
                                           /\ purchase'[p].status = "pending"
                                           /\ purchase'[p].code = c
    BY DEF ReservedIsHeld
  <1>1. CASE Tame
    <2>1. code[c].status = "reserved" /\ code'[c].by = code[c].by
      BY <1>1 DEF Tame, KeepsReserved
    <2>2. PICK p \in Purchases : /\ code[c].by = p
                                 /\ purchase[p].status = "pending" /\ purchase[p].code = c
      BY <2>1 DEF ReservedIsHeld
    <2> QED BY <1>1, <2>1, <2>2 DEF Tame, KeepsHolder
  <1>2. ASSUME NEW p \in Purchases, OrderReserves(p)
        PROVE  \E q \in Purchases : /\ code'[c].by = q
                                    /\ purchase'[q].status = "pending"
                                    /\ purchase'[q].code = c
    <2>1. PICK d \in Codes :
             /\ code' = [code EXCEPT ![d].status = "reserved", ![d].by = p]
             /\ purchase'[p].status = "pending" /\ purchase'[p].code = d
      BY <1>2, ReserveFacts
    <2>2. CASE c = d
      <3>1. code'[c].by = p
        BY <2>1, <2>2 DEF TypeOK, CodeRows
      <3> QED BY <2>1, <2>2, <3>1
    <2>3. CASE c # d
      <3>1. code'[c] = code[c]
        BY <2>1, <2>3 DEF TypeOK
      <3>2. PICK q \in Purchases : /\ code[c].by = q
                                   /\ purchase[q].status = "pending" /\ purchase[q].code = c
        BY <3>1 DEF ReservedIsHeld
      <3>3. q # p
        BY <1>2, <3>2, ReserveFacts DEF NoPurchase
      <3> QED BY <1>2, <3>1, <3>2, <3>3, ReserveFacts
    <2> QED BY <2>2, <2>3
  <1> QED BY <1>1, <1>2, StepFacts

LEMMA OrdersNext ==
    ASSUME TypeOK, Requests, ReservedIsHeld, [Next]_vars
    PROVE  UnplacedIsEmpty' /\ OpenedIsOrdered' /\ ReleasesAgree'
  <1>1. OnlyForgets
    BY PurchasesOnlyForget
  <1>2. UnplacedIsEmpty'
    BY <1>1 DEF OnlyForgets, UnplacedIsEmpty, Requests
  <1>3. OpenedIsOrdered'
    <2>1. ASSUME NEW p \in Purchases, OrderOpened(p) PROVE OpenedIsOrdered'
      <3>1. \A q \in Purchases \ {p} : window'[q] = window[q]
        BY <2>1 DEF OrderOpened, TypeOK
      <3>2. purchase'[p].ordered
        BY <2>1 DEF OrderOpened, TypeOK, PurchaseRows
      <3> QED BY <1>1, <3>1, <3>2 DEF OpenedIsOrdered, OnlyForgets, Requests
    <2>2. ASSUME NEW p \in Purchases, Dismiss(p) \/ Pay(p) PROVE OpenedIsOrdered'
      <3>1. window[p] # "unopened" /\ window' = [window EXCEPT ![p] = "closed"]
        BY <2>2 DEF Dismiss, Pay
      <3>2. \A q \in Purchases : window'[q] # "unopened" => window[q] # "unopened"
        BY <3>1 DEF TypeOK
      <3> QED BY <1>1, <3>2 DEF OpenedIsOrdered, OnlyForgets, Requests
    <2>3. CASE UNCHANGED window
      BY <1>1, <2>3 DEF OpenedIsOrdered, OnlyForgets, Requests
    <2> QED BY ZenonT(60), <2>1, <2>2, <2>3 DEF Next, vars, Handles, OrderLooks, OrderReleases, OrderReserves,
         OrderRefused, OrderUnreachable, OrderAbandoned, TimePasses, PaymentFails, CancelLooks,
         CancelCommits, VerifyLooks, VerifyCommits, WebhookLooks, WebhookCommits, AddCode,
         EditLooks, EditCommits, DeleteCodes
  <1>4. ReleasesAgree'
    <2>1. ASSUME NEW p \in Purchases, OrderLooks(p) PROVE ReleasesAgree'
      <3>1. /\ order'[p].stale = {<<c, code[c].by>> : c \in StaleReservations}
            /\ \A q \in Purchases \ {p} : order'[q] = order[q]
        BY <2>1 DEF OrderLooks, TypeOK
      <3>2. \A c \in StaleReservations : code[c].by \in Purchases /\ NamesAtMost(code[c].by, c)
        BY DEF StaleReservations, ReservedIsHeld, NamesAtMost, Requests, UnplacedIsEmpty, NoPurchase
      <3>3. \A r \in order'[p].stale : r[2] \in Purchases /\ NamesAtMost(r[2], r[1])
        BY <3>1, <3>2
      <3>4. \A q \in Purchases : \A r \in order'[q].stale : r[2] \in Purchases /\ NamesAtMost(r[2], r[1])
        BY SMTT(60), <3>1, <3>3 DEF Requests, ReleasesAgree, TypeOK, OrderStates
      <3> QED BY <1>1, <3>4, NamesAtMostStays DEF ReleasesAgree
    <2>2. CASE \A q \in Purchases : order'[q].stale \subseteq order[q].stale
      <3>1. \A q \in Purchases : \A r \in order'[q].stale : r[2] \in Purchases /\ NamesAtMost(r[2], r[1])
        BY <2>2 DEF Requests, ReleasesAgree, TypeOK, OrderStates
      <3> QED BY <1>1, <3>1, NamesAtMostStays DEF ReleasesAgree
    <2>3. ASSUME NEW p \in Purchases,
                 OrderReleases(p) \/ OrderReserves(p) \/ OrderRefused(p) \/ OrderOpened(p)
                 \/ OrderUnreachable(p) \/ OrderAbandoned(p)
          PROVE  \A q \in Purchases : order'[q].stale \subseteq order[q].stale
      <3>1. \/ order' = [order EXCEPT ![p] = [at |-> "ready", stale |-> {}]]
            \/ \E at \in {"posting", "idle", "ended"} : order' = [order EXCEPT ![p].at = at]
        BY <2>3 DEF OrderReleases, OrderReserves, OrderRefused, OrderOpened, OrderUnreachable,
                    OrderAbandoned
      <3> QED BY SMTT(60), <3>1 DEF TypeOK, OrderStates
    <2>4. CASE UNCHANGED order
      BY <2>2, <2>4
    <2> QED BY ZenonT(60), <2>1, <2>2, <2>3, <2>4 DEF Next, vars, Handles, TimePasses, PaymentFails, Dismiss, Pay,
         CancelLooks, CancelCommits, VerifyLooks, VerifyCommits, WebhookLooks, WebhookCommits, AddCode,
         EditLooks, EditCommits, DeleteCodes
  <1> QED BY <1>2, <1>3, <1>4

\* What a handler of purchase p may have just read.
FreshlyRead(p, k) ==
    /\ UNCHANGED <<code, purchase, order>>
    /\ call'[p][k].code # None => purchase[p].code = call'[p][k].code
    /\ k = "verify" => call'[p][k].code # None
    /\ k \in Cancellations =>
           /\ purchase[p].status = "pending"
           /\ call'[p][k].code = None => code[purchase[p].code].status # "reserved"
           /\ call'[p][k].code # None => call'[p][k].saw = "reserved"
    /\ k \notin Cancellations /\ call'[p][k].code # None => ~code[purchase[p].code].deleted

LEMMA SendsNothingLoaded ==
    ASSUME TypeOK, NEW p \in Purchases, NEW ks \in SUBSET Calls, Send(p, ks),
           NEW q \in Purchases, NEW j \in Calls, call'[q][j].at = "loaded"
    PROVE  call'[q][j] = call[q][j]
  BY DEF Send, TypeOK, NoCall

LEMMA HandlerReads ==
    ASSUME TypeOK, NEW p \in Purchases, Handles(p),
           NEW q \in Purchases, NEW j \in Calls, call'[q][j].at = "loaded"
    PROVE  call'[q][j] = call[q][j] \/ FreshlyRead(q, j)
  <1>1. ASSUME NEW k \in Calls, NEW row,
               call' = [call EXCEPT ![p][k] = row],
               row.at = "loaded" => FreshlyRead(p, k)
        PROVE  call'[q][j] = call[q][j] \/ FreshlyRead(q, j)
    <2>1. (q = p /\ j = k) \/ call'[q][j] = call[q][j]
      BY <1>1 DEF TypeOK
    <2>2. call'[p][k] = row
      BY <1>1 DEF TypeOK
    <2> QED BY <1>1, <2>1, <2>2
  <1>2. NoCall.at # "loaded" /\ [NoCall EXCEPT !.at = "sent"].at # "loaded"
    BY DEF NoCall
  <1>3. ASSUME NEW k \in Calls, Ends(p, k) PROVE call'[q][j] = call[q][j] \/ FreshlyRead(q, j)
    BY <1>1, <1>2, <1>3 DEF Ends
  <1>4. ASSUME NEW k \in Calls, NEW c \in Codes \union {None}, Read(p, k, c)
        PROVE  call'[p][k].code = c /\ (c # None => call'[p][k].saw = code[c].status)
    BY <1>4 DEF Read, TypeOK
  <1>c. Cancellations \subseteq Calls /\ "verify" \in Calls /\ "webhook" \in Calls
        /\ "verify" \notin Cancellations /\ "webhook" \notin Cancellations
        /\ purchase[p].code \in Codes \union {None}
    BY DEF Cancellations, Calls, TypeOK, PurchaseRows
  <1>5. ASSUME NEW k \in Cancellations, CancelLooks(p, k)
        PROVE  call'[q][j] = call[q][j] \/ FreshlyRead(q, j)
    <2>1. CASE purchase[p].status = "pending"
      <3> DEFINE c == IF code[purchase[p].code].status = "reserved" THEN purchase[p].code ELSE None
      <3>1. Read(p, k, c) /\ UNCHANGED <<code, purchase, order>>
        BY <1>5, <2>1 DEF CancelLooks
      <3>2. k \in Calls /\ c \in Codes \union {None}
        BY <1>c
      <3>3. call'[p][k].code = c /\ (c # None => call'[p][k].saw = code[c].status)
        BY <1>4, <3>1, <3>2
      <3>4. purchase[p].code # None
        BY <2>1 DEF TypeOK
      <3>5. FreshlyRead(p, k)
        BY <1>c, <2>1, <3>1, <3>3, <3>4 DEF FreshlyRead
      <3> QED BY <1>1, <3>1, <3>2, <3>5 DEF Read
    <2>2. CASE purchase[p].status # "pending"
      BY <1>5, <1>c, <1>3, <2>2 DEF CancelLooks
    <2> QED BY <2>1, <2>2
  <1>6. CASE VerifyLooks(p)
    <2>1. CASE Read(p, "verify", purchase[p].code) /\ Deliverable(purchase[p].code)
      <3>1. call'[p]["verify"].code = purchase[p].code
        BY <1>4, <1>c, <2>1
      <3>2. FreshlyRead(p, "verify")
        BY <1>6, <1>c, <2>1, <3>1 DEF FreshlyRead, VerifyLooks, Deliverable
      <3> QED BY <1>1, <1>c, <2>1, <3>2 DEF Read
    <2>2. CASE Ends(p, "verify")
      BY <1>3, <1>c, <2>2
    <2> QED BY <1>6, <2>1, <2>2 DEF VerifyLooks
  <1>7. CASE WebhookLooks(p)
    <2> DEFINE c == IF Deliverable(purchase[p].code) THEN purchase[p].code ELSE None
               row == [NoCall EXCEPT !.at = "loaded", !.code = c]
    <2>1. call' = [call EXCEPT ![p]["webhook"] = row] /\ UNCHANGED <<code, purchase, order>>
      BY <1>7 DEF WebhookLooks
    <2>2. row.code = c
      BY DEF NoCall
    <2>3. c # None => c = purchase[p].code /\ ~code[purchase[p].code].deleted
      BY DEF Deliverable
    <2> HIDE DEF c, row
    <2>4. call'[p]["webhook"] = row
      BY <1>c, <2>1 DEF TypeOK
    <2>5. FreshlyRead(p, "webhook")
      BY <1>c, <2>1, <2>2, <2>3, <2>4 DEF FreshlyRead
    <2> QED BY <1>1, <1>c, <2>1, <2>5
  <1>8. CASE VerifyCommits(p)
    BY <1>3, <1>8, <1>c DEF VerifyCommits
  <1>9. CASE WebhookCommits(p)
    <2>1. CASE Ends(p, "webhook")
      BY <1>3, <1>c, <2>1
    <2>2. CASE call' = [call EXCEPT ![p]["webhook"] = [NoCall EXCEPT !.at = "sent"]]
      BY <1>1, <1>2, <1>c, <2>2
    <2> QED BY <1>9, <2>1, <2>2 DEF WebhookCommits
  <1>10. ASSUME NEW k \in Cancellations, CancelCommits(p, k)
         PROVE  call'[q][j] = call[q][j] \/ FreshlyRead(q, j)
    BY <1>3, <1>10, <1>c DEF CancelCommits
  <1> QED BY <1>5, <1>6, <1>7, <1>8, <1>9, <1>10 DEF Handles

LEMMA CallsRead ==
    ASSUME TypeOK, [Next]_vars,
           NEW q \in Purchases, NEW j \in Calls, call'[q][j].at = "loaded"
    PROVE  call'[q][j] = call[q][j] \/ FreshlyRead(q, j)
  <1>1. ASSUME NEW p \in Purchases, PaymentFails(p) \/ Dismiss(p) \/ Pay(p)
        PROVE  call'[q][j] = call[q][j]
    BY <1>1, SendsNothingLoaded DEF PaymentFails, Dismiss, Pay, Calls
  <1> QED BY <1>1, HandlerReads DEF Next, vars, OrderLooks, OrderReleases, OrderReserves,
       OrderRefused, OrderOpened, OrderUnreachable, OrderAbandoned, TimePasses, AddCode, EditLooks,
       EditCommits, DeleteCodes

LEMMA CallsNext ==
    ASSUME TypeOK, Requests, [Next]_vars
    PROVE  CallsAgree' /\ VerifiesHaveCodes' /\ CancelsAgree'
  <1>1. OnlyForgets
    BY PurchasesOnlyForget
  <1>2. ASSUME NEW q \in Purchases, NEW j \in Calls, call'[q][j].at = "loaded", call'[q][j].code # None
        PROVE  Placed(q)' /\ purchase'[q].code \in {call'[q][j].code, None}
    <2>1. CASE call'[q][j] = call[q][j]
      <3>1. NamesAtMost(q, call[q][j].code)
        BY <1>2, <2>1 DEF Requests, CallsAgree
      <3> QED BY <1>1, <2>1, <3>1 DEF OnlyForgets, NamesAtMost
    <2>2. CASE FreshlyRead(q, j)
      <3>1. purchase[q].code # None /\ purchase'[q].code = call'[q][j].code
        BY <1>2, <2>2 DEF FreshlyRead
      <3>2. Placed(q)
        BY <3>1 DEF Requests, UnplacedIsEmpty, NoPurchase
      <3> QED BY <1>1, <3>1, <3>2 DEF OnlyForgets
    <2> QED BY <1>2, <2>1, <2>2, CallsRead
  <1>3. ASSUME NEW q \in Purchases, call'[q]["verify"].at = "loaded"
        PROVE  call'[q]["verify"].code # None
    <2>1. "verify" \in Calls
      BY DEF Calls
    <2> QED BY <1>3, <2>1, CallsRead DEF FreshlyRead, Requests, VerifiesHaveCodes
  <1>4. ASSUME NEW q \in Purchases, NEW j \in Cancellations, call'[q][j].at = "loaded"
        PROVE  /\ Placed(q)'
               /\ call'[q][j].code = None /\ purchase'[q].code # None =>
                      code'[purchase'[q].code].status # "reserved"
    <2>1. j \in Calls
      BY DEF Calls, Cancellations
    <2>2. CASE FreshlyRead(q, j)
      BY <1>4, <2>2 DEF FreshlyRead, Placed, Requests, UnplacedIsEmpty, NoPurchase
    <2>3. CASE call'[q][j] = call[q][j]
      <3>1. /\ Placed(q)
            /\ call[q][j].code = None /\ purchase[q].code # None =>
                   code[purchase[q].code].status # "reserved"
        BY <1>4, <2>3 DEF Requests, CancelsAgree
      <3>2. Placed(q)' /\ purchase'[q].code \in {purchase[q].code, None}
        BY <1>1, <3>1 DEF OnlyForgets
      <3>3. SUFFICES ASSUME call[q][j].code = None, purchase'[q].code # None
                     PROVE  code'[purchase[q].code].status # "reserved"
        BY <2>3, <3>2
      <3>4. purchase[q].code \in Codes /\ purchase'[q].code = purchase[q].code
        BY <3>2, <3>3 DEF TypeOK, PurchaseRows
      <3>5. code[purchase[q].code].status # "reserved"
        BY <3>1, <3>2, <3>3
      <3>6. CASE Tame
        BY <3>4, <3>5, <3>6 DEF Tame, KeepsReserved
      <3>7. ASSUME NEW p \in Purchases, OrderReserves(p)
            PROVE  code'[purchase[q].code].status # "reserved"
        <4>1. PICK c \in Codes : /\ code' = [code EXCEPT ![c].status = "reserved", ![c].by = p]
                                 /\ \A r \in Purchases : purchase[r].code # c
          BY <3>7, ReserveFacts
        <4>2. code'[purchase[q].code] = code[purchase[q].code]
          BY <3>4, <4>1 DEF TypeOK
        <4> QED BY <3>5, <4>2
      <3> QED BY <3>6, <3>7, StepFacts
    <2> QED BY <1>4, <2>1, <2>2, <2>3, CallsRead
  <1> QED BY <1>2, <1>3, <1>4 DEF CallsAgree, VerifiesHaveCodes, CancelsAgree, NamesAtMost

LEMMA EditsNext ==
    ASSUME TypeOK, Requests, [Next]_vars
    PROVE  EditsHaveCodes'
  <1>1. ASSUME NEW op \in {"disable", "enable", "delete"}, NEW c \in Codes, EditLooks(op, c)
        PROVE  EditsHaveCodes'
    BY <1>1 DEF EditLooks, EditsHaveCodes
  <1>2. CASE EditCommits
    BY <1>2 DEF EditCommits, EditsHaveCodes, NoEdit
  <1>3. CASE UNCHANGED edit
    BY <1>3 DEF EditsHaveCodes, Requests, NoEdit
  <1> QED BY ZenonT(60), <1>1, <1>2, <1>3 DEF Next, vars, Handles, OrderLooks, OrderReleases, OrderReserves,
       OrderRefused, OrderOpened, OrderUnreachable, OrderAbandoned, TimePasses, PaymentFails, Dismiss,
       Pay, CancelLooks, CancelCommits, VerifyLooks, VerifyCommits, WebhookLooks, WebhookCommits,
       AddCode, DeleteCodes

LEMMA InvNext == Inv /\ [Next]_vars => Inv'
  BY TypeNext, ReservedIsHeldNext, OrdersNext, CallsNext, EditsNext DEF Inv, Requests

LEMMA Invariance == Spec => []Inv
  BY InvInit, InvNext, PTL DEF Spec

-----------------------------------------------------------------------------
(* What is true of the sale of a code that no request wrote out of date    *)

Settlements == {"verify", "webhook"}

SoldStaysSold ==
    \A c \in Codes \ crossed : \A p \in Purchases : <<p, c>> \in handed /\ ~code[c].deleted =>
        code[c].status = "purchased" /\ code[c].by = p
OneBuyer ==
    \A c \in Codes \ crossed : \A p, q \in Purchases : <<p, c>> \in handed /\ <<q, c>> \in handed => p = q
\* A code that was sold and then deleted is settled for nobody who may come to hold it.
DeletedIsOut ==
    \A c \in Codes \ crossed : \A p, q \in Purchases : \A k \in Settlements :
        /\ <<p, c>> \in handed /\ code[c].deleted /\ q # p
        /\ call[q][k].at = "loaded" /\ call[q][k].code = c
        => code[c].by # q
PendingIsReserved ==
    \A p \in Purchases : \A c \in Codes \ crossed :
        purchase[p].status = "pending" /\ purchase[p].code = c =>
            code[c].status = "reserved" /\ code[c].by = p
CancelsSawReserved ==
    \A p \in Purchases : \A k \in Cancellations :
        call[p][k].at = "loaded" /\ call[p][k].code # None => call[p][k].saw = "reserved"
EditsSaw ==
    edit # NoEdit => /\ edit.op = "disable" => edit.saw = "available"
                     /\ edit.op = "enable" => edit.saw = "disabled"
                     /\ edit.op = "delete" => edit.saw # "reserved"
                     /\ edit.op \in {"disable", "enable", "delete"}
CompletedIsHanded ==
    \A p \in Purchases : purchase[p].status = "completed" /\ purchase[p].code # None =>
        <<p, purchase[p].code>> \in handed

Sale == /\ SoldStaysSold /\ OneBuyer /\ DeletedIsOut /\ PendingIsReserved
        /\ CancelsSawReserved /\ EditsSaw /\ CompletedIsHanded

\* What a step does to the sale of a code that is not out of date after it.
Claims(p, c) == purchase[p].status = "pending" /\ purchase[p].code = c

\* Nobody but p comes to claim the code, or to be handed it.
NoNews(c, ps) ==
    \A q \in Purchases \ ps : /\ Claims(q, c)' => Claims(q, c)
                              /\ <<q, c>> \in handed' => <<q, c>> \in handed

Stays(c) == code'[c] = code[c] /\ NoNews(c, {})

IsReserved(c, p) ==
    /\ code[c].status = "available" /\ ~Placed(p) /\ UNCHANGED <<handed, call>>
    /\ code'[c].status = "reserved" /\ code'[c].by = p /\ code'[c].deleted = code[c].deleted
    /\ NoNews(c, {p})

IsFreed(c, p) ==
    /\ code[c].status = "reserved" /\ code[c].by = p
    /\ code'[c].by = None /\ code'[c].deleted = code[c].deleted
    /\ ~Claims(p, c)' /\ NoNews(c, {})

IsSold(c, p) ==
    /\ code[c].by = p /\ \E k \in Settlements : call[p][k].at = "loaded" /\ call[p][k].code = c
    /\ code'[c].status = "purchased" /\ code'[c].by = p /\ code'[c].deleted = code[c].deleted
    /\ ~Claims(p, c)' /\ NoNews(c, {p})

IsEdited(c) ==
    /\ code[c].status # "reserved" /\ code'[c].by = code[c].by
    /\ (code[c].deleted => code'[c].deleted)
    /\ (~code'[c].deleted => code[c].status # "purchased")
    /\ NoNews(c, {}) /\ UNCHANGED call

SaleStep ==
    /\ crossed \subseteq crossed'
    /\ \A c \in Codes \ crossed' :
        \/ Stays(c) \/ IsEdited(c)
        \/ \E p \in Purchases : IsReserved(c, p) \/ IsFreed(c, p) \/ IsSold(c, p)

\* A purchase that is not being placed claims what it claimed.
LEMMA FailsOrCompletes ==
    ASSUME TypeOK, Requests, NEW p \in Purchases,
           \/ purchase' = [purchase EXCEPT ![p] = Failed(@)]
           \/ purchase' = [purchase EXCEPT ![p] = Completed(@)]
    PROVE  \A c \in Codes : /\ ~Claims(p, c)'
                            /\ \A q \in Purchases : Claims(q, c)' => Claims(q, c)
  <1>1. purchase'[p] \in {Failed(purchase[p]), Completed(purchase[p])}
        /\ \A q \in Purchases \ {p} : purchase'[q] = purchase[q]
    BY DEF TypeOK
  <1>2. purchase'[p].status # "pending"
    BY <1>1, RowTypes, CodesExist
  <1> QED BY <1>1, <1>2 DEF Claims

\* The code of a purchase that fails is freed, unless its row was out of date.
LEMMA FreeingStep ==
    ASSUME TypeOK, Requests, NEW p \in Purchases, NEW c \in Codes,
           code' = [code EXCEPT ![c] = Freed(@)],
           purchase' = [purchase EXCEPT ![p] = Failed(@)],
           crossed \subseteq crossed', OutOfDate(c, p, "reserved") => c \in crossed',
           UNCHANGED handed
    PROVE  SaleStep
  <1>1. \A d \in Codes : ~Claims(p, d)' /\ NoNews(d, {})
    BY FailsOrCompletes DEF NoNews
  <1>2. \A d \in Codes \ {c} : Stays(d)
    BY <1>1 DEF Stays, TypeOK
  <1>3. ASSUME c \notin crossed' PROVE IsFreed(c, p)
    <2>1. code'[c] = Freed(code[c])
      BY DEF TypeOK
    <2>2. code'[c].by = None /\ code'[c].deleted = code[c].deleted
      BY <2>1 DEF Freed, TypeOK, CodeRows
    <2> QED BY <1>1, <1>3, <2>2 DEF IsFreed, OutOfDate
  <1> QED BY <1>2, <1>3 DEF SaleStep

LEMMA HandingStep ==
    ASSUME TypeOK, Requests, NEW p \in Purchases, NEW k \in Settlements, NEW c \in Codes,
           call[p][k].at = "loaded", call[p][k].code = c, HandOver(p, c)
    PROVE  SaleStep
  <1>1. /\ code' = [code EXCEPT ![c] = Sold(@)]
        /\ purchase' = [purchase EXCEPT ![p] = Completed(@)]
        /\ handed' = handed \union {<<p, c>>}
        /\ crossed' = IF code[c].by # p THEN crossed \union {c} ELSE crossed
    BY DEF HandOver
  <1>2. \A d \in Codes : ~Claims(p, d)' /\ NoNews(d, {p})
    BY <1>1, FailsOrCompletes DEF NoNews
  <1>3. ASSUME NEW d \in Codes \ {c} PROVE Stays(d)
    <2>1. code'[d] = code[d]
      BY <1>1, <1>3 DEF TypeOK
    <2>2. <<p, d>> \in handed' => <<p, d>> \in handed
      BY <1>1, <1>3
    <2> QED BY <1>2, <2>1, <2>2 DEF Stays, NoNews
  <1>4. ASSUME c \notin crossed' PROVE IsSold(c, p)
    <2>1. code[c].by = p
      BY <1>1, <1>4
    <2>2. code'[c] = Sold(code[c])
      BY <1>1 DEF TypeOK
    <2>3. code'[c].status = "purchased" /\ code'[c].by = p /\ code'[c].deleted = code[c].deleted
      BY <2>1, <2>2 DEF Sold, TypeOK, CodeRows
    <2>4. \E j \in Settlements : call[p][j].at = "loaded" /\ call[p][j].code = c
      OBVIOUS
    <2>5. ~Claims(p, c)' /\ NoNews(c, {p})
      BY <1>2
    <2> QED BY <2>1, <2>3, <2>4, <2>5 DEF IsSold
  <1>5. crossed \subseteq crossed'
    BY <1>1
  <1> QED BY <1>3, <1>4, <1>5 DEF SaleStep

\* A step that leaves codes and purchases alone tells no buyer anything new.
LEMMA QuietStep ==
    ASSUME TypeOK, UNCHANGED <<code, purchase>>, crossed \subseteq crossed',
           \A p \in Purchases, c \in Codes : <<p, c>> \in handed' => <<p, c>> \in handed
    PROVE  SaleStep
  BY DEF SaleStep, Stays, NoNews, Claims

LEMMA OrderSaleStep ==
    ASSUME TypeOK, Requests, NEW p \in Purchases,
           OrderLooks(p) \/ OrderReleases(p) \/ OrderReserves(p) \/ OrderRefused(p)
           \/ OrderOpened(p) \/ OrderUnreachable(p) \/ OrderAbandoned(p) \/ TimePasses(p)
    PROVE  SaleStep
  <1>1. CASE OrderLooks(p) \/ OrderRefused(p) \/ OrderAbandoned(p)
    BY <1>1, QuietStep DEF OrderLooks, OrderRefused, OrderAbandoned
  <1>2. CASE OrderOpened(p) \/ TimePasses(p)
    <2>1. \/ purchase' = [purchase EXCEPT ![p].ordered = TRUE]
          \/ purchase' = [purchase EXCEPT ![p].stale = TRUE]
      BY <1>2 DEF OrderOpened, TimePasses
    <2>2. purchase'[p].status = purchase[p].status /\ purchase'[p].code = purchase[p].code
      BY <2>1 DEF TypeOK, PurchaseRows
    <2>3. \A q \in Purchases \ {p} : purchase'[q] = purchase[q]
      BY <2>1 DEF TypeOK
    <2>4. \A q \in Purchases : \A c \in Codes : Claims(q, c)' => Claims(q, c)
      BY <2>2, <2>3 DEF Claims
    <2> QED BY <1>2, <2>4 DEF OrderOpened, TimePasses, SaleStep, Stays, NoNews
  <1>3. CASE OrderUnreachable(p)
    <2>1. purchase[p].code \in Codes \union {None}
      BY DEF TypeOK, PurchaseRows
    <2>2. CASE purchase[p].code \in Codes
      BY <1>3, <2>2, FreeingStep DEF OrderUnreachable
    <2>3. CASE purchase[p].code = None
      <3>1. code' = code
        BY <1>3, <2>3, VouchersAssumption DEF OrderUnreachable, TypeOK, Codes
      <3>2. \A c \in Codes : NoNews(c, {})
        BY <1>3, FailsOrCompletes DEF OrderUnreachable, NoNews
      <3> QED BY <1>3, <3>1, <3>2 DEF OrderUnreachable, SaleStep, Stays
    <2> QED BY <2>1, <2>2, <2>3
  <1>4. CASE OrderReserves(p)
    <2>1. PICK c \in Codes :
             /\ FirstOnSale(c)
             /\ code' = [code EXCEPT ![c].status = "reserved", ![c].by = p]
             /\ purchase' = [purchase EXCEPT ![p] =
                    [status |-> "pending", code |-> c, ordered |-> FALSE, stale |-> FALSE]]
      BY <1>4 DEF OrderReserves
    <2>2. UNCHANGED <<handed, call, crossed>> /\ ~Placed(p)
      BY <1>4, ReserveFacts DEF OrderReserves
    <2>3. \A q \in Purchases \ {p} : purchase'[q] = purchase[q]
      BY <2>1 DEF TypeOK
    <2>4. purchase'[p].code = c
      BY <2>1 DEF TypeOK
    <2>5. IsReserved(c, p)
      <3>1. /\ code'[c].status = "reserved" /\ code'[c].by = p
            /\ code'[c].deleted = code[c].deleted
        BY <2>1 DEF TypeOK, CodeRows
      <3> QED BY <2>1, <2>2, <2>3, <3>1 DEF IsReserved, NoNews, Claims, FirstOnSale
    <2>6. \A d \in Codes \ {c} : Stays(d)
      BY <2>1, <2>2, <2>3, <2>4 DEF Stays, NoNews, Claims, TypeOK
    <2> QED BY <2>2, <2>5, <2>6 DEF SaleStep
  <1>5. CASE OrderReleases(p)
    <2> DEFINE freed  == {r[1] : r \in order[p].stale}
               failed == {r[2] : r \in order[p].stale}
    <2>1. /\ code' = [c \in Codes |-> IF c \in freed THEN Freed(code[c]) ELSE code[c]]
          /\ purchase' = [q \in Purchases |-> IF q \in failed THEN Failed(purchase[q]) ELSE purchase[q]]
          /\ crossed \subseteq crossed' /\ UNCHANGED handed
          /\ \A r \in order[p].stale : OutOfDate(r[1], r[2], "reserved") => r[1] \in crossed'
      BY <1>5 DEF OrderReleases
    <2>2. \A q \in Purchases : /\ q \in failed => purchase'[q].status # "pending"
                               /\ q \notin failed => purchase'[q] = purchase[q]
      BY <2>1, RowTypes, CodesExist
    <2>3. \A c \in Codes : NoNews(c, {})
      BY <2>1, <2>2 DEF NoNews, Claims
    <2>4. \A c \in Codes : c \notin freed => Stays(c)
      BY <2>1, <2>3 DEF Stays
    <2>5. ASSUME NEW c \in Codes, c \in freed, c \notin crossed'
          PROVE  \E q \in Purchases : IsFreed(c, q)
      <3>1. PICK r \in order[p].stale : r[1] = c
        BY <2>5
      <3>2. r[2] \in Purchases
        BY DEF TypeOK, OrderStates
      <3>3. code[c].by = r[2] /\ code[c].status = "reserved"
        BY <2>1, <2>5, <3>1 DEF OutOfDate
      <3>4. code'[c] = Freed(code[c])
        BY <2>1, <2>5
      <3>5. code'[c].by = None /\ code'[c].deleted = code[c].deleted
        BY <3>4 DEF Freed, TypeOK, CodeRows
      <3>6. ~Claims(r[2], c)'
        BY <2>2, <3>2 DEF Claims
      <3> QED BY <2>3, <3>2, <3>3, <3>5, <3>6 DEF IsFreed
    <2> QED BY <2>1, <2>4, <2>5 DEF SaleStep
  <1> QED BY <1>1, <1>2, <1>3, <1>4, <1>5

LEMMA HandlerSaleStep ==
    ASSUME TypeOK, Requests, Sale, NEW p \in Purchases, Handles(p)
    PROVE  SaleStep
  <1>c. Settlements \subseteq Calls /\ Cancellations \subseteq Calls
        /\ \A k \in Calls : call[p][k].code \in Codes \union {None}
    BY DEF Settlements, Cancellations, Calls, TypeOK, CallStates
  <1>1. ASSUME NEW k \in Cancellations, CancelLooks(p, k) PROVE SaleStep
    BY <1>1, QuietStep DEF CancelLooks
  <1>2. CASE WebhookLooks(p)
    BY <1>2, QuietStep DEF WebhookLooks
  <1>3. CASE VerifyLooks(p)
    <2>1. purchase[p].code # None /\ purchase[p].status = "completed" =>
              <<p, purchase[p].code>> \in handed
      BY DEF Sale, CompletedIsHanded
    <2>2. handed' = handed /\ UNCHANGED <<code, purchase, crossed>>
      BY <1>3, <2>1 DEF VerifyLooks
    <2> QED BY <2>2, QuietStep
  <1>4. ASSUME NEW k \in Cancellations, CancelCommits(p, k) PROVE SaleStep
    <2>1. /\ purchase' = [purchase EXCEPT ![p] = Failed(@)] /\ UNCHANGED handed
          /\ call[p][k].at = "loaded"
      BY <1>4 DEF CancelCommits
    <2>2. CASE call[p][k].code = None
      <3>1. UNCHANGED <<code, crossed>>
        BY <1>4, <2>2 DEF CancelCommits
      <3> QED BY <2>1, <3>1, FailsOrCompletes DEF SaleStep, Stays, NoNews
    <2>3. CASE call[p][k].code # None
      <3>1. call[p][k].code \in Codes /\ call[p][k].saw = "reserved"
        BY <1>c, <2>1, <2>3 DEF Sale, CancelsSawReserved
      <3>2. /\ code' = [code EXCEPT ![call[p][k].code] = Freed(@)]
            /\ crossed' = IF OutOfDate(call[p][k].code, p, call[p][k].saw)
                          THEN crossed \union {call[p][k].code} ELSE crossed
        BY <1>4, <2>3 DEF CancelCommits
      <3> QED BY <2>1, <3>1, <3>2, FreeingStep
    <2> QED BY <2>2, <2>3
  <1>5. CASE VerifyCommits(p)
    <2>1. call[p]["verify"].at = "loaded" /\ HandOver(p, call[p]["verify"].code)
      BY <1>5 DEF VerifyCommits
    <2>2. "verify" \in Settlements /\ \E c \in Codes : call[p]["verify"].code = c
      BY <1>c, <2>1 DEF Requests, VerifiesHaveCodes, Settlements
    <2> QED BY <2>1, <2>2, HandingStep
  <1>6. CASE WebhookCommits(p)
    <2>1. CASE call[p]["webhook"].code # None /\ HandOver(p, call[p]["webhook"].code)
      <3>1. "webhook" \in Settlements /\ call[p]["webhook"].at = "loaded"
        BY <1>6 DEF Settlements, WebhookCommits
      <3> QED BY <1>c, <2>1, <3>1, HandingStep
    <2>2. CASE UNCHANGED <<code, purchase, handed, crossed>>
      BY <2>2, QuietStep
    <2> QED BY <1>6, <2>1, <2>2 DEF WebhookCommits
  <1> QED BY <1>1, <1>2, <1>3, <1>4, <1>5, <1>6 DEF Handles

LEMMA AdminSaleStep ==
    ASSUME TypeOK, Requests, Sale,
           \/ \E c \in Codes : AddCode(c)
           \/ \E op \in {"disable", "enable", "delete"}, c \in Codes : EditLooks(op, c)
           \/ EditCommits
           \/ \E cs \in (SUBSET Codes) \ {{}} : DeleteCodes(cs)
    PROVE  SaleStep
  <1>1. ASSUME UNCHANGED <<purchase, handed>> PROVE \A c \in Codes : NoNews(c, {})
    BY <1>1 DEF NoNews, Claims
  <1>2. ASSUME NEW c \in Codes, AddCode(c) PROVE SaleStep
    <2>1. /\ code' = [code EXCEPT ![c].status = "available"] /\ code[c].status = "absent"
          /\ UNCHANGED <<purchase, handed, call, crossed>>
      BY <1>2 DEF AddCode
    <2>2. code'[c].by = code[c].by /\ code'[c].deleted = code[c].deleted
      BY <2>1 DEF TypeOK, CodeRows
    <2>3. IsEdited(c)
      BY <1>1, <2>1, <2>2 DEF IsEdited
    <2>4. \A d \in Codes \ {c} : Stays(d)
      BY <1>1, <2>1 DEF Stays, TypeOK
    <2> QED BY <2>1, <2>3, <2>4 DEF SaleStep
  <1>3. ASSUME NEW op \in {"disable", "enable", "delete"}, NEW c \in Codes, EditLooks(op, c)
        PROVE  SaleStep
    BY <1>3, QuietStep DEF EditLooks
  <1>4. CASE EditCommits
    <2> DEFINE status == IF edit.op = "enable" THEN "available" ELSE "disabled"
    <2>0. edit # NoEdit /\ edit.code \in Codes
      BY <1>4 DEF EditCommits, Requests, EditsHaveCodes
    <2>c. PICK c \in Codes : c = edit.code
      BY <2>0
    <2>1. /\ code' = [code EXCEPT ![c].status = status, ![c].deleted = @ \/ edit.op = "delete"]
          /\ crossed' = IF code[c].status # edit.saw THEN crossed \union {c} ELSE crossed
          /\ UNCHANGED <<purchase, handed, call>>
      BY <1>4, <2>c DEF EditCommits
    <2> HIDE DEF status
    <2>2. ASSUME c \notin crossed' PROVE IsEdited(c)
      <3>1. code[c].status = edit.saw
        BY <2>1, <2>2
      <3>2. edit.saw # "reserved" /\ (edit.op # "delete" => edit.saw # "purchased")
        BY <2>0 DEF Sale, EditsSaw
      <3>3. code'[c].by = code[c].by /\ code'[c].deleted = (code[c].deleted \/ edit.op = "delete")
        BY <2>1 DEF TypeOK, CodeRows
      <3> QED BY <1>1, <2>1, <3>1, <3>2, <3>3 DEF IsEdited
    <2>3. \A d \in Codes \ {c} : Stays(d)
      BY <1>1, <2>1 DEF Stays, TypeOK
    <2> QED BY <2>1, <2>2, <2>3 DEF SaleStep
  <1>5. ASSUME NEW cs \in SUBSET Codes, DeleteCodes(cs) PROVE SaleStep
    <2> DEFINE gone(c) == c \in cs /\ ~code[c].deleted /\ code[c].status \notin {"absent", "reserved"}
    <2>1. /\ code' = [c \in Codes |-> IF gone(c)
                          THEN [code[c] EXCEPT !.status = "disabled", !.deleted = TRUE] ELSE code[c]]
          /\ UNCHANGED <<purchase, handed, call, crossed>>
      BY <1>5 DEF DeleteCodes
    <2>2. ASSUME NEW c \in Codes, gone(c) PROVE IsEdited(c)
      <3>1. code'[c] = [code[c] EXCEPT !.status = "disabled", !.deleted = TRUE]
        BY <2>1, <2>2
      <3>2. code'[c].by = code[c].by /\ code'[c].deleted
        BY <3>1 DEF TypeOK, CodeRows
      <3> QED BY <1>1, <2>1, <2>2, <3>2 DEF IsEdited
    <2>3. ASSUME NEW c \in Codes, ~gone(c) PROVE Stays(c)
      BY <1>1, <2>1, <2>3 DEF Stays
    <2> QED BY <2>1, <2>2, <2>3 DEF SaleStep
  <1> QED BY <1>2, <1>3, <1>4, <1>5

LEMMA SaleSteps ==
    ASSUME TypeOK, Requests, Sale, [Next]_vars
    PROVE  SaleStep
  <1>1. ASSUME NEW p \in Purchases, PaymentFails(p) \/ Dismiss(p) \/ Pay(p) PROVE SaleStep
    BY <1>1, QuietStep DEF PaymentFails, Dismiss, Pay
  <1>2. CASE UNCHANGED vars
    BY <1>2, QuietStep DEF vars
  <1> QED BY <1>1, <1>2, OrderSaleStep, HandlerSaleStep, AdminSaleStep DEF Next

\* A call that has read the code of a purchase that is not its own after it was
\* sold and deleted has read it earlier.
LEMMA SettlesAsBefore ==
    ASSUME TypeOK, [Next]_vars, NEW q \in Purchases, NEW k \in Settlements, NEW c \in Codes,
           call'[q][k].at = "loaded", call'[q][k].code = c,
           code'[c].deleted
    PROVE  call'[q][k] = call[q][k]
  <1>1. k \in Calls /\ k \notin Cancellations
    BY DEF Settlements, Calls, Cancellations
  <1>2. c # None
    BY VouchersAssumption DEF Codes
  <1> QED BY <1>1, <1>2, CallsRead DEF FreshlyRead

LEMMA SoldNext ==
    ASSUME TypeOK, Requests, Sale, [Next]_vars
    PROVE  SoldStaysSold' /\ OneBuyer'
  <1>1. ASSUME NEW c \in Codes, c \notin crossed',
               NEW p \in Purchases, <<p, c>> \in handed', ~code'[c].deleted
        PROVE  code'[c].status = "purchased" /\ code'[c].by = p
    <2>0. c \notin crossed
      BY <1>1, SaleSteps DEF SaleStep
    <2>1. CASE Stays(c)
      BY <1>1, <2>0, <2>1 DEF Stays, NoNews, Sale, SoldStaysSold
    <2>2. CASE IsEdited(c)
      BY <1>1, <2>0, <2>2 DEF IsEdited, NoNews, Sale, SoldStaysSold
    <2>3. ASSUME NEW q \in Purchases, IsReserved(c, q) PROVE FALSE
      BY <1>1, <2>0, <2>3 DEF IsReserved, Sale, SoldStaysSold
    <2>4. ASSUME NEW q \in Purchases, IsFreed(c, q) PROVE FALSE
      BY <1>1, <2>0, <2>4 DEF IsFreed, NoNews, Sale, SoldStaysSold
    <2>5. ASSUME NEW q \in Purchases, IsSold(c, q)
          PROVE  code'[c].status = "purchased" /\ code'[c].by = p
      BY <1>1, <2>0, <2>5 DEF IsSold, NoNews, Sale, SoldStaysSold
    <2> QED BY <1>1, <2>1, <2>2, <2>3, <2>4, <2>5, SaleSteps DEF SaleStep
  <1>2. ASSUME NEW c \in Codes, c \notin crossed', NEW p \in Purchases, NEW q \in Purchases,
               <<p, c>> \in handed', <<q, c>> \in handed', p # q
        PROVE  FALSE
    <2>0. c \notin crossed
      BY <1>2, SaleSteps DEF SaleStep
    <2>1. ASSUME <<p, c>> \in handed, <<q, c>> \in handed PROVE FALSE
      BY <1>2, <2>0, <2>1 DEF Sale, OneBuyer
    <2>2. ASSUME NEW r \in Purchases, IsSold(c, r), NEW s \in Purchases, <<s, c>> \in handed, s # r
          PROVE  FALSE
      <3>1. code[c].by = r
        BY <2>2 DEF IsSold
      <3>2. PICK k \in Settlements : call[r][k].at = "loaded" /\ call[r][k].code = c
        BY <2>2 DEF IsSold
      <3>3. CASE code[c].deleted
        BY <2>0, <2>2, <3>1, <3>2, <3>3 DEF Sale, DeletedIsOut
      <3>4. CASE ~code[c].deleted
        BY <2>0, <2>2, <3>1, <3>4 DEF Sale, SoldStaysSold
      <3> QED BY <3>3, <3>4
    <2>3. ASSUME NEW r \in Purchases, IsSold(c, r) PROVE FALSE
      BY <1>2, <2>2, <2>3 DEF IsSold, NoNews
    <2>4. CASE Stays(c) \/ IsEdited(c) \/ \E r \in Purchases : IsReserved(c, r) \/ IsFreed(c, r)
      BY <1>2, <2>1, <2>4 DEF Stays, IsEdited, IsReserved, IsFreed, NoNews
    <2> QED BY <1>2, <2>3, <2>4, SaleSteps DEF SaleStep
  <1>3. SoldStaysSold'
    BY <1>1 DEF SoldStaysSold
  <1>4. OneBuyer'
    BY <1>2 DEF OneBuyer
  <1> QED BY <1>3, <1>4

LEMMA DeletedNext ==
    ASSUME TypeOK, Requests, Sale, [Next]_vars
    PROVE  DeletedIsOut'
  <1> SUFFICES ASSUME NEW c \in Codes, c \notin crossed',
                      NEW p \in Purchases, NEW q \in Purchases, NEW k \in Settlements,
                      <<p, c>> \in handed', code'[c].deleted, q # p,
                      call'[q][k].at = "loaded", call'[q][k].code = c
               PROVE  code'[c].by # q
    BY DEF DeletedIsOut
  <1>0. c \notin crossed
    BY SaleSteps DEF SaleStep
  <1>1. call[q][k].at = "loaded" /\ call[q][k].code = c
    BY SettlesAsBefore
  <1>2. ASSUME <<p, c>> \in handed, code[c].deleted PROVE code[c].by # q
    BY <1>0, <1>1, <1>2 DEF Sale, DeletedIsOut
  <1>3. CASE Stays(c)
    BY <1>2, <1>3 DEF Stays, NoNews
  <1>4. CASE IsEdited(c)
    <2>1. <<p, c>> \in handed /\ code'[c].by = code[c].by
      BY <1>4 DEF IsEdited, NoNews
    <2>2. CASE code[c].deleted
      BY <1>2, <2>1, <2>2
    <2>3. CASE ~code[c].deleted
      BY <1>0, <2>1, <2>3 DEF Sale, SoldStaysSold
    <2> QED BY <2>2, <2>3
  <1>5. ASSUME NEW r \in Purchases, IsReserved(c, r) PROVE code'[c].by # q
    <2>1. k \in Calls /\ c # None
      BY VouchersAssumption DEF Settlements, Calls, Codes
    <2>2. Placed(q)
      BY <1>1, <2>1 DEF Requests, CallsAgree, NamesAtMost
    <2> QED BY <1>5, <2>2 DEF IsReserved
  <1>6. ASSUME NEW r \in Purchases, IsFreed(c, r) PROVE code'[c].by # q
    BY <1>6, VouchersAssumption DEF IsFreed
  <1>7. ASSUME NEW r \in Purchases, IsSold(c, r) PROVE code'[c].by # q
    <2>1. code[c].by = r /\ code'[c].by = r /\ code[c].deleted
      BY <1>7 DEF IsSold
    <2>2. CASE r = p
      BY <2>1, <2>2
    <2>3. CASE r # p
      <3>1. <<p, c>> \in handed
        BY <1>7, <2>3 DEF IsSold, NoNews
      <3> QED BY <1>2, <2>1, <3>1
    <2> QED BY <2>2, <2>3
  <1> QED BY <1>3, <1>4, <1>5, <1>6, <1>7, SaleSteps DEF SaleStep

LEMMA PendingNext ==
    ASSUME TypeOK, Requests, Sale, [Next]_vars
    PROVE  PendingIsReserved'
  <1> SUFFICES ASSUME NEW c \in Codes, c \notin crossed', NEW p \in Purchases, Claims(p, c)'
               PROVE  code'[c].status = "reserved" /\ code'[c].by = p
    BY DEF PendingIsReserved, Claims
  <1>0. c \notin crossed
    BY SaleSteps DEF SaleStep
  <1>1. ASSUME Claims(p, c) PROVE code[c].status = "reserved" /\ code[c].by = p
    BY <1>0, <1>1 DEF Claims, Sale, PendingIsReserved
  <1>2. CASE Stays(c) \/ IsEdited(c)
    BY <1>1, <1>2 DEF Stays, IsEdited, NoNews
  <1>3. ASSUME NEW r \in Purchases, IsReserved(c, r)
        PROVE  code'[c].status = "reserved" /\ code'[c].by = p
    BY <1>1, <1>3 DEF IsReserved, NoNews
  <1>4. ASSUME NEW r \in Purchases, IsFreed(c, r) \/ IsSold(c, r) PROVE FALSE
    BY <1>1, <1>4 DEF IsFreed, IsSold, NoNews
  <1> QED BY <1>2, <1>3, <1>4, SaleSteps DEF SaleStep

LEMMA CancelsNext ==
    ASSUME TypeOK, Sale, [Next]_vars
    PROVE  CancelsSawReserved'
  <1>1. Cancellations \subseteq Calls
    BY DEF Cancellations, Calls
  <1> QED BY <1>1, CallsRead DEF FreshlyRead, CancelsSawReserved, Sale

LEMMA EditsSawNext ==
    ASSUME TypeOK, Sale, [Next]_vars
    PROVE  EditsSaw'
  <1>1. ASSUME NEW op \in {"disable", "enable", "delete"}, NEW c \in Codes, EditLooks(op, c)
        PROVE  EditsSaw'
    BY <1>1 DEF EditLooks, EditsSaw
  <1>2. CASE EditCommits
    BY <1>2 DEF EditCommits, EditsSaw
  <1>3. CASE UNCHANGED edit
    BY <1>3 DEF EditsSaw, Sale
  <1> QED BY ZenonT(60), <1>1, <1>2, <1>3 DEF Next, vars, Handles, OrderLooks, OrderReleases, OrderReserves,
       OrderRefused, OrderOpened, OrderUnreachable, OrderAbandoned, TimePasses, PaymentFails, Dismiss,
       Pay, CancelLooks, CancelCommits, VerifyLooks, VerifyCommits, WebhookLooks, WebhookCommits,
       AddCode, DeleteCodes

\* Purchases are completed by HandOver alone, which tells their buyer.
LEMMA CompletedNext ==
    ASSUME TypeOK, Requests, Sale, [Next]_vars
    PROVE  CompletedIsHanded'
  <1> DEFINE Known(q) == purchase'[q].status = "completed" /\ purchase'[q].code # None =>
                             <<q, purchase'[q].code>> \in handed'
  <1>1. ASSUME NEW q \in Purchases, handed \subseteq handed',
               purchase'[q].status = "completed" /\ purchase'[q].code # None =>
                   purchase[q].status = "completed" /\ purchase[q].code = purchase'[q].code
        PROVE  Known(q)
    BY <1>1 DEF Sale, CompletedIsHanded
  <1>2. ASSUME NEW p \in Purchases, NEW k \in Calls, call[p][k].at = "loaded",
               call[p][k].code # None, HandOver(p, call[p][k].code)
        PROVE  \A q \in Purchases : Known(q)
    <2>1. /\ purchase' = [purchase EXCEPT ![p] = Completed(@)]
          /\ handed' = handed \union {<<p, call[p][k].code>>}
      BY <1>2 DEF HandOver
    <2>2. \A q \in Purchases \ {p} : purchase'[q] = purchase[q]
      BY <2>1 DEF TypeOK
    <2>3. purchase'[p] = Completed(purchase[p])
      BY <2>1 DEF TypeOK
    <2>4. purchase'[p].code = purchase[p].code
      BY <2>3 DEF Completed, TypeOK, PurchaseRows
    <2>5. purchase[p].code \in {call[p][k].code, None}
      BY <1>2 DEF Requests, CallsAgree, NamesAtMost
    <2>6. Known(p)
      BY <2>1, <2>4, <2>5
    <2> QED BY <1>1, <2>1, <2>2, <2>6
  <1>3. ASSUME NEW p \in Purchases, purchase' = [purchase EXCEPT ![p] = Failed(@)], UNCHANGED handed
        PROVE  \A q \in Purchases : Known(q)
    <2>1. purchase'[p].status # "completed"
      BY <1>3, RowTypes, CodesExist DEF TypeOK
    <2>2. \A q \in Purchases \ {p} : purchase'[q] = purchase[q]
      BY <1>3 DEF TypeOK
    <2> QED BY <1>1, <1>3, <2>1, <2>2
  <1>4. CASE UNCHANGED purchase /\ handed \subseteq handed'
    BY <1>1, <1>4 DEF CompletedIsHanded
  <1>5. ASSUME NEW p \in Purchases, OrderOpened(p) \/ TimePasses(p)
        PROVE  \A q \in Purchases : Known(q)
    <2>1. \/ purchase' = [purchase EXCEPT ![p].ordered = TRUE]
          \/ purchase' = [purchase EXCEPT ![p].stale = TRUE]
      BY <1>5 DEF OrderOpened, TimePasses
    <2>2. /\ purchase'[p].status = purchase[p].status /\ purchase'[p].code = purchase[p].code
          /\ \A q \in Purchases \ {p} : purchase'[q] = purchase[q]
      <3>1. CASE purchase' = [purchase EXCEPT ![p].ordered = TRUE]
        BY <3>1 DEF TypeOK, PurchaseRows
      <3>2. CASE purchase' = [purchase EXCEPT ![p].stale = TRUE]
        BY <3>2 DEF TypeOK, PurchaseRows
      <3> QED BY <2>1, <3>1, <3>2
    <2> QED BY <1>1, <1>5, <2>2 DEF OrderOpened, TimePasses
  <1>6. ASSUME NEW p \in Purchases, OrderReserves(p)
        PROVE  \A q \in Purchases : Known(q)
    <2>1. purchase'[p].status = "pending" /\ \A q \in Purchases \ {p} : purchase'[q] = purchase[q]
      BY <1>6, ReserveFacts
    <2> QED BY <1>1, <1>6, <2>1 DEF OrderReserves
  <1>7. ASSUME NEW p \in Purchases, OrderReleases(p)
        PROVE  \A q \in Purchases : Known(q)
    <2>1. \A q \in Purchases : purchase'[q] \in {purchase[q], Failed(purchase[q])}
      BY <1>7 DEF OrderReleases
    <2>2. \A q \in Purchases : Failed(purchase[q]).status # "completed"
      BY RowTypes, CodesExist
    <2>3. handed' = handed
      BY <1>7 DEF OrderReleases
    <2> QED BY <1>1, <2>1, <2>2, <2>3
  <1>8. ASSUME NEW p \in Purchases, Handles(p)
        PROVE  \A q \in Purchases : Known(q)
    <2>1. "verify" \in Calls /\ "webhook" \in Calls
      BY DEF Calls
    <2>2. CASE VerifyLooks(p)
      BY <1>4, <2>2 DEF VerifyLooks, CompletedIsHanded
    <2>3. CASE VerifyCommits(p)
      BY <1>2, <2>1, <2>3 DEF VerifyCommits, Requests, VerifiesHaveCodes
    <2>4. CASE WebhookCommits(p)
      BY <1>2, <1>4, <2>1, <2>4 DEF WebhookCommits, CompletedIsHanded
    <2>5. CASE WebhookLooks(p)
      BY <1>4, <2>5 DEF WebhookLooks, CompletedIsHanded
    <2>6. ASSUME NEW k \in Cancellations, CancelLooks(p, k) PROVE \A q \in Purchases : Known(q)
      BY <1>4, <2>6 DEF CancelLooks, CompletedIsHanded
    <2>7. ASSUME NEW k \in Cancellations, CancelCommits(p, k) PROVE \A q \in Purchases : Known(q)
      BY <1>3, <2>7 DEF CancelCommits
    <2> QED BY <1>8, <2>2, <2>3, <2>4, <2>5, <2>6, <2>7 DEF Handles
  <1>9. ASSUME NEW p \in Purchases, OrderUnreachable(p) PROVE \A q \in Purchases : Known(q)
    BY <1>3, <1>9 DEF OrderUnreachable
  <1>10. CASE \A q \in Purchases : Known(q)
    BY <1>10 DEF CompletedIsHanded
  <1> QED BY <1>4, <1>5, <1>6, <1>7, <1>8, <1>9, <1>10 DEF Next, vars, OrderLooks, OrderRefused,
       OrderAbandoned, PaymentFails, Dismiss, Pay, AddCode, EditLooks, EditCommits, DeleteCodes

LEMMA SaleInit == Init => Sale
  BY DEF Init, Sale, SoldStaysSold, OneBuyer, DeletedIsOut, PendingIsReserved, CancelsSawReserved,
         EditsSaw, CompletedIsHanded, NoPurchase, NoCall, NoEdit, Calls, Cancellations, Settlements

LEMMA SaleNext == Inv /\ Sale /\ [Next]_vars => Sale'
  BY SoldNext, DeletedNext, PendingNext, CancelsNext, EditsSawNext, CompletedNext DEF Inv, Sale

LEMMA SaleGivesSoldOnce == TypeOK /\ Sale => SoldOnce
  BY DEF TypeOK, Sale, SoldStaysSold, OneBuyer, SoldOnce, BuyersOf

-----------------------------------------------------------------------------
(* The theorems                                                            *)

\* The rows of voucher_codes and voucher_purchases and the requests in flight
\* keep their types; a pending purchase names a code and only an opened order is paid.
THEOREM VouchersTypeCorrect == Spec => []TypeOK
  BY Invariance, PTL DEF Inv

\* However orders, releases, cancellations, settlements and edits overlap, a
\* reserved code is held by a pending purchase that names it, so that
\* _release_stale_reservations finds it when its time is up.
THEOREM ReservationsAreHeld == Spec => []ReservedIsHeld
  BY Invariance, PTL DEF Inv

\* A code that was handed over is handed to nobody else and not offered again
\* unless it was deleted, as long as no request wrote its row out of date.
THEOREM CodesAreSoldOnce == Spec => []SoldOnce
  <1>1. Spec => []Sale
    BY SaleInit, SaleNext, Invariance, PTL DEF Spec
  <1> QED BY <1>1, Invariance, SaleGivesSoldOnce, PTL DEF Inv

=============================================================================
