------------------------------ MODULE Vouchers ------------------------------
(***************************************************************************)
(* The sale of exam vouchers (backend/app/services/voucher_service.py),    *)
(* for the codes of one type: an order reserves a code and opens a payment *)
(* with the gateway, and the code changes hands when the browser presents  *)
(* the receipt (verify) or the gateway reports the capture (webhook).  A   *)
(* checkout that fails or is dismissed is cancelled by the browser, one    *)
(* that is abandoned is released by a later order.                         *)
(*                                                                         *)
(* A request reads its rows in one snapshot and writes them by primary key *)
(* when it commits, whatever was committed in between: reading and         *)
(* committing are two actions.  Two requests do lock: the reservation      *)
(* holds the code's row from the read to the commit, and the webhook the   *)
(* purchase's, so each of these is one action; the webhook's view of the   *)
(* code dates from the first query of its request.                         *)
(***************************************************************************)
EXTENDS Naturals

CONSTANTS
    Purchases,  \* the orders buyers place, each at most one row of voucher_purchases
    MaxCodes,   \* bound on the rows of voucher_codes
    MaxEdits,   \* bound on what administrators do to single codes
    None

ASSUME VouchersAssumption ==
    /\ MaxCodes \in Nat \ {0}
    /\ MaxEdits \in Nat
    /\ None \notin Purchases
    /\ None \notin 1..MaxCodes

VARIABLES
    code,      \* the rows of voucher_codes, in the order of their ids
    purchase,  \* the rows of voucher_purchases
    order,     \* the handler of each order
    window,    \* the checkout window of each order, in the buyer's browser
    captured,  \* the purchases the gateway has taken money for
    call,      \* the requests that settle or cancel each purchase
    handed,    \* what buyers were told, on the screen or by mail
    edit,      \* the change an administrator's request has read its code for
    edits,
    crossed    \* the codes written by a request that had read them too early

vars == <<code, purchase, order, window, captured, call, handed, edit, edits, crossed>>

Codes == 1..MaxCodes
\* A failed payment and a dismissed window each send a cancellation.
Calls == {"failure", "dismissal", "verify", "webhook"}
Cancellations == {"failure", "dismissal"}

NewCode     == [status |-> "absent", by |-> None, deleted |-> FALSE]
NoPurchase  == [status |-> "none", code |-> None, ordered |-> FALSE, stale |-> FALSE]
NoCall      == [at |-> "idle", code |-> None, saw |-> "none"]
NoEdit      == [op |-> "none", code |-> None, saw |-> "none"]

-----------------------------------------------------------------------------
Init ==
    /\ code = [c \in Codes |-> NewCode]
    /\ purchase = [p \in Purchases |-> NoPurchase]
    /\ order = [p \in Purchases |-> [at |-> "idle", stale |-> {}]]
    /\ window = [p \in Purchases |-> "unopened"]
    /\ captured = {}
    /\ call = [p \in Purchases |-> [k \in Calls |-> NoCall]]
    /\ handed = {}
    /\ edit = NoEdit
    /\ edits = 0
    /\ crossed = {}

\* What a write does to the rows of a purchase and its code.
Sold(row)     == [row EXCEPT !.status = "purchased"]
Freed(row)    == [row EXCEPT !.status = "available", !.by = None]
Completed(pr) == [pr EXCEPT !.status = "completed"]
Failed(pr)    == [pr EXCEPT !.status = "failed", !.code = None]

\* The code a pending purchase holds, where it can still be handed over.
Deliverable(c) == c # None /\ code[c].status = "reserved" /\ ~code[c].deleted

\* A request that read code c as purchase p's, with a status, is out of date.
OutOfDate(c, p, saw) == code[c].by # p \/ code[c].status # saw

-----------------------------------------------------------------------------
(* An order: create_voucher_order.                                         *)

\* _release_stale_reservations reads what was never paid for in its time.
StaleReservations ==
    {c \in Codes : /\ code[c].status = "reserved"
                   /\ code[c].by # None
                   /\ purchase[code[c].by].status = "pending"
                   /\ purchase[code[c].by].stale}

OrderLooks(p) ==
    /\ order[p].at = "idle"
    /\ StaleReservations # {}
    /\ order' = [order EXCEPT ![p] =
           [at |-> "looked", stale |-> {<<c, code[c].by>> : c \in StaleReservations}]]
    /\ UNCHANGED <<code, purchase, window, captured, call, handed, edit, edits, crossed>>

OrderReleases(p) ==
    /\ order[p].at = "looked"
    /\ LET freed  == {r[1] : r \in order[p].stale}
           failed == {r[2] : r \in order[p].stale}
       IN  /\ code' = [c \in Codes |-> IF c \in freed THEN Freed(code[c]) ELSE code[c]]
           /\ purchase' = [q \in Purchases |->
                              IF q \in failed THEN Failed(purchase[q]) ELSE purchase[q]]
    /\ crossed' = crossed \union {r[1] : r \in {r \in order[p].stale : OutOfDate(r[1], r[2], "reserved")}}
    /\ order' = [order EXCEPT ![p] = [at |-> "ready", stale |-> {}]]
    /\ UNCHANGED <<window, captured, call, handed, edit, edits>>

\* The first code on sale; the unique index refuses it while a purchase names it.
FirstOnSale(c) ==
    /\ code[c].status = "available"
    /\ \A d \in Codes : code[d].status = "available" => c <= d

\* An order may have looked when nothing was stale.
OrderReserves(p) ==
    /\ order[p].at \in {"idle", "ready"}
    /\ \E c \in Codes :
        /\ FirstOnSale(c)
        /\ \A q \in Purchases : purchase[q].code # c
        /\ code' = [code EXCEPT ![c].status = "reserved", ![c].by = p]
        /\ purchase' = [purchase EXCEPT ![p] =
               [status |-> "pending", code |-> c, ordered |-> FALSE, stale |-> FALSE]]
    /\ order' = [order EXCEPT ![p].at = "posting"]
    /\ UNCHANGED <<window, captured, call, handed, edit, edits, crossed>>

\* No gateway, no stock, a number or a code that another row has: nothing is
\* kept, and the buyer may try again.
OrderRefused(p) ==
    /\ order[p].at = "ready"
    /\ order' = [order EXCEPT ![p].at = "idle"]
    /\ UNCHANGED <<code, purchase, window, captured, call, handed, edit, edits, crossed>>

\* Mutant: the gateway's order is not recorded.
OrderOpenedUnrecorded(p) ==
    /\ order[p].at = "posting"
    /\ order' = [order EXCEPT ![p].at = "ended"]
    /\ window' = [window EXCEPT ![p] = "open"]
    /\ UNCHANGED <<code, purchase, captured, call, handed, edit, edits, crossed>>

\* The gateway opened the order, and the browser its window unless it is gone.
OrderOpened(p) ==
    /\ order[p].at = "posting"
    /\ order' = [order EXCEPT ![p].at = "ended"]
    /\ purchase' = [purchase EXCEPT ![p].ordered = TRUE]
    /\ \E w \in {"open", "closed"} : window' = [window EXCEPT ![p] = w]
    /\ UNCHANGED <<code, captured, call, handed, edit, edits, crossed>>

\* The gateway could not be reached.  The call gives up long before its
\* reservation is stale, so the purchase still names its code.
OrderUnreachable(p) ==
    /\ order[p].at = "posting"
    /\ order' = [order EXCEPT ![p].at = "ended"]
    /\ code' = [code EXCEPT ![purchase[p].code] = Freed(@)]
    /\ purchase' = [purchase EXCEPT ![p] = Failed(@)]
    /\ crossed' = crossed \union {c \in Codes : c = purchase[p].code /\ OutOfDate(c, p, "reserved")}
    /\ UNCHANGED <<window, captured, call, handed, edit, edits>>

\* The gateway refused, or the process died: the reservation waits for its time.
OrderAbandoned(p) ==
    /\ order[p].at = "posting"
    /\ order' = [order EXCEPT ![p].at = "ended"]
    /\ UNCHANGED <<code, purchase, window, captured, call, handed, edit, edits, crossed>>

\* _RESERVATION_MINUTES pass.
TimePasses(p) ==
    /\ purchase[p].status = "pending" /\ ~purchase[p].stale
    /\ order[p].at = "ended"
    /\ purchase' = [purchase EXCEPT ![p].stale = TRUE]
    /\ UNCHANGED <<code, order, window, captured, call, handed, edit, edits, crossed>>

-----------------------------------------------------------------------------
(* The browser and the gateway.                                            *)

\* What the browser sends may not arrive; the gateway tries until it is answered.
Send(p, ks) ==
    \E arrive \in SUBSET ks :
        /\ ks \intersect {"webhook"} \subseteq arrive
        /\ call' = [call EXCEPT ![p] =
               [k \in Calls |-> IF k \in arrive THEN [NoCall EXCEPT !.at = "sent"] ELSE call[p][k]]]

\* onFailure; the gateway's window stays open for another try.
PaymentFails(p) ==
    /\ window[p] = "open"
    /\ call[p]["failure"].at = "idle"
    /\ Send(p, {"failure"})
    /\ UNCHANGED <<code, purchase, order, window, captured, handed, edit, edits, crossed>>

\* onDismiss; a payment the buyer approves elsewhere may still come.
Dismiss(p) ==
    /\ window[p] = "open"
    /\ window' = [window EXCEPT ![p] = "closed"]
    /\ Send(p, {"dismissal"})
    /\ UNCHANGED <<code, purchase, order, captured, handed, edit, edits, crossed>>

\* The gateway captures the payment; onSuccess is called in an open window.
Pay(p) ==
    /\ window[p] \in {"open", "closed"} /\ p \notin captured
    /\ captured' = captured \union {p}
    /\ Send(p, IF window[p] = "open" THEN {"verify", "webhook"} ELSE {"webhook"})
    /\ window' = [window EXCEPT ![p] = "closed"]
    /\ UNCHANGED <<code, purchase, order, handed, edit, edits, crossed>>

-----------------------------------------------------------------------------
(* Settling and cancelling.                                                *)

Read(p, k, c) ==
    call' = [call EXCEPT ![p][k] = [at   |-> "loaded",
                                    code |-> c,
                                    saw  |-> IF c = None THEN "none" ELSE code[c].status]]
Ends(p, k) == call' = [call EXCEPT ![p][k] = NoCall]

\* Mutant: whatever its status, the code of the purchase goes back on sale.
CancelLooksAtNoStatus(p, k) ==
    /\ k \in Cancellations
    /\ call[p][k].at = "sent"
    /\ Read(p, k, purchase[p].code)
    /\ UNCHANGED <<code, purchase, order, window, captured, handed, edit, edits, crossed>>

\* cancel_pending_voucher_purchase reads the purchase, and the code it would free.
CancelLooks(p, k) ==
    /\ k \in Cancellations
    /\ call[p][k].at = "sent"
    /\ IF purchase[p].status = "pending"
       THEN Read(p, k, IF code[purchase[p].code].status = "reserved" THEN purchase[p].code ELSE None)
       ELSE Ends(p, k)
    /\ UNCHANGED <<code, purchase, order, window, captured, handed, edit, edits, crossed>>

\* Mutant: the purchase fails and its code is not released.
CancelCommitsPurchaseOnly(p, k) ==
    /\ k \in Cancellations
    /\ call[p][k].at = "loaded"
    /\ purchase' = [purchase EXCEPT ![p] = Failed(@)]
    /\ Ends(p, k)
    /\ UNCHANGED <<code, order, window, captured, handed, edit, edits, crossed>>

\* _fail_purchase_and_release_code commits.
CancelCommits(p, k) ==
    /\ k \in Cancellations
    /\ call[p][k].at = "loaded"
    /\ LET c == call[p][k].code
       IN  IF c = None THEN UNCHANGED <<code, crossed>>
           ELSE /\ code' = [code EXCEPT ![c] = Freed(@)]
                /\ crossed' = IF OutOfDate(c, p, call[p][k].saw) THEN crossed \union {c} ELSE crossed
    /\ purchase' = [purchase EXCEPT ![p] = Failed(@)]
    /\ Ends(p, k)
    /\ UNCHANGED <<order, window, captured, handed, edit, edits>>

\* verify_voucher_payment reads purchase and code; one that is settled is told again.
VerifyLooks(p) ==
    /\ call[p]["verify"].at = "sent"
    /\ LET c == purchase[p].code
           told == c # None /\ purchase[p].status = "completed" /\ code[c].status = "purchased"
       IN  /\ IF purchase[p].status # "failed" /\ Deliverable(c)
              THEN Read(p, "verify", c)
              ELSE Ends(p, "verify")
           /\ handed' = IF told THEN handed \union {<<p, c>>} ELSE handed
    /\ UNCHANGED <<code, purchase, order, window, captured, edit, edits, crossed>>

\* _complete_purchase: the code is sold, the purchase complete, the buyer told.
HandOver(p, c) ==
    /\ code' = [code EXCEPT ![c] = Sold(@)]
    /\ purchase' = [purchase EXCEPT ![p] = Completed(@)]
    /\ handed' = handed \union {<<p, c>>}
    /\ crossed' = IF code[c].by # p THEN crossed \union {c} ELSE crossed

VerifyCommits(p) ==
    /\ call[p]["verify"].at = "loaded"
    /\ HandOver(p, call[p]["verify"].code)
    /\ Ends(p, "verify")
    /\ UNCHANGED <<order, window, captured, edit, edits>>

\* The first query of the webhook's request, of the settings, fixes what it
\* will see of the code.
WebhookLooks(p) ==
    /\ call[p]["webhook"].at = "sent"
    /\ call' = [call EXCEPT ![p]["webhook"] =
           [NoCall EXCEPT !.at = "loaded",
                          !.code = IF Deliverable(purchase[p].code) THEN purchase[p].code ELSE None]]
    /\ UNCHANGED <<code, purchase, order, window, captured, handed, edit, edits, crossed>>

\* Mutant: captures of vouchers are answered and not acted upon.
WebhookIgnoresVouchers(p) ==
    /\ call[p]["webhook"].at = "loaded"
    /\ Ends(p, "webhook")
    /\ UNCHANGED <<code, purchase, order, window, captured, handed, edit, edits, crossed>>

\* complete_voucher_purchase_from_webhook, under the lock of the purchase.  An
\* error is answered with a 500, and the gateway calls again.
WebhookCommits(p) ==
    /\ call[p]["webhook"].at = "loaded"
    /\ LET c == call[p]["webhook"].code
       IN  \/ /\ purchase[p].status = "pending" /\ c # None
              /\ HandOver(p, c)
              /\ Ends(p, "webhook")
           \/ /\ purchase[p].status = "pending" /\ c = None
              /\ call' = [call EXCEPT ![p]["webhook"] = [NoCall EXCEPT !.at = "sent"]]
              /\ UNCHANGED <<code, purchase, handed, crossed>>
           \/ /\ purchase[p].status # "pending"
              /\ Ends(p, "webhook")
              /\ UNCHANGED <<code, purchase, handed, crossed>>
    /\ UNCHANGED <<order, window, captured, edit, edits>>

-----------------------------------------------------------------------------
(* Administrators, whose pages may show a list of codes that is out of     *)
(* date.                                                                   *)

\* add_bulk_voucher_codes.
AddCode(c) ==
    /\ code[c].status = "absent"
    /\ code' = [code EXCEPT ![c].status = "available"]
    /\ UNCHANGED <<purchase, order, window, captured, call, handed, edit, edits, crossed>>

\* disable_voucher_code and disable_voucher_codes take a code on sale,
\* toggle_voucher_code that or a disabled one, delete_voucher_code any that is
\* neither deleted nor reserved.
EditLooks(op, c) ==
    /\ edit = NoEdit /\ edits < MaxEdits
    /\ \/ op = "disable" /\ code[c].status = "available"
       \/ op = "enable"  /\ code[c].status = "disabled"
       \/ op = "delete"  /\ ~code[c].deleted /\ code[c].status \notin {"absent", "reserved"}
    /\ edit' = [op |-> op, code |-> c, saw |-> code[c].status]
    /\ edits' = edits + 1
    /\ UNCHANGED <<code, purchase, order, window, captured, call, handed, crossed>>

EditCommits ==
    /\ edit # NoEdit
    /\ LET c == edit.code
       IN  /\ code' = [code EXCEPT
                  ![c].status = IF edit.op = "enable" THEN "available" ELSE "disabled",
                  ![c].deleted = @ \/ edit.op = "delete"]
           /\ crossed' = IF code[c].status # edit.saw THEN crossed \union {c} ELSE crossed
    /\ edit' = NoEdit
    /\ UNCHANGED <<purchase, order, window, captured, call, handed, edits>>

\* delete_voucher_type and delete_voucher_codes: one UPDATE of what is not reserved.
DeleteCodes(cs) ==
    /\ edits < MaxEdits
    /\ edits' = edits + 1
    /\ code' = [c \in Codes |->
           IF c \in cs /\ ~code[c].deleted /\ code[c].status \notin {"absent", "reserved"}
           THEN [code[c] EXCEPT !.status = "disabled", !.deleted = TRUE] ELSE code[c]]
    /\ UNCHANGED <<purchase, order, window, captured, call, handed, edit, crossed>>

-----------------------------------------------------------------------------
Handles(p) ==
    \/ \E k \in Cancellations : CancelLooks(p, k) \/ CancelCommits(p, k)
    \/ VerifyLooks(p) \/ VerifyCommits(p)
    \/ WebhookLooks(p) \/ WebhookCommits(p)

Next ==
    \/ \E p \in Purchases :
        \/ OrderLooks(p) \/ OrderReleases(p) \/ OrderReserves(p) \/ OrderRefused(p)
        \/ OrderOpened(p) \/ OrderUnreachable(p) \/ OrderAbandoned(p) \/ TimePasses(p)
        \/ PaymentFails(p) \/ Dismiss(p) \/ Pay(p)
        \/ Handles(p)
    \/ \E c \in Codes : AddCode(c)
    \/ \E op \in {"disable", "enable", "delete"}, c \in Codes : EditLooks(op, c)
    \/ EditCommits
    \/ \E cs \in (SUBSET Codes) \ {{}} : DeleteCodes(cs)

Spec == Init /\ [][Next]_vars

\* The gateway repeats what was not answered, and a request that arrived runs
\* to its end.  Nothing makes a buyer pay or an administrator act.
FairSpec ==
    /\ Spec
    /\ \A p \in Purchases :
        /\ WF_vars(WebhookLooks(p)) /\ WF_vars(WebhookCommits(p))
        /\ WF_vars(VerifyCommits(p))
        /\ \A k \in Cancellations : WF_vars(CancelCommits(p, k))
    /\ WF_vars(EditCommits)

-----------------------------------------------------------------------------
(* Properties.                                                             *)

CodeStatuses     == {"absent", "available", "reserved", "purchased", "disabled"}
PurchaseStatuses == {"none", "pending", "completed", "failed"}

CodeRows     == [status : CodeStatuses, by : Purchases \union {None}, deleted : BOOLEAN]
PurchaseRows == [status  : PurchaseStatuses, code : Codes \union {None},
                 ordered : BOOLEAN, stale : BOOLEAN]
OrderStates  == [at    : {"idle", "looked", "ready", "posting", "ended"},
                 stale : SUBSET (Codes \X Purchases)]
CallStates   == [at  : {"idle", "sent", "loaded"}, code : Codes \union {None},
                 saw : CodeStatuses \union {"none"}]
EditStates   == [op  : {"none", "disable", "enable", "delete"}, code : Codes \union {None},
                 saw : CodeStatuses \union {"none"}]

\* The rows and requests have their types; a pending purchase names its code,
\* and only a purchase whose order was opened is paid for.
TypeOK ==
    /\ code \in [Codes -> CodeRows]
    /\ purchase \in [Purchases -> PurchaseRows]
    /\ order \in [Purchases -> OrderStates]
    /\ window \in [Purchases -> {"unopened", "open", "closed"}]
    /\ captured \in SUBSET Purchases
    /\ call \in [Purchases -> [Calls -> CallStates]]
    /\ handed \in SUBSET (Purchases \X Codes)
    /\ edit \in EditStates
    /\ edits \in 0..MaxEdits
    /\ crossed \in SUBSET Codes
    /\ \A p \in Purchases : purchase[p].status = "pending" => purchase[p].code # None
    /\ \A p \in captured : purchase[p].ordered

BuyersOf(c) == {p \in Purchases : <<p, c>> \in handed}

\* A code that was handed over is handed to nobody else, and is not offered
\* again unless an administrator deleted it, as long as no request wrote it over
\* a change it had not seen: every order in which whole requests follow each
\* other is safe, and what breaks the sale is an overlap.
SoldOnce ==
    \A c \in Codes \ crossed : \A p \in BuyersOf(c) :
        /\ BuyersOf(c) = {p}
        /\ code[c].status \in {"available", "reserved"} => code[c].deleted

\* A reserved code is held by a pending purchase that names it, so it is sold or
\* comes back: no overlap of cancellations, releases, settlements and edits
\* leaves a code that _release_stale_reservations would never find.
ReservedIsHeld ==
    \A c \in Codes : code[c].status = "reserved" =>
        \E p \in Purchases : /\ code[c].by = p
                             /\ purchase[p].status = "pending"
                             /\ purchase[p].code = c

\* Money that was taken does not leave a purchase pending for ever behind a
\* browser that never came back: the webhook settles it, unless the purchase
\* was failed or its code is no longer held for it.
PaidIsSettled ==
    \A p \in Purchases :
        p \in captured ~> \/ purchase[p].status \in {"completed", "failed"}
                          \/ ~Deliverable(purchase[p].code)

\* "so two buyers never grab the same code" (voucher_service.py:434-436).
OneBuyerPerCode == \A c \in Codes : \A p, q \in BuyersOf(c) : p = q

=============================================================================
