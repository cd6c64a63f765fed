------------------------------ MODULE Billing ------------------------------
(***************************************************************************)
(* Payments for plans: what one student and one institute pay, and the     *)
(* terms, sittings and coupon redemptions that their payments book         *)
(* (payment_service, routers/payment_webhooks, coupon_service.redeem,      *)
(* subscription_service.subscribe_user, entitlement_service.grant_plan).   *)
(*                                                                         *)
(* A payment is confirmed by several notices: the receipt the gateway      *)
(* gives the buyer's browser, and the copies it sends to the server, each  *)
(* of which may come late, out of order, or find the other one at work.    *)
(* The handler of a notice is two steps.  Begin is its first read: under   *)
(* the database's REPEATABLE READ every plain query of the transaction     *)
(* sees that moment.  Settle is its commit; a row the handler reads with   *)
(* FOR UPDATE is read as it is then, because the lock is held from the     *)
(* read to the commit.  A handler that dies between the two has changed    *)
(* nothing, as if it had not begun.                                        *)
(***************************************************************************)
EXTENDS Naturals, FiniteSets

CONSTANTS
    Payments,      \* the payments that may be made
    UsageLimit,    \* coupons.usage_limit, per customer
    MaxHandlers,   \* bound: handlers at work at one moment
    MaxEdits       \* bound: what administrators change

ASSUME BillingAssumption ==
    IsFiniteSet(Payments) /\ UsageLimit \in Nat /\ MaxEdits \in Nat

VARIABLES
    kind,        \* how a payment is made: a student by Razorpay or PayU, an
                 \* institute by Razorpay, or at the counter with an admin
    coupon,      \* whether it was priced with the coupon
    status,      \* payments.status; "none" before the row exists
    money,       \* what the gateway did with the buyer's money
    booked,      \* how many subscriptions a payment has booked; the last one
                 \* is its subscription_id
    cancelled,   \* which of them carry cancelled_at
    uses,        \* coupon_redemptions rows of a payment
    sittings,    \* sittings_granted of the student; 0 while there is no row
    couponOn,    \* coupons.is_active
    planOn,      \* plans.is_active
    notices,     \* what the gateway still has to deliver
    handling,    \* the handlers at work: a notice and what was read for it
    edits        \* how often an administrator has changed something

rows == <<status, booked, cancelled, uses, sittings>>
vars == <<kind, coupon, status, money, booked, cancelled, uses, sittings,
          couponOn, planOn, notices, handling, edits>>

Kinds    == {"razorpay", "institute", "payu", "counter"}
Statuses == {"none", "pending", "paid", "failed", "refunded"}
Locked   == {"razorpay", "institute"}

Captures  == {"receipt", "payment.captured", "order.paid"}
Refunds   == {"refund.processed", "payment.refunded"}
Successes == {"return", "copy"}
Events    == Captures \cup Refunds \cup Successes \cup {"declined", "counter"}
Browser   == {"receipt", "return", "counter"}

Notice(e, p) == [event |-> e, payment |-> p]
Notices      == [event : Events, payment : Payments]

Owner(p) == IF kind[p] = "institute" THEN "institute" ELSE "student"
Of(owner) == {p \in Payments : Owner(p) = owner}

\* The rows a table has of one customer's payments, count[p] of payment p.
Rows(count, owner) == UNION {{p} \X (1 .. count[p]) : p \in Of(owner)}

\* _redemption_count: the rows of one customer's email.
RedemptionCount(owner) == Cardinality(Rows(uses, owner))

\* Only the webhook for a student's payment leaves the coupon alone.
Redeems(n) ==
    /\ coupon[n.payment]
    /\ n.event \in {"payment.captured", "order.paid"} => kind[n.payment] = "institute"

\* What the handler of a notice reads without a lock, if it uses it: the status
\* of a PayU payment, the coupon if it redeems one, the student's entitlement.
Reads(n) ==
    LET p == n.payment IN
    [status   |-> IF kind[p] \in Locked THEN "none" ELSE status[p],
     couponOn |-> Redeems(n) => couponOn,
     uses     |-> IF Redeems(n) THEN RedemptionCount(Owner(p)) ELSE 0,
     sittings |-> IF Owner(p) = "student" THEN sittings ELSE 0]

Live(p) == (1 .. booked[p]) \ cancelled[p]

TypeOK ==
    /\ kind \in [Payments -> Kinds]
    /\ coupon \in [Payments -> BOOLEAN]
    /\ status \in [Payments -> Statuses]
    /\ money \in [Payments -> {"none", "captured", "refunded"}]
    /\ booked \in [Payments -> Nat]
    /\ cancelled \in [Payments -> SUBSET Nat]
    /\ \A p \in Payments : cancelled[p] \subseteq 1 .. booked[p]
    /\ uses \in [Payments -> Nat]
    /\ sittings \in Nat
    /\ couponOn \in BOOLEAN /\ planOn \in BOOLEAN
    /\ notices \subseteq Notices
    /\ edits \in 0 .. MaxEdits
    /\ handling \subseteq [notice : Notices, seen : [status : Statuses, uses : Nat,
                                                    couponOn : BOOLEAN, sittings : Nat]]

Init ==
    /\ kind \in [Payments -> Kinds]
    /\ coupon \in [Payments -> BOOLEAN]
    /\ status = [p \in Payments |-> "none"]
    /\ money = [p \in Payments |-> "none"]
    /\ booked = [p \in Payments |-> 0]
    /\ cancelled = [p \in Payments |-> {}]
    /\ uses = [p \in Payments |-> 0]
    /\ sittings = 0
    /\ couponOn = TRUE
    /\ planOn = TRUE
    /\ notices = {}
    /\ handling = {}
    /\ edits = 0

(***************************************************************************)
(* Orders.                                                                 *)
(***************************************************************************)
\* validate_and_price: an order with a coupon is refused once the coupon is
\* off or used up.
MayOrder(p) ==
    /\ status[p] = "none"
    /\ planOn
    /\ coupon[p] => couponOn /\ RedemptionCount(Owner(p)) < UsageLimit

\* create_user_plan_order, create_institute_renewal_order: the row is committed
\* as pending, and the buyer sent to the gateway.
CreateOrder(p) ==
    /\ kind[p] # "counter"
    /\ MayOrder(p)
    /\ status' = [status EXCEPT ![p] = "pending"]
    /\ UNCHANGED <<kind, coupon, money, booked, cancelled, uses, sittings,
                   couponOn, planOn, notices, handling, edits>>

\* create_user_plan_payment without a gateway, create_admin_student_plan_payment:
\* ordered and settled in one transaction.
RecordPayment(p) ==
    /\ kind[p] = "counter"
    /\ MayOrder(p)
    /\ Cardinality(handling) < MaxHandlers
    /\ \A h \in handling : h.notice.payment # p
    /\ handling' = handling \cup {[notice |-> Notice("counter", p), seen |-> Reads(Notice("counter", p))]}
    /\ UNCHANGED <<kind, coupon, money, rows, couponOn, planOn, notices, edits>>

(***************************************************************************)
(* The gateway.  A capture gives the browser a receipt and is announced to *)
(* the server twice; a refund likewise.  PayU reports an attempt that      *)
(* failed, and lets the buyer try again with the same transaction.         *)
(***************************************************************************)
Announce(p, events) == notices' = notices \cup {Notice(e, p) : e \in events}

Capture(p) ==
    /\ kind[p] # "counter"
    /\ status[p] # "none"
    /\ money[p] = "none"
    /\ money' = [money EXCEPT ![p] = "captured"]
    /\ Announce(p, IF kind[p] \in Locked THEN Captures ELSE Successes)
    /\ UNCHANGED <<kind, coupon, rows, couponOn, planOn, handling, edits>>

Decline(p) ==
    /\ kind[p] = "payu"
    /\ status[p] # "none"
    /\ money[p] = "none"
    /\ Announce(p, {"declined"})
    /\ UNCHANGED <<kind, coupon, money, rows, couponOn, planOn, handling, edits>>

\* PayU's refunds have no handler.
Refund(p) ==
    /\ kind[p] \in Locked
    /\ money[p] = "captured"
    /\ money' = [money EXCEPT ![p] = "refunded"]
    /\ Announce(p, Refunds)
    /\ UNCHANGED <<kind, coupon, rows, couponOn, planOn, handling, edits>>

\* The browser is closed, or its request lost, before the server has it.
Lose(n) ==
    /\ n \in notices /\ n.event \in Browser
    /\ notices' = notices \ {n}
    /\ UNCHANGED <<kind, coupon, money, rows, couponOn, planOn, handling, edits>>

(***************************************************************************)
(* The handlers.  The browser sends what it holds once; the gateway keeps  *)
(* what it has to deliver until the server has answered 200.               *)
(***************************************************************************)
Begin(n) ==
    /\ n \in notices /\ n.event \notin Refunds
    /\ Cardinality(handling) < MaxHandlers
    /\ \A h \in handling : h.notice # n
    /\ handling' = handling \cup {[notice |-> n, seen |-> Reads(n)]}
    /\ notices' = IF n.event \in Browser THEN notices \ {n} ELSE notices
    /\ UNCHANGED <<kind, coupon, money, rows, couponOn, planOn, edits>>

Answered(h) ==
    /\ handling' = handling \ {h}
    /\ notices' = notices \ {h.notice}
    /\ UNCHANGED <<kind, coupon, money, couponOn, planOn, edits>>

\* Mutant: a confirmation that fails is answered with 200.
FailedAnswers200(h) ==
    /\ handling' = handling \ {h}
    /\ notices' = notices \ {h.notice}
    /\ UNCHANGED <<kind, coupon, money, couponOn, planOn, edits>>

\* The handler raised: rolled back, and the gateway was told so.
Failed(h) ==
    /\ handling' = handling \ {h}
    /\ UNCHANGED <<kind, coupon, money, couponOn, planOn, notices, edits>>

\* Mutant: the status is the one of the unlocked read, from before the payment
\* could be paid.
StatusReadUnlocked(h) == h.seen.status

\* Razorpay's handlers and its webhook read the payment FOR UPDATE; PayU's
\* does not, and the counter's is its own.
StatusRead(h) ==
    IF kind[h.notice.payment] \in Locked THEN status[h.notice.payment] ELSE h.seen.status

Confirms(h) == h.notice.event \in Captures \cup Successes \cup {"counter"}

\* What makes redeem, subscribe_user or grant_plan raise: a coupon that is off
\* or used up, a plan that is off, and the unique index of entitlements when
\* the transaction saw none and another has inserted one.
Refused(h) ==
    \/ Redeems(h.notice) /\ (~h.seen.couponOn \/ h.seen.uses >= UsageLimit)
    \/ ~planOn
    \/ Owner(h.notice.payment) = "student" /\ h.seen.sittings = 0 /\ sittings > 0

Settled(h) ==
    /\ Confirms(h) /\ StatusRead(h) = "paid"
    /\ Answered(h)
    /\ UNCHANGED rows

\* Mutant: the coupon is redeemed in a transaction of its own, before the term.
RefuseAfterRedeeming(h) ==
    /\ Confirms(h) /\ StatusRead(h) # "paid" /\ Refused(h)
    /\ uses' = IF Redeems(h.notice) THEN [uses EXCEPT ![h.notice.payment] = @ + 1] ELSE uses
    /\ Failed(h)
    /\ UNCHANGED <<status, booked, cancelled, sittings>>

Refuse(h) ==
    /\ Confirms(h) /\ StatusRead(h) # "paid" /\ Refused(h)
    /\ Failed(h)
    /\ UNCHANGED rows

\* The payment is marked paid, its coupon redeemed, a subscription inserted and,
\* for a student, the plan granted: grant_plan writes the count it has read plus
\* one.
Book(h) ==
    LET p == h.notice.payment IN
    /\ Confirms(h) /\ StatusRead(h) # "paid" /\ ~Refused(h)
    /\ status' = [status EXCEPT ![p] = "paid"]
    /\ booked' = [booked EXCEPT ![p] = @ + 1]
    /\ uses' = IF Redeems(h.notice) THEN [uses EXCEPT ![p] = @ + 1] ELSE uses
    /\ sittings' = IF Owner(p) = "student" THEN h.seen.sittings + 1 ELSE sittings
    /\ UNCHANGED cancelled
    /\ Answered(h)

\* settle_payu_return with a declined result; the column is written only when
\* it differs from what was read.
MarkFailed(h) ==
    LET p == h.notice.payment IN
    /\ h.notice.event = "declined"
    /\ status' = IF h.seen.status = "failed" THEN status
                 ELSE [status EXCEPT ![p] = "failed"]
    /\ UNCHANGED <<booked, cancelled, uses, sittings>>
    /\ Answered(h)

Settle(h) == Settled(h) \/ Refuse(h) \/ Book(h) \/ MarkFailed(h)

\* Mutant: the refund of a payment that has booked nothing is not told apart.
MarkRefundedUnbooked(n) ==
    LET p == n.payment IN
    /\ n \in notices /\ n.event \in Refunds
    /\ status' = [status EXCEPT ![p] = "refunded"]
    /\ cancelled' = [cancelled EXCEPT ![p] = @ \cup {booked[p]}]
    /\ notices' = notices \ {n}
    /\ UNCHANGED <<kind, coupon, money, booked, uses, sittings, couponOn, planOn,
                   handling, edits>>

\* The webhook's refund: it reads the payment and the term it points to FOR
\* UPDATE and nothing else, so that its handler is one step.
MarkRefunded(n) ==
    LET p == n.payment IN
    /\ n \in notices /\ n.event \in Refunds
    /\ status' = [status EXCEPT ![p] = "refunded"]
    /\ cancelled' = IF status[p] # "refunded" /\ booked[p] > 0
                    THEN [cancelled EXCEPT ![p] = @ \cup {booked[p]}] ELSE cancelled
    /\ notices' = notices \ {n}
    /\ UNCHANGED <<kind, coupon, money, booked, uses, sittings, couponOn, planOn,
                   handling, edits>>

(***************************************************************************)
(* Administrators.                                                         *)
(***************************************************************************)
Edit == edits < MaxEdits /\ edits' = edits + 1

\* subscription_service.cancel.
CancelTerm(p) ==
    /\ Edit
    /\ \E k \in Live(p) : cancelled' = [cancelled EXCEPT ![p] = @ \cup {k}]
    /\ UNCHANGED <<kind, coupon, status, money, booked, uses, sittings,
                   couponOn, planOn, notices, handling>>

\* set_coupon_active.
SetCouponActive ==
    /\ Edit
    /\ couponOn' = ~couponOn
    /\ UNCHANGED <<kind, coupon, money, rows, planOn, notices, handling>>

\* The switch of a plan.
SetPlanActive ==
    /\ Edit
    /\ planOn' = ~planOn
    /\ UNCHANGED <<kind, coupon, money, rows, couponOn, notices, handling>>

Buyer(p)   == CreateOrder(p)
Gateway(p) == Capture(p) \/ Decline(p) \/ Refund(p)
Admin(p)   == RecordPayment(p) \/ CancelTerm(p)
Server     == \/ \E n \in notices : Begin(n) \/ MarkRefunded(n)
              \/ \E h \in handling : Settle(h)

Next ==
    \/ \E p \in Payments : Buyer(p) \/ Gateway(p) \/ Admin(p)
    \/ \E n \in notices : Lose(n)
    \/ Server
    \/ SetCouponActive
    \/ SetPlanActive

Spec == Init /\ [][Next]_vars

(***************************************************************************)
(* Properties.                                                             *)
(***************************************************************************)
\* A payment the handlers lock holds exactly the term it bought: while it is
\* paid only the latest subscription it booked can be live, and in any other
\* state none is, however receipt, captures and refunds interleave
\* (payment_service.py:1065-1070, payment_webhooks.py:104-111).
LockedPaymentHoldsItsTerm ==
    \A p \in Payments : kind[p] \in Locked =>
        /\ status[p] = "paid" => booked[p] > 0
        /\ Live(p) \subseteq (IF status[p] = "paid" THEN {booked[p]} ELSE {})

\* No sitting is granted and no use of a coupon taken but with a term: a
\* confirmation that fails half-way leaves nothing behind ("a bad gateway retry
\* could burn a customer's coupon use for nothing", coupon_service.py:235-236).
NothingWithoutATerm ==
    /\ sittings <= Cardinality(Rows(booked, "student"))
    /\ \A p \in Payments : uses[p] <= booked[p]

\* The server does not tell Razorpay that it has a capture unless it has booked
\* it: with either copy of the notice answered the payment is paid, and stays so
\* until the money is returned, whatever the browser does and whichever
\* confirmation fails ("Answering 200 here told Razorpay the payment was handled,
\* so it never retried", payment_webhooks.py:149-150).
AnsweredCaptureIsBooked ==
    \A p \in Payments :
        /\ kind[p] \in Locked /\ money[p] = "captured"
        /\ ~({Notice("payment.captured", p), Notice("order.paid", p)} \subseteq notices)
        => status[p] = "paid"

\* "PayU can deliver the same result twice ... The first one to arrive does the
\* work" (payment_service.py:1176-1177): a PayU payment books one term.
FirstToArriveSettles == \A p \in Payments : kind[p] = "payu" => booked[p] <= 1

\* "Locks the coupon row first so two concurrent redemptions by the same email
\* can't both slip past the usage_limit check" (coupon_service.py:238-239).
CouponLimitHolds ==
    \A owner \in {"student", "institute"} : RedemptionCount(owner) <= UsageLimit

\* "Paying again buys another go at the test" (entitlement_service.py:117).
PayingBuysASitting == sittings >= Cardinality(Rows(booked, "student"))

\* A refund is the end of a payment: no confirmation that comes late revives it.
RefundIsFinal == [][\A p \in Payments : status[p] = "refunded" => status'[p] = "refunded"]_vars

\* What a buyer has paid for is not taken back by a late answer to an attempt
\* that failed earlier.
DeclineIsHarmless ==
    [][\A p \in Payments : status[p] = "paid" => status'[p] # "failed"]_vars
=============================================================================
