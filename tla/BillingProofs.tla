--------------------------- MODULE BillingProofs ---------------------------
(***************************************************************************)
(* A payment whose handlers lock it holds exactly the term it bought, and  *)
(* a capture that was answered is booked: for every set of payments, every *)
(* limit of the coupon and every number of handlers and administrators.    *)
(*                                                                         *)
(* Neither is inductive alone.  That a locked payment stays paid needs     *)
(* that PayU's notices never reach it (Sorted), that a refund is announced *)
(* only when the money was returned (RefundsFollow), and that a payment    *)
(* without a row has no money (MoneyHasARow).  What a handler has read     *)
(* before its lock plays no part, which is what the lock is for.           *)
(*                                                                         *)
(* Sittings are granted from a count that is read without a lock.  That    *)
(* none is granted without a term needs that every count a handler holds   *)
(* is below the terms (SeenWithTerms), which are counted as a set of rows. *)
(***************************************************************************)
EXTENDS Billing, FiniteSetTheorems, TLAPS

Types ==
    /\ kind \in [Payments -> Kinds]
    /\ status \in [Payments -> Statuses]
    /\ money \in [Payments -> {"none", "captured", "refunded"}]
    /\ booked \in [Payments -> Nat]
    /\ cancelled \in [Payments -> SUBSET Nat]
    /\ notices \subseteq Notices
    /\ \A h \in handling : h.notice \in Notices

\* Razorpay's notices are about the payments that are locked.
Fits(n) ==
    /\ kind[n.payment] \in Locked => n.event \in Captures \cup Refunds
    /\ n.event \in Captures \cup Refunds => kind[n.payment] \in Locked

Sorted ==
    /\ \A n \in notices : Fits(n)
    /\ \A h \in handling : Fits(h.notice) /\ h.notice.event \notin Refunds

RefundsFollow ==
    \A n \in notices : n.event \in Refunds => money[n.payment] = "refunded"

MoneyHasARow == \A p \in Payments : status[p] = "none" => money[p] = "none"

Inv == /\ Types /\ Sorted /\ RefundsFollow /\ MoneyHasARow
       /\ LockedPaymentHoldsItsTerm /\ AnsweredCaptureIsBooked

\* A notice is the pair it is made of.
LEMMA NoticeParts ==
    ASSUME NEW e \in Events, NEW p \in Payments
    PROVE  /\ Notice(e, p) \in Notices
           /\ Notice(e, p).event = e /\ Notice(e, p).payment = p
BY DEF Notice, Notices

\* Initially there are no payments.
LEMMA Initially == Init => Inv
BY DEF Init, Inv, Types, Sorted, RefundsFollow, MoneyHasARow,
       LockedPaymentHoldsItsTerm, AnsweredCaptureIsBooked, Statuses, Live

\* Steps that leave alone what the invariant is about.
LEMMA Stutters ==
    ASSUME Inv, UNCHANGED <<kind, status, money, booked, cancelled, notices>>,
           \A h \in handling' : h \in handling
    PROVE  Inv'
BY DEF Inv, Types, Sorted, Fits, RefundsFollow, MoneyHasARow,
       LockedPaymentHoldsItsTerm, AnsweredCaptureIsBooked, Live

\* An order gives the payment its row.
LEMMA OrderStep ==
    ASSUME Inv, NEW p \in Payments, CreateOrder(p)
    PROVE  Inv'
BY DEF CreateOrder, MayOrder, Inv, Types, Sorted, Fits, RefundsFollow, MoneyHasARow,
       LockedPaymentHoldsItsTerm, AnsweredCaptureIsBooked, Live, Statuses

\* A handler that begins is about a notice that fits; only the browser's is gone.
LEMMA BeginStep ==
    ASSUME Inv, NEW n \in notices, Begin(n)
    PROVE  Inv'
<1>1. UNCHANGED <<kind, status, money, booked, cancelled>> /\ notices' \subseteq notices
  BY DEF Begin, rows
<1>2. \A h \in handling' : h \in handling \/ h.notice = n
  BY DEF Begin
<1>3. Types' /\ Sorted' /\ RefundsFollow' /\ MoneyHasARow' /\ LockedPaymentHoldsItsTerm'
  BY <1>1, <1>2 DEF Begin, Inv, Types, Sorted, Fits, RefundsFollow, MoneyHasARow,
                    LockedPaymentHoldsItsTerm, Live
<1>4. \A p \in Payments, e \in {"payment.captured", "order.paid"} :
          Notice(e, p) \in notices => Notice(e, p) \in notices'
  BY DEF Begin, Browser, Notice
<1>5. AnsweredCaptureIsBooked'
  BY <1>1, <1>4 DEF Inv, AnsweredCaptureIsBooked
<1>. QED BY <1>3, <1>5 DEF Inv

\* What the browser loses is not what the gateway has to deliver.
LEMMA LoseStep ==
    ASSUME Inv, NEW n \in notices, Lose(n)
    PROVE  Inv'
<1>1. UNCHANGED <<kind, status, money, booked, cancelled, handling>> /\ notices' \subseteq notices
  BY DEF Lose, rows
<1>2. \A p \in Payments, e \in {"payment.captured", "order.paid"} :
          Notice(e, p) \in notices => Notice(e, p) \in notices'
  BY DEF Lose, Browser, Notice
<1>. QED
  BY <1>1, <1>2 DEF Inv, Types, Sorted, Fits, RefundsFollow, MoneyHasARow,
                    LockedPaymentHoldsItsTerm, AnsweredCaptureIsBooked, Live

\* At the counter a handler begins with the payment.
LEMMA RecordStep ==
    ASSUME Inv, NEW p \in Payments, RecordPayment(p)
    PROVE  Inv'
<1>1. UNCHANGED <<kind, status, money, booked, cancelled, notices>>
  BY DEF RecordPayment, rows
<1>2. \A h \in handling' : h \in handling \/ h.notice = Notice("counter", p)
  BY DEF RecordPayment
<1>3. Notice("counter", p) \in Notices /\ Fits(Notice("counter", p))
      /\ Notice("counter", p).event \notin Refunds
  BY NoticeParts DEF RecordPayment, Fits, Locked, Captures, Refunds, Events
<1>. QED
  BY <1>1, <1>2, <1>3 DEF Inv, Types, Sorted, Fits, RefundsFollow, MoneyHasARow,
                    LockedPaymentHoldsItsTerm, AnsweredCaptureIsBooked, Live

\* The gateway announces what fits, and both copies of a capture together.
LEMMA GatewayStep ==
    ASSUME Inv, NEW p \in Payments, Gateway(p)
    PROVE  Inv'
<1>. USE DEF Locked, Captures, Refunds, Successes, Events
<1>1. CASE Capture(p)
  <2>. DEFINE news == IF kind[p] \in Locked THEN Captures ELSE Successes
  <2>1. /\ UNCHANGED <<kind, status, booked, cancelled, handling>>
        /\ status[p] # "none" /\ money' = [money EXCEPT ![p] = "captured"] /\ money[p] = "none"
        /\ notices' = notices \cup {Notice(e, p) : e \in news}
    BY <1>1 DEF Capture, rows, Announce
  <2>2. \A n \in notices' : n \in notices \/ \E e \in news : n = Notice(e, p)
    BY <2>1
  <2>3. \A e \in news : Notice(e, p) \in Notices /\ Fits(Notice(e, p)) /\ e \notin Refunds
    BY NoticeParts DEF Fits
  <2>4. Types' /\ Sorted' /\ MoneyHasARow' /\ LockedPaymentHoldsItsTerm'
    BY <2>1, <2>2, <2>3 DEF Inv, Types, Sorted, Fits, MoneyHasARow,
                             LockedPaymentHoldsItsTerm, Live
  <2>5. RefundsFollow'
    <3>. SUFFICES ASSUME NEW n \in notices', n.event \in Refunds
                  PROVE  money'[n.payment] = "refunded"
      BY DEF RefundsFollow
    <3>1. n \in notices
      BY <2>2, <2>3, NoticeParts
    <3>2. money[n.payment] = "refunded"
      BY <3>1 DEF Inv, RefundsFollow
    <3>. QED BY <2>1, <3>1, <3>2 DEF Inv, Types, Notices
  <2>6. AnsweredCaptureIsBooked'
    <3>1. kind[p] \in Locked =>
              {Notice("payment.captured", p), Notice("order.paid", p)} \subseteq notices'
      BY <2>1
    <3>2. notices \subseteq notices'
      BY <2>1
    <3>. QED BY <2>1, <3>1, <3>2 DEF Inv, Types, AnsweredCaptureIsBooked
  <2>. QED BY <2>4, <2>5, <2>6 DEF Inv
<1>2. CASE Decline(p)
  <2>1. /\ UNCHANGED <<kind, status, money, booked, cancelled, handling>>
        /\ kind[p] = "payu"
        /\ notices' = notices \cup {Notice("declined", p)}
    BY <1>2 DEF Decline, rows, Announce
  <2>2. Notice("declined", p) \in Notices /\ Fits(Notice("declined", p))
        /\ Notice("declined", p).event \notin Refunds
    BY <2>1, NoticeParts DEF Fits
  <2>. QED
    BY <2>1, <2>2 DEF Inv, Types, Sorted, Fits, RefundsFollow, MoneyHasARow,
                      LockedPaymentHoldsItsTerm, AnsweredCaptureIsBooked, Live
<1>3. CASE Refund(p)
  <2>1. /\ UNCHANGED <<kind, status, booked, cancelled, handling>>
        /\ kind[p] \in Locked
        /\ money' = [money EXCEPT ![p] = "refunded"] /\ money[p] = "captured"
        /\ notices' = notices \cup {Notice(e, p) : e \in Refunds}
    BY <1>3 DEF Refund, rows, Announce
  <2>2. \A n \in notices' : n \in notices \/ \E e \in Refunds : n = Notice(e, p)
    BY <2>1
  <2>3. \A e \in Refunds : /\ Notice(e, p) \in Notices /\ Fits(Notice(e, p))
                           /\ Notice(e, p).payment = p
    BY <2>1, NoticeParts DEF Fits
  <2>4. Types' /\ Sorted' /\ MoneyHasARow' /\ LockedPaymentHoldsItsTerm'
    BY <2>1, <2>2, <2>3 DEF Inv, Types, Sorted, Fits, MoneyHasARow,
                             LockedPaymentHoldsItsTerm, Live
  <2>5. RefundsFollow'
    BY <2>1, <2>2, <2>3 DEF Inv, Types, RefundsFollow, Notices
  <2>6. AnsweredCaptureIsBooked'
    BY <2>1 DEF Inv, Types, AnsweredCaptureIsBooked
  <2>. QED BY <2>4, <2>5, <2>6 DEF Inv
<1>. QED BY <1>1, <1>2, <1>3 DEF Gateway

\* A payment found paid stays as it is.
LEMMA SettledStep ==
    ASSUME Inv, NEW h \in handling, Settled(h)
    PROVE  Inv'
<1>. DEFINE n == h.notice  p == h.notice.payment
<1>1. /\ UNCHANGED <<kind, status, money, booked, cancelled>>
      /\ handling' = handling \ {h} /\ notices' = notices \ {n}
      /\ kind[p] \in Locked => status[p] = "paid"
  BY DEF Settled, Answered, StatusRead, rows
<1>2. \A q \in Payments, e \in {"payment.captured", "order.paid"} :
          q # p /\ Notice(e, q) \in notices => Notice(e, q) \in notices'
  BY <1>1 DEF Notice
<1>3. AnsweredCaptureIsBooked'
  BY <1>1, <1>2 DEF Inv, AnsweredCaptureIsBooked
<1>. QED
  BY <1>1, <1>3 DEF Inv, Types, Sorted, Fits, RefundsFollow, MoneyHasARow,
                    LockedPaymentHoldsItsTerm, Live

\* A confirmation that fails leaves its notice where it was.
LEMMA RefuseStep ==
    ASSUME Inv, NEW h \in handling, Refuse(h)
    PROVE  Inv'
BY Stutters DEF Refuse, Failed, rows

\* The term that is booked is the only live one, because the payment was not
\* paid and held none.
LEMMA BookStep ==
    ASSUME Inv, NEW h \in handling, Book(h)
    PROVE  Inv'
<1>. DEFINE n == h.notice  p == h.notice.payment
<1>1. /\ UNCHANGED <<kind, money, cancelled>>
      /\ status' = [status EXCEPT ![p] = "paid"]
      /\ booked' = [booked EXCEPT ![p] = @ + 1]
      /\ handling' = handling \ {h} /\ notices' = notices \ {n}
      /\ kind[p] \in Locked => status[p] # "paid"
  BY DEF Book, Answered, StatusRead
<1>2. p \in Payments
  BY DEF Inv, Types, Notices
<1>3. Types' /\ Sorted' /\ RefundsFollow' /\ MoneyHasARow'
  BY <1>1, <1>2 DEF Inv, Types, Sorted, Fits, RefundsFollow, MoneyHasARow, Statuses
<1>4. LockedPaymentHoldsItsTerm'
  <2>. SUFFICES ASSUME NEW q \in Payments, kind[q] \in Locked
                PROVE  /\ status'[q] = "paid" => booked'[q] > 0
                       /\ Live(q)' \subseteq (IF status'[q] = "paid" THEN {booked'[q]} ELSE {})
    BY <1>1 DEF LockedPaymentHoldsItsTerm
  <2>1. CASE q # p
    BY <1>1, <2>1 DEF Inv, Types, LockedPaymentHoldsItsTerm, Live
  <2>2. CASE q = p
    <3>1. (1 .. booked[p]) \ cancelled[p] = {} /\ booked[p] \in Nat
      BY <1>1, <1>2, <2>2 DEF Inv, Types, LockedPaymentHoldsItsTerm, Live
    <3>2. booked'[p] = booked[p] + 1 /\ cancelled'[p] = cancelled[p] /\ status'[p] = "paid"
      BY <1>1, <1>2 DEF Inv, Types
    <3>3. Live(p)' = (1 .. booked'[p]) \ cancelled'[p]
      BY DEF Live
    <3>4. (1 .. booked[p] + 1) \ cancelled[p] \subseteq {booked[p] + 1}
      BY <3>1
    <3>. QED BY <2>2, <3>1, <3>2, <3>3, <3>4
  <2>. QED BY <2>1, <2>2
<1>5. \A q \in Payments, e \in {"payment.captured", "order.paid"} :
          q # p /\ Notice(e, q) \in notices => Notice(e, q) \in notices'
  BY <1>1 DEF Notice
<1>6. AnsweredCaptureIsBooked'
  BY <1>1, <1>2, <1>5 DEF Inv, Types, AnsweredCaptureIsBooked
<1>. QED BY <1>3, <1>4, <1>6 DEF Inv

\* A declined result is PayU's, and no locked payment's.
LEMMA FailedStep ==
    ASSUME Inv, NEW h \in handling, MarkFailed(h)
    PROVE  Inv'
<1>. DEFINE n == h.notice  p == h.notice.payment
<1>1. /\ UNCHANGED <<kind, money, booked, cancelled>>
      /\ status' = IF h.seen.status = "failed" THEN status
                   ELSE [status EXCEPT ![p] = "failed"]
      /\ handling' = handling \ {h} /\ notices' = notices \ {n}
      /\ n.event = "declined"
  BY DEF MarkFailed, Answered
<1>2. p \in Payments /\ kind[p] \notin Locked
  BY <1>1 DEF Inv, Types, Sorted, Fits, Notices, Captures, Refunds
<1>3. \A q \in Payments : q # p => status'[q] = status[q]
  BY <1>1 DEF Inv, Types
<1>4. \A q \in Payments, e \in {"payment.captured", "order.paid"} :
          Notice(e, q) \in notices => Notice(e, q) \in notices'
  BY <1>1 DEF Notice
<1>5. Types' /\ MoneyHasARow'
  BY <1>1, <1>2 DEF Inv, Types, MoneyHasARow, Statuses
<1>6. LockedPaymentHoldsItsTerm' /\ AnsweredCaptureIsBooked'
  BY <1>1, <1>2, <1>3, <1>4 DEF Inv, LockedPaymentHoldsItsTerm, AnsweredCaptureIsBooked, Live
<1>. QED
  BY <1>1, <1>5, <1>6 DEF Inv, Sorted, Fits, RefundsFollow

\* A refund ends the one term that may be live.
LEMMA RefundedStep ==
    ASSUME Inv, NEW n \in notices, MarkRefunded(n)
    PROVE  Inv'
<1>. DEFINE p == n.payment
<1>1. /\ UNCHANGED <<kind, money, booked, handling>>
      /\ status' = [status EXCEPT ![p] = "refunded"]
      /\ cancelled' = IF status[p] # "refunded" /\ booked[p] > 0
                      THEN [cancelled EXCEPT ![p] = @ \cup {booked[p]}] ELSE cancelled
      /\ notices' = notices \ {n} /\ n.event \in Refunds
  BY DEF MarkRefunded
<1>2. p \in Payments /\ money[p] = "refunded"
  BY <1>1 DEF Inv, Types, Notices, RefundsFollow
<1>3. Types' /\ MoneyHasARow'
  BY <1>1, <1>2 DEF Inv, Types, MoneyHasARow, Statuses
<1>4. LockedPaymentHoldsItsTerm'
  <2>. SUFFICES ASSUME NEW q \in Payments, kind[q] \in Locked
                PROVE  /\ status'[q] = "paid" => booked'[q] > 0
                       /\ Live(q)' \subseteq (IF status'[q] = "paid" THEN {booked'[q]} ELSE {})
    BY <1>1 DEF LockedPaymentHoldsItsTerm
  <2>1. CASE q # p
    BY <1>1, <2>1 DEF Inv, Types, LockedPaymentHoldsItsTerm, Live
  <2>2. CASE q = p
    <3>1. Live(p)' \subseteq {}
      BY <1>1, <1>2, <2>2 DEF Inv, Types, LockedPaymentHoldsItsTerm, Live
    <3>2. status'[p] = "refunded"
      BY <1>1, <1>2 DEF Inv, Types
    <3>. QED BY <2>2, <3>1, <3>2
  <2>. QED BY <2>1, <2>2
<1>5. \A q \in Payments, e \in {"payment.captured", "order.paid"} :
          Notice(e, q) \in notices => Notice(e, q) \in notices'
  BY <1>1 DEF Notice, Refunds
<1>6. AnsweredCaptureIsBooked'
  BY <1>1, <1>2, <1>5 DEF Inv, Types, AnsweredCaptureIsBooked
<1>. QED
  BY <1>1, <1>3, <1>4, <1>6 DEF Inv, Sorted, Fits, RefundsFollow

\* What an administrator cancels is not live any more.
LEMMA CancelStep ==
    ASSUME Inv, NEW p \in Payments, CancelTerm(p)
    PROVE  Inv'
<1>1. PICK k \in Live(p) : cancelled' = [cancelled EXCEPT ![p] = @ \cup {k}]
  BY DEF CancelTerm
<1>2. UNCHANGED <<kind, status, money, booked, notices, handling>>
  BY DEF CancelTerm
<1>3. k \in Nat
  BY <1>1 DEF Live, Inv, Types
<1>4. \A q \in Payments : Live(q)' \subseteq Live(q)
  BY <1>1, <1>2 DEF Live, Inv, Types
<1>. QED
  BY <1>1, <1>2, <1>3, <1>4 DEF Inv, Types, Sorted, Fits, RefundsFollow, MoneyHasARow,
                                LockedPaymentHoldsItsTerm, AnsweredCaptureIsBooked

\* Every step keeps the invariant.
LEMMA Steps == Inv /\ [Next]_vars => Inv'
<1>. SUFFICES ASSUME Inv, [Next]_vars PROVE Inv'
  OBVIOUS
<1>1. CASE \E p \in Payments : Buyer(p) \/ Gateway(p) \/ Admin(p)
  BY <1>1, OrderStep, GatewayStep, RecordStep, CancelStep DEF Buyer, Admin
<1>2. CASE \E n \in notices : Lose(n)
  BY <1>2, LoseStep
<1>3. CASE Server
  BY <1>3, BeginStep, RefundedStep, SettledStep, RefuseStep, BookStep, FailedStep
     DEF Server, Settle
<1>4. CASE SetCouponActive
  BY <1>4, Stutters DEF SetCouponActive, rows
<1>5. CASE SetPlanActive
  BY <1>5, Stutters DEF SetPlanActive, rows
<1>6. CASE UNCHANGED vars
  BY <1>6, Stutters DEF vars
<1>. QED BY <1>1, <1>2, <1>3, <1>4, <1>5, <1>6 DEF Next

\* The invariant holds of every reachable state.
THEOREM BillingInvariant == Spec => []Inv
BY Initially, Steps, PTL DEF Spec

\* However receipts, captures and refunds interleave, a payment its handlers lock
\* holds the one term it is paid for, or none.
THEOREM PaymentsHoldTheirTerm == Spec => []LockedPaymentHoldsItsTerm
<1>1. Inv => LockedPaymentHoldsItsTerm
  BY DEF Inv
<1>. QED BY <1>1, BillingInvariant, PTL

\* Razorpay is told that a capture was handled only when it has been booked.
THEOREM CapturesAreBooked == Spec => []AnsweredCaptureIsBooked
<1>1. Inv => AnsweredCaptureIsBooked
  BY DEF Inv
<1>. QED BY <1>1, BillingInvariant, PTL

-----------------------------------------------------------------------------
(* Types, and the rows that are counted.                                   *)

\* A table has finitely many rows of a customer's payments, so that they can be
\* counted.
LEMMA RowsAreFinite ==
    ASSUME NEW count \in [Payments -> Nat], NEW owner
    PROVE  /\ IsFiniteSet(Rows(count, owner))
           /\ Cardinality(Rows(count, owner)) \in Nat
<1>. DEFINE Of1(p) == {p} \X (1 .. count[p])
            all    == {Of1(p) : p \in Payments}
<1>1. IsFiniteSet(all)
  <2>. DEFINE f == [p \in Payments |-> Of1(p)]
  <2>1. f \in Surjection(Payments, all)
    BY DEF Surjection
  <2>. QED BY <2>1, FS_Surjection, BillingAssumption
<1>2. \A T \in all : IsFiniteSet(T)
  <2>. SUFFICES ASSUME NEW p \in Payments PROVE IsFiniteSet(Of1(p))
    OBVIOUS
  <2>1. IsFiniteSet({p})
    BY FS_Singleton
  <2>2. 1 \in Int /\ count[p] \in Int
    OBVIOUS
  <2>3. IsFiniteSet(1 .. count[p])
    BY <2>2, FS_Interval
  <2>. QED BY <2>1, <2>3, FS_Product
<1>3. IsFiniteSet(UNION all)
  BY <1>1, <1>2, FS_UNION
<1>4. Rows(count, owner) \subseteq UNION all
  BY DEF Rows, Of
<1>. QED BY <1>3, <1>4, FS_Subset, FS_CardinalityType

\* A row more for a payment of the customer is one more, and one for a payment of
\* another customer is none.
LEMMA OneRowMore ==
    ASSUME NEW count \in [Payments -> Nat], NEW owner, NEW p \in Payments
    PROVE  Cardinality(Rows([count EXCEPT ![p] = @ + 1], owner)) =
               Cardinality(Rows(count, owner)) + (IF Owner(p) = owner THEN 1 ELSE 0)
<1>. DEFINE more == [count EXCEPT ![p] = @ + 1]
            row  == <<p, count[p] + 1>>
<1>1. /\ more \in [Payments -> Nat] /\ more[p] = count[p] + 1
      /\ \A q \in Payments : q # p => more[q] = count[q]
  OBVIOUS
<1>2. CASE Owner(p) = owner
  <2>1. \A x : x \in Rows(more, owner) <=> x \in Rows(count, owner) \cup {row}
    <3>1. 1 .. (count[p] + 1) = (1 .. count[p]) \cup {count[p] + 1}
      OBVIOUS
    <3>2. {p} \X (1 .. more[p]) = ({p} \X (1 .. count[p])) \cup {row}
      BY <1>1, <3>1
    <3>. QED BY <1>1, <1>2, <3>2 DEF Rows, Of
  <2>2. row \notin Rows(count, owner)
    BY DEF Rows, Of
  <2>3. Rows(more, owner) = Rows(count, owner) \cup {row}
    BY <2>1
  <2>. QED BY <1>2, <2>2, <2>3, RowsAreFinite, FS_AddElement
<1>3. CASE Owner(p) # owner
  <2>1. Rows(more, owner) = Rows(count, owner)
    BY <1>1, <1>3 DEF Rows, Of
  <2>. QED BY <1>3, <2>1, RowsAreFinite
<1>. QED BY <1>2, <1>3

\* What a handler reads is what its record can hold.
LEMMA ReadsType ==
    ASSUME TypeOK, NEW n \in Notices
    PROVE  Reads(n) \in [status : Statuses, uses : Nat, couponOn : BOOLEAN, sittings : Nat]
<1>1. n.payment \in Payments
  BY DEF Notices
<1>2. RedemptionCount(Owner(n.payment)) \in Nat
  BY RowsAreFinite DEF TypeOK, RedemptionCount
<1>3. (Redeems(n) => couponOn) \in BOOLEAN
  OBVIOUS
<1>4. (IF kind[n.payment] \in Locked THEN "none" ELSE status[n.payment]) \in Statuses
  BY <1>1 DEF TypeOK, Statuses
<1>. QED BY <1>2, <1>3, <1>4 DEF Reads, TypeOK

\* No step leaves the types, and what is cancelled was booked.
LEMMA TypeSteps == TypeOK /\ [Next]_vars => TypeOK'
<1>. SUFFICES ASSUME TypeOK, [Next]_vars PROVE TypeOK'
  OBVIOUS
<1>. USE DEF rows
<1>1. ASSUME NEW p \in Payments, CreateOrder(p) PROVE TypeOK'
  BY <1>1 DEF TypeOK, CreateOrder, Statuses
<1>2. ASSUME NEW p \in Payments, Gateway(p) PROVE TypeOK'
  <2>1. UNCHANGED <<kind, coupon, rows, couponOn, planOn, handling, edits>>
    BY <1>2 DEF Gateway, Capture, Decline, Refund
  <2>2. money' \in [Payments -> {"none", "captured", "refunded"}]
    BY <1>2 DEF TypeOK, Gateway, Capture, Decline, Refund
  <2>3. PICK events \in SUBSET Events : Announce(p, events)
    BY <1>2 DEF Gateway, Capture, Decline, Refund, Events, Captures, Successes, Refunds
  <2>4. notices' \subseteq Notices
    BY <2>3, NoticeParts DEF TypeOK, Announce
  <2>. QED BY <2>1, <2>2, <2>4 DEF TypeOK
<1>3. ASSUME NEW p \in Payments, RecordPayment(p) PROVE TypeOK'
  <2>1. Notice("counter", p) \in Notices
    BY NoticeParts DEF Events
  <2>. QED BY <1>3, <2>1, ReadsType DEF TypeOK, RecordPayment
<1>4. ASSUME NEW p \in Payments, CancelTerm(p) PROVE TypeOK'
  BY <1>4, BillingAssumption DEF TypeOK, CancelTerm, Edit, Live
<1>5. ASSUME NEW n \in notices, Lose(n) PROVE TypeOK'
  BY <1>5 DEF TypeOK, Lose
<1>6. ASSUME NEW n \in notices, Begin(n) PROVE TypeOK'
  BY <1>6, ReadsType DEF TypeOK, Begin
<1>7. ASSUME NEW n \in notices, MarkRefunded(n) PROVE TypeOK'
  <2>. DEFINE p == n.payment
  <2>1. p \in Payments
    BY DEF TypeOK, Notices
  <2>2. cancelled' \in [Payments -> SUBSET Nat]
        /\ \A q \in Payments : cancelled'[q] \subseteq 1 .. booked'[q]
    BY <1>7, <2>1 DEF MarkRefunded, TypeOK
  <2>3. status' \in [Payments -> Statuses] /\ notices' \subseteq Notices
    BY <1>7, <2>1 DEF MarkRefunded, TypeOK, Statuses
  <2>. QED BY <1>7, <2>2, <2>3 DEF MarkRefunded, TypeOK
<1>8. ASSUME NEW h \in handling, Settle(h) PROVE TypeOK'
  <2>. DEFINE p == h.notice.payment
  <2>1. p \in Payments /\ h.seen.sittings \in Nat
    BY DEF TypeOK, Notices
  <2>2. /\ handling' \subseteq handling /\ notices' \subseteq notices
        /\ UNCHANGED <<kind, coupon, money, cancelled, couponOn, planOn, edits>>
    BY <1>8 DEF Settle, Settled, Refuse, Book, MarkFailed, Answered, Failed
  <2>3. status' \in [Payments -> Statuses]
    BY <1>8, <2>1 DEF Settle, Settled, Refuse, Book, MarkFailed, TypeOK, Statuses
  <2>4. booked' \in [Payments -> Nat] /\ \A q \in Payments : booked'[q] >= booked[q]
    BY <1>8, <2>1 DEF Settle, Settled, Refuse, Book, MarkFailed, TypeOK
  <2>5. uses' \in [Payments -> Nat] /\ sittings' \in Nat
    BY <1>8, <2>1 DEF Settle, Settled, Refuse, Book, MarkFailed, TypeOK
  <2>6. \A q \in Payments : cancelled'[q] \subseteq 1 .. booked'[q]
    BY <2>2, <2>4 DEF TypeOK
  <2>. QED BY <2>2, <2>3, <2>4, <2>5, <2>6 DEF TypeOK
<1>9. CASE SetCouponActive
  BY <1>9, BillingAssumption DEF TypeOK, SetCouponActive, Edit
<1>10. CASE SetPlanActive
  BY <1>10, BillingAssumption DEF TypeOK, SetPlanActive, Edit
<1>11. CASE UNCHANGED vars
  BY <1>11 DEF TypeOK, vars
<1>. QED
  BY <1>1, <1>2, <1>3, <1>4, <1>5, <1>6, <1>7, <1>8, <1>9, <1>10, <1>11
     DEF Next, Buyer, Admin, Server

\* For any payments, limit and handlers the rows hold what the handlers write, and
\* only terms that were booked are cancelled.
THEOREM BillingTypeCorrect == Spec => []TypeOK
<1>1. Init => TypeOK
  BY BillingAssumption DEF Init, TypeOK, Statuses
<1>. QED BY <1>1, TypeSteps, PTL DEF Spec

-----------------------------------------------------------------------------
(* Nothing is granted without a term.                                      *)

\* A count that a handler has read and not yet written back is no more than the
\* terms there are.
SeenWithTerms ==
    \A h \in handling : h.seen.sittings <= Cardinality(Rows(booked, "student"))

\* A step that books nothing and takes no coupon.
LEMMA NothingBooked ==
    ASSUME TypeOK, NothingWithoutATerm, SeenWithTerms,
           UNCHANGED <<kind, booked, uses, sittings>>,
           \A h \in handling' : \/ h \in handling
                                \/ h.seen.sittings \in {0, sittings}
    PROVE  NothingWithoutATerm' /\ SeenWithTerms'
<1>1. Rows(booked, "student")' = Rows(booked, "student")
  BY DEF Rows, Of, Owner
<1>2. Cardinality(Rows(booked, "student")) \in Nat
  BY RowsAreFinite DEF TypeOK
<1>. QED BY <1>1, <1>2 DEF NothingWithoutATerm, SeenWithTerms, TypeOK

\* The count a handler writes is the one it has read and the term it books; the
\* coupon's use is written with the term.
LEMMA BookGrants ==
    ASSUME TypeOK, NothingWithoutATerm, SeenWithTerms, NEW h \in handling, Book(h)
    PROVE  NothingWithoutATerm' /\ SeenWithTerms'
<1>. DEFINE p == h.notice.payment
            terms == Cardinality(Rows(booked, "student"))
<1>1. /\ UNCHANGED kind /\ handling' \subseteq handling
      /\ booked' = [booked EXCEPT ![p] = @ + 1]
      /\ uses' = IF Redeems(h.notice) THEN [uses EXCEPT ![p] = @ + 1] ELSE uses
      /\ sittings' = IF Owner(p) = "student" THEN h.seen.sittings + 1 ELSE sittings
  BY DEF Book, Answered
<1>2. p \in Payments /\ h.seen.sittings \in Nat /\ sittings \in Nat
  BY DEF TypeOK, Notices
<1>3. Rows(booked, "student")' = Rows(booked', "student")
  BY <1>1 DEF Rows, Of, Owner
<1>4. Cardinality(Rows(booked', "student")) =
          terms + (IF Owner(p) = "student" THEN 1 ELSE 0)
  BY <1>1, <1>2, OneRowMore DEF TypeOK
<1>5. terms \in Nat
  BY RowsAreFinite DEF TypeOK
<1>6. sittings' <= Cardinality(Rows(booked, "student"))'
  BY <1>1, <1>2, <1>3, <1>4, <1>5 DEF NothingWithoutATerm, SeenWithTerms
<1>7. \A q \in Payments : uses'[q] <= booked'[q]
  BY <1>1, <1>2 DEF NothingWithoutATerm, TypeOK
<1>8. SeenWithTerms'
  <2>. SUFFICES ASSUME NEW g \in handling'
                PROVE  g.seen.sittings <= Cardinality(Rows(booked', "student"))
    BY <1>3 DEF SeenWithTerms
  <2>1. g.seen.sittings \in Nat /\ g.seen.sittings <= terms
    BY <1>1 DEF SeenWithTerms, TypeOK
  <2>. QED BY <1>4, <1>5, <2>1
<1>. QED BY <1>6, <1>7, <1>8 DEF NothingWithoutATerm

\* Every step keeps the counts below the terms.
LEMMA GrantSteps ==
    TypeOK /\ NothingWithoutATerm /\ SeenWithTerms /\ [Next]_vars
        => NothingWithoutATerm' /\ SeenWithTerms'
<1>. SUFFICES ASSUME TypeOK, NothingWithoutATerm, SeenWithTerms, [Next]_vars
              PROVE  NothingWithoutATerm' /\ SeenWithTerms'
  OBVIOUS
<1>. USE DEF rows
<1>1. CASE \E h \in handling : Book(h)
  BY <1>1, BookGrants
<1>2. CASE ~ \E h \in handling : Book(h)
  <2>1. UNCHANGED <<kind, booked, uses, sittings>>
    BY <1>2 DEF Next, Buyer, CreateOrder, Gateway, Capture, Decline, Refund, Admin,
                RecordPayment, CancelTerm, Lose, Server, Begin, MarkRefunded, Settle,
                Settled, Refuse, MarkFailed, Answered, Failed, SetCouponActive,
                SetPlanActive, vars
  <2>2. \A h \in handling' : h \in handling \/ h.seen.sittings \in {0, sittings}
    <3>1. \A n : Reads(n).sittings \in {0, sittings}
      BY DEF Reads
    <3>. QED
      BY <1>2, <3>1 DEF Next, Buyer, CreateOrder, Gateway, Capture, Decline, Refund, Admin,
                RecordPayment, CancelTerm, Lose, Server, Begin, MarkRefunded, Settle,
                Settled, Refuse, MarkFailed, Answered, Failed, SetCouponActive,
                SetPlanActive, vars
  <2>. QED BY <2>1, <2>2, NothingBooked
<1>. QED BY <1>1, <1>2

\* For any payments, handlers and failures, no sitting is granted and no use of a
\* coupon taken but with a term that was booked.
THEOREM NothingGrantedWithoutATerm == Spec => []NothingWithoutATerm
<1>1. Init => NothingWithoutATerm /\ SeenWithTerms
  <2>. SUFFICES ASSUME Init PROVE NothingWithoutATerm /\ SeenWithTerms
    OBVIOUS
  <2>1. Cardinality(Rows(booked, "student")) \in Nat
    BY RowsAreFinite DEF Init
  <2>. QED BY <2>1 DEF Init, NothingWithoutATerm, SeenWithTerms
<1>2. TypeOK /\ TypeOK' /\ NothingWithoutATerm /\ SeenWithTerms /\ [Next]_vars
          => NothingWithoutATerm' /\ SeenWithTerms'
  BY GrantSteps
<1>. QED BY <1>1, <1>2, BillingTypeCorrect, PTL DEF Spec
=============================================================================
