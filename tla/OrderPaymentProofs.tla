------------------------- MODULE OrderPaymentProofs --------------------------
(***************************************************************************)
(* Theorems about OrderPayment, for any set of concurrent requests and of   *)
(* provider payment ids. The inductive invariant IInv ties the position of  *)
(* every request to the rows it has already written.                        *)
(***************************************************************************)
EXTENDS OrderPayment, TLAPS

HasMoney == {"CAPTURED", "REFUNDED"}

\* The order and its payment: the three facts that hold between two writes.
RowsAgree ==
  /\ orderStatus \in Settled => paymentStatus \in HasMoney
  /\ orderStatus = "REFUNDED" => paymentStatus = "REFUNDED"
  /\ paymentStatus = "REFUNDED" => orderStatus \in Settled
  /\ paymentStatus \in HasMoney => providerPaymentId \in captured
  /\ paymentStatus \notin HasMoney => providerPaymentId = NoPid

\* What a request may rely on at the point it has reached.
Backed(q) ==
  /\ q.op = "pay" =>
       /\ q.pid \in captured
       /\ q.at = "settle" => paymentStatus \in HasMoney
       /\ q.at \in {"handler", "duplicate", "insert"} => orderStatus \in Settled
       /\ q.at = "insert" => q.pid # providerPaymentId
  /\ q.op = "refund" =>
       /\ orderStatus \in Settled
       /\ q.at = "settle" => paymentStatus = "REFUNDED"

RequestsAreBacked == \A r \in Signals: Backed(req[r])

\* The handler has not run, and nobody is about to run it, before PAID.
HandlerFollowsPaid == orderStatus \notin Settled => handlerRuns = 0

IInv ==
  /\ TypeOK
  /\ RowsAgree
  /\ RequestsAreBacked
  /\ HandlerFollowsPaid
  /\ HandlerAtMostOnce
  /\ DuplicatesAreExtra

\* What no step undoes: captured money stays captured or is given back, keeps
\* its payment id, and a settled order stays settled.
Progress ==
  /\ captured \subseteq captured'
  /\ paymentStatus \in HasMoney =>
       /\ paymentStatus' \in HasMoney
       /\ providerPaymentId' = providerPaymentId
  /\ paymentStatus = "REFUNDED" => paymentStatus' = "REFUNDED"
  /\ orderStatus \in Settled => orderStatus' \in Settled
  /\ orderStatus = "REFUNDED" => orderStatus' = "REFUNDED"

-----------------------------------------------------------------------------
\* A freshly created CREATED order, with no payment row and no request under
\* way, satisfies the invariant.
THEOREM InitIInv == Init => IInv
<1> SUFFICES ASSUME Init PROVE IInv
  OBVIOUS
<1> USE DEF Init
<1>1. TypeOK
  <2>1. Idle \in Request
    BY DEF Idle, Request, Ops, Points
  <2>2. aborts \in 0..MaxAborts
    BY MaxAbortsIsNat
  <2>3. QED
    BY <2>1, <2>2 DEF TypeOK, OrderStatuses, PaymentStatuses
<1>2. RowsAgree /\ HandlerFollowsPaid /\ DuplicatesAreExtra
  BY DEF RowsAgree, HandlerFollowsPaid, DuplicatesAreExtra, Settled, HasMoney
<1>3. RequestsAreBacked /\ HandlerAtMostOnce
  BY DEF RequestsAreBacked, Backed, HandlerAtMostOnce, At, Idle
<1>4. QED
  BY <1>1, <1>2, <1>3 DEF IInv

\* A request that has returned is a request, and runs no handler.
LEMMA IdleIsRequest == Idle \in Request /\ Idle.op = "none"
  BY DEF Idle, Request, Ops, Points

\* Moving a request along keeps everything but its point.
LEMMA MovedRequest ==
  ASSUME NEW q \in Request, NEW point \in Points
  PROVE  /\ [q EXCEPT !.at = point] \in Request
         /\ [q EXCEPT !.at = point].op = q.op
         /\ [q EXCEPT !.at = point].pid = q.pid
         /\ [q EXCEPT !.at = point].at = point
  BY DEF Request

\* What backs a request survives every step that makes progress.
LEMMA BackingIsStable ==
  ASSUME IInv, Progress, NEW r \in Signals, NEW q \in Request,
         req' = [req EXCEPT ![r] = q], Backed(q)'
  PROVE  RequestsAreBacked'
<1> SUFFICES ASSUME NEW s \in Signals PROVE Backed(req[s])'
  BY DEF RequestsAreBacked
<1>1. req \in [Signals -> Request]
  BY DEF IInv, TypeOK
<1>2. CASE s = r
  BY <1>1, <1>2
<1>3. CASE s # r
  <2>1. req'[s] = req[s]
    BY <1>1, <1>3
  <2>2. Backed(req[s])
    BY DEF IInv, RequestsAreBacked
  <2>3. Backed(req[s])'
    BY <2>1, <2>2 DEF Backed, Progress, IInv, RowsAgree, Settled, HasMoney
  <2>4. QED
    BY <2>3
<1>4. QED
  BY <1>2, <1>3

\* The handler's exclusion survives when no request comes to its door.
LEMMA HandlerExclusionIsStable ==
  ASSUME IInv, NEW r \in Signals, NEW q \in Request,
         req' = [req EXCEPT ![r] = q], ~(q.op = "pay" /\ q.at = "handler"),
         handlerRuns' = handlerRuns
  PROVE  HandlerAtMostOnce'
<1>1. \A s \in Signals:
        At(s, "pay", "handler")' => s # r /\ At(s, "pay", "handler")
  BY DEF IInv, TypeOK, At
<1>2. QED
  BY <1>1 DEF IInv, HandlerAtMostOnce

\* A step that only moves one request along, to a point that it is backed for.
LEMMA Advance ==
  ASSUME IInv, NEW r \in Signals, NEW q \in Request,
         req' = [req EXCEPT ![r] = q], Backed(q),
         ~(q.op = "pay" /\ q.at = "handler"),
         UNCHANGED <<orderVars, paymentVars, history>>
  PROVE  IInv' /\ Progress
<1> USE DEF orderVars, paymentVars, history
<1>1. TypeOK'
  BY DEF IInv, TypeOK
<1>2. RowsAgree' /\ HandlerFollowsPaid' /\ DuplicatesAreExtra'
  BY DEF IInv, RowsAgree, HandlerFollowsPaid, DuplicatesAreExtra
<1>3. Progress
  BY DEF Progress
<1>4. Backed(q)'
  BY DEF Backed
<1>5. RequestsAreBacked'
  BY <1>3, <1>4, BackingIsStable
<1>6. HandlerAtMostOnce'
  BY HandlerExclusionIsStable
<1>7. QED
  BY <1>1, <1>2, <1>3, <1>5, <1>6 DEF IInv

\* A step that writes rows and moves one request along, not to the handler.
LEMMA Rewrite ==
  ASSUME IInv, NEW r \in Signals, NEW q \in Request,
         req' = [req EXCEPT ![r] = q], Backed(q)', Progress,
         ~(q.op = "pay" /\ q.at = "handler"), handlerRuns' = handlerRuns,
         TypeOK', RowsAgree', HandlerFollowsPaid', DuplicatesAreExtra'
  PROVE  IInv'
  BY BackingIsStable, HandlerExclusionIsStable DEF IInv

\* A request that returns relies on nothing.
LEMMA Returns ==
  ASSUME IInv, NEW r \in Signals, Return(r),
         UNCHANGED <<orderVars, paymentVars, history>>
  PROVE  IInv' /\ Progress
  BY IdleIsRequest, Advance DEF Return, Backed

\* A request that only reads, and goes on to a point that it is backed for.
LEMMA GoesTo ==
  ASSUME IInv, NEW r \in Signals, NEW point \in Points, Goto(r, point),
         Backed([req[r] EXCEPT !.at = point]),
         ~(req[r].op = "pay" /\ point = "handler"),
         UNCHANGED <<orderVars, paymentVars, history>>
  PROVE  IInv' /\ Progress
<1> DEFINE q == [req[r] EXCEPT !.at = point]
<1>1. req[r] \in Request
  BY DEF IInv, TypeOK
<1>2. q \in Request /\ q.op = req[r].op /\ q.at = point
  BY <1>1, MovedRequest
<1>3. req' = [req EXCEPT ![r] = q]
  BY DEF Goto
<1> HIDE DEF q
<1>4. Backed(q)
  BY DEF q
<1>5. QED
  BY <1>2, <1>3, <1>4, Advance

-----------------------------------------------------------------------------
\* Every signal starts with what its handler relies on: a verify, webhook or

\* reconciliation with a captured payment, a refund with a settled order.
LEMMA BeginPreserves ==
  ASSUME IInv, NEW r \in Signals, Start(r)
  PROVE  IInv' /\ Progress
<1>1. CASE StartOpen(r)
  <2> DEFINE q == [Idle EXCEPT !.op = "open"]
  <2>1. q \in Request /\ Backed(q)
    BY DEF Idle, Request, Ops, Points, Backed
  <2>2. QED
    BY <1>1, <2>1, Advance DEF StartOpen, Begin, Idle
<1>2. CASE StartFail(r)
  <2> DEFINE q == [Idle EXCEPT !.op = "fail"]
  <2>1. q \in Request /\ Backed(q)
    BY DEF Idle, Request, Ops, Points, Backed
  <2>2. QED
    BY <1>2, <2>1, Advance DEF StartFail, Begin, Idle
<1>3. CASE StartExpireCreated(r)
  <2> DEFINE q == [Idle EXCEPT !.op = "expire"]
  <2>1. q \in Request /\ Backed(q)
    BY DEF Idle, Request, Ops, Points, Backed
  <2>2. QED
    BY <1>3, <2>1, Advance DEF StartExpireCreated, Begin, Idle
<1>4. CASE StartExpirePending(r)
  <2> DEFINE q == [Idle EXCEPT !.op = "expire", !.watch = TRUE]
  <2>1. q \in Request /\ Backed(q)
    BY DEF Idle, Request, Ops, Points, Backed
  <2>2. QED
    BY <1>4, <2>1, Advance DEF StartExpirePending, Begin, Idle
<1>5. CASE StartRefund(r)
  <2> DEFINE q == [Idle EXCEPT !.op = "refund"]
  <2>1. q \in Request /\ Backed(q)
    BY <1>5 DEF StartRefund, Idle, Request, Ops, Points, Backed
  <2>2. QED
    BY <1>5, <2>1, Advance DEF StartRefund, Begin, Idle
<1>6. CASE \E p \in Pids, proof \in BOOLEAN: StartPay(r, p, proof)
  <2> PICK p \in Pids, proof \in BOOLEAN: StartPay(r, p, proof)
    BY <1>6
  <2> DEFINE q == [Idle EXCEPT !.op = "pay", !.pid = p, !.proof = proof]
  <2>1. q \in Request /\ Backed(q)
    BY DEF StartPay, Idle, Request, Ops, Points, Backed
  <2>2. QED
    BY <2>1, Advance DEF StartPay, Begin, Idle
<1>7. QED
  BY <1>1, <1>2, <1>3, <1>4, <1>5, <1>6 DEF Start

\* Opening the payment (markPendingPayment, ensureInitiatedPayment) touches only

\* CREATED orders and missing payment rows, so it disturbs nothing settled.
LEMMA OpenPreserves ==
  ASSUME IInv, NEW r \in Signals, OpenStep(r)
  PROVE  IInv' /\ Progress
<1> USE DEF At, Points
<1>q. req[r] \in Request /\ req \in [Signals -> Request]
  BY DEF IInv, TypeOK
<1>1. CASE MarkPendingPayment(r)
  <2>1. CASE orderStatus = "CREATED"
    <3>0. PICK q \in Request: q = [req[r] EXCEPT !.at = "payment"]
      BY <1>q, MovedRequest
    <3>1. /\ orderStatus' = "PENDING_PAYMENT" /\ opened' = TRUE
          /\ req' = [req EXCEPT ![r] = q]
          /\ UNCHANGED <<paymentProvider, lateCaptureAt, lateWatch,
                         paymentVars, history>>
      BY <1>1, <2>1, <3>0 DEF MarkPendingPayment, Goto
    <3>2. q.op = "open"
      BY <1>q, <1>1, <3>0, MovedRequest DEF MarkPendingPayment
    <3>3. /\ TypeOK' /\ RowsAgree' /\ HandlerFollowsPaid'
          /\ DuplicatesAreExtra' /\ Progress /\ Backed(q)'
      BY <2>1, <3>1, <3>2
         DEF IInv, TypeOK, RowsAgree, HandlerFollowsPaid, DuplicatesAreExtra,
             Progress, Backed, OrderStatuses, Settled, HasMoney, paymentVars,
             history
    <3>4. QED
      BY <3>1, <3>2, <3>3, Rewrite DEF history
  <2>2. CASE orderStatus # "CREATED"
    BY <1>q, <1>1, <2>2, MovedRequest, GoesTo
       DEF MarkPendingPayment, Backed, orderVars
  <2>3. QED
    BY <2>1, <2>2
<1>2. CASE MarkPendingMissed(r)
  BY <1>q, <1>2, MovedRequest, GoesTo, Returns DEF MarkPendingMissed, Backed
<1>3. CASE FindInitiatedPayment(r)
  BY <1>q, <1>3, MovedRequest, GoesTo, Returns DEF FindInitiatedPayment, Backed
<1>4. CASE InsertInitiatedPayment(r)
  <2>1. /\ TypeOK' /\ RowsAgree' /\ HandlerFollowsPaid'
        /\ DuplicatesAreExtra' /\ Progress /\ Backed(Idle)'
    BY <1>4, IdleIsRequest
       DEF InsertInitiatedPayment, Return, IInv, TypeOK, RowsAgree,
           HandlerFollowsPaid, DuplicatesAreExtra, Progress, Backed,
           PaymentStatuses, Settled, HasMoney, orderVars, history
  <2>2. QED
    BY <1>4, <2>1, IdleIsRequest, Rewrite
       DEF InsertInitiatedPayment, Return, history
<1>5. QED
  BY <1>1, <1>2, <1>3, <1>4 DEF OpenStep

\* The reads of markOrderPaid send a request only where it is backed.
LEMMA PayReads ==
  ASSUME IInv, NEW r \in Signals,
         \/ PaidReadOrder(r) \/ PaidFindPayment(r) \/ CaptureMissed(r)
         \/ SettleMissed(r)
  PROVE  IInv' /\ Progress
<1> USE DEF At, Points, HasMoney
<1>q. req[r] \in Request /\ Backed(req[r]) /\ RowsAgree
  BY DEF IInv, TypeOK, RequestsAreBacked
<1>1. CASE PaidReadOrder(r)
  <2>1. CASE orderStatus \in Settled
    BY <1>q, <1>1, <2>1, MovedRequest, GoesTo
       DEF PaidReadOrder, Backed, PaidOrderSources, ClosedUnpaid, Settled
  <2>2. CASE orderStatus \in PaidOrderSources(req[r].proof) /\ orderStatus \notin Settled
    <3>a. ASSUME NEW b \in BOOLEAN
          PROVE  [req[r] EXCEPT !.at = "payment", !.late = b] \in Request
      BY <1>q DEF Request
    <3>b. (orderStatus \in ClosedUnpaid) \in BOOLEAN
      OBVIOUS
    <3>0. PICK q \in Request:
            q = [req[r] EXCEPT !.at = "payment",
                               !.late = orderStatus \in ClosedUnpaid]
      BY <3>a, <3>b, Zenon
    <3>1. req' = [req EXCEPT ![r] = q]
      BY <1>1, <2>2, <3>0 DEF PaidReadOrder
    <3>2. q.op = "pay" /\ q.at = "payment" /\ q.pid = req[r].pid
      BY <1>q, <1>1, <3>0 DEF PaidReadOrder, Request
    <3>3. Backed(q)
      BY <1>q, <3>2, <1>1 DEF Backed, PaidReadOrder
    <3>4. QED
      BY <1>1, <3>1, <3>2, <3>3, Advance DEF PaidReadOrder
  <2>3. CASE orderStatus \notin Settled \cup PaidOrderSources(req[r].proof)
    BY <1>1, <2>3, Returns DEF PaidReadOrder
  <2>4. QED
    BY <2>1, <2>2, <2>3
<1>2. CASE PaidFindPayment(r)
  BY <1>q, <1>2, MovedRequest, GoesTo, Returns DEF PaidFindPayment, Backed
<1>3. CASE CaptureMissed(r)
  BY <1>q, <1>3, MovedRequest, GoesTo, Returns DEF CaptureMissed, Backed
<1>4. CASE SettleMissed(r)
  BY <1>q, <1>4, MovedRequest, GoesTo, Returns DEF SettleMissed, Backed
<1>5. QED
  BY <1>1, <1>2, <1>3, <1>4

\* capturePrimaryPayment moves an uncaptured row only, so the payment id of a

\* captured row is never overwritten.
LEMMA CapturePreserves ==
  ASSUME IInv, NEW r \in Signals, CapturePayment(r)
  PROVE  IInv' /\ Progress
<1> USE DEF At, Points, HasMoney
<1>q. /\ req[r] \in Request /\ req \in [Signals -> Request]
      /\ req[r].op = "pay" /\ req[r].pid \in captured
  BY DEF IInv, TypeOK, RequestsAreBacked, Backed, CapturePayment
<1>1. CASE paymentStatus \in CapturedPaymentSources(req[r].proof)
  <2>0. PICK q \in Request: q = [req[r] EXCEPT !.at = "settle"]
    BY <1>q, MovedRequest
  <2>1. /\ paymentStatus' = "CAPTURED" /\ providerPaymentId' = req[r].pid
        /\ req' = [req EXCEPT ![r] = q]
        /\ UNCHANGED <<orderVars, duplicates, history>>
    BY <1>1, <2>0 DEF CapturePayment, Goto
  <2>2. q.op = "pay" /\ q.at = "settle" /\ q.pid = req[r].pid
    BY <1>q, <2>0, MovedRequest
  <2>3. orderStatus \notin Settled /\ paymentStatus \notin HasMoney
    BY <1>1 DEF IInv, RowsAgree, CapturedPaymentSources
  <2>4. TypeOK' /\ RowsAgree' /\ HandlerFollowsPaid'
    BY <1>q, <2>1, <2>3
       DEF IInv, TypeOK, RowsAgree, HandlerFollowsPaid, PaymentStatuses,
           Settled, orderVars, history
  <2>5. DuplicatesAreExtra' /\ Progress /\ Backed(q)'
    BY <1>q, <2>1, <2>2, <2>3
       DEF IInv, DuplicatesAreExtra, Progress, Backed, orderVars, history
  <2>6. QED
    BY <2>1, <2>2, <2>4, <2>5, Rewrite DEF history
<1>2. CASE paymentStatus \notin CapturedPaymentSources(req[r].proof)
  BY <1>q, <1>2, MovedRequest, GoesTo
     DEF CapturePayment, Backed, paymentVars
<1>3. QED
  BY <1>1, <1>2

\* The one step that brings a request to the handler.
LEMMA SettlePaidPreserves ==
  ASSUME IInv, NEW r \in Signals, SettlePaid(r)
  PROVE  IInv' /\ Progress
<1> USE DEF At, Points, HasMoney
<1>q. /\ req[r] \in Request /\ req \in [Signals -> Request]
      /\ req[r].op = "pay" /\ req[r].pid \in captured
      /\ paymentStatus \in HasMoney
  BY DEF IInv, TypeOK, RequestsAreBacked, Backed, SettlePaid
<1>1. CASE orderStatus \in PaidOrderSources(req[r].proof)
  <2>0. PICK q \in Request: q = [req[r] EXCEPT !.at = "handler"]
    BY <1>q, MovedRequest
  <2>1. /\ orderStatus' = "PAID"
        /\ lateCaptureAt' = (lateCaptureAt \/ req[r].late)
        /\ req' = [req EXCEPT ![r] = q]
        /\ UNCHANGED <<paymentProvider, opened, lateWatch, paymentVars, history>>
    BY <1>1, <2>0 DEF SettlePaid, Goto
  <2>2. q.op = "pay" /\ q.at = "handler" /\ q.pid = req[r].pid
    BY <1>q, <2>0, MovedRequest
  <2>3. orderStatus \notin Settled /\ handlerRuns = 0
    BY <1>1 DEF IInv, HandlerFollowsPaid, PaidOrderSources, ClosedUnpaid, Settled
  <2>4. TypeOK' /\ RowsAgree' /\ HandlerFollowsPaid'
    BY <1>q, <2>1, <2>3
       DEF IInv, TypeOK, RowsAgree, HandlerFollowsPaid, OrderStatuses,
           Settled, Request, paymentVars, history
  <2>5. DuplicatesAreExtra' /\ Progress /\ Backed(q)'
    BY <1>q, <2>1, <2>2, <2>3
       DEF IInv, DuplicatesAreExtra, Progress, Backed, Settled, paymentVars,
           history
  <2>6. \A s \in Signals: ~At(s, "pay", "handler")
    BY <2>3 DEF IInv, RequestsAreBacked, Backed
  <2>7. \A s \in Signals: At(s, "pay", "handler")' => s = r
    BY <1>q, <2>1, <2>6
  <2>8. HandlerAtMostOnce'
    BY <2>1, <2>3, <2>7 DEF HandlerAtMostOnce, history
  <2>9. QED
    BY <2>1, <2>4, <2>5, <2>8, BackingIsStable DEF IInv
<1>2. CASE orderStatus \notin PaidOrderSources(req[r].proof)
  BY <1>q, <1>2, MovedRequest, GoesTo DEF SettlePaid, Backed, orderVars
<1>3. QED
  BY <1>1, <1>2

\* The winner of the order write runs the handler, and nobody else is there.
LEMMA RunPaidHandlerPreserves ==
  ASSUME IInv, NEW r \in Signals, RunPaidHandler(r)
  PROVE  IInv' /\ Progress
<1> USE DEF At, Points, HasMoney
<1>1. /\ handlerRuns' = 1 /\ handlerRuns = 0
      /\ acked' = acked \cup {req[r].pid}
      /\ req' = [req EXCEPT ![r] = Idle]
      /\ UNCHANGED <<orderVars, paymentVars, captured, aborts>>
  BY DEF RunPaidHandler, Acknowledge, Return, IInv, HandlerAtMostOnce
<1>2. orderStatus \in Settled /\ req[r].pid \in captured
  BY DEF RunPaidHandler, IInv, RequestsAreBacked, Backed
<1>3. TypeOK' /\ RowsAgree' /\ HandlerFollowsPaid' /\ DuplicatesAreExtra'
  BY <1>1, <1>2, IdleIsRequest
     DEF IInv, TypeOK, RowsAgree, HandlerFollowsPaid, DuplicatesAreExtra,
         orderVars, paymentVars
<1>4. Progress /\ Backed(Idle)'
  BY <1>1, IdleIsRequest DEF Progress, Backed, Idle, orderVars, paymentVars
<1>5. \A s \in Signals: ~At(s, "pay", "handler")'
  <2>1. \A s \in Signals: At(s, "pay", "handler") => s = r
    BY DEF RunPaidHandler, IInv, HandlerAtMostOnce
  <2>2. QED
    BY <1>1, <2>1, IdleIsRequest DEF IInv, TypeOK
<1>6. HandlerAtMostOnce'
  BY <1>1, <1>5 DEF HandlerAtMostOnce
<1>7. RequestsAreBacked'
  BY <1>1, <1>4, IdleIsRequest, BackingIsStable
<1>8. QED
  BY <1>3, <1>4, <1>6, <1>7 DEF IInv

\* recordDuplicateCapture runs on a settled order, for a payment that is not its

\* primary payment.
LEMMA DuplicatePreserves ==
  ASSUME IInv, NEW r \in Signals, FindDuplicate(r) \/ InsertDuplicate(r)
  PROVE  IInv' /\ Progress
<1> USE DEF At, Points, HasMoney
<1>q. /\ req[r] \in Request /\ req \in [Signals -> Request]
      /\ req[r].op = "pay" /\ req[r].pid \in captured
      /\ orderStatus \in Settled
  BY DEF IInv, TypeOK, RequestsAreBacked, Backed, FindDuplicate, InsertDuplicate
<1>p. captured \subseteq Pids
  BY DEF IInv, TypeOK
<1>1. CASE FindDuplicate(r) /\ providerPaymentId \notin {NoPid, req[r].pid}
  BY <1>q, <1>1, MovedRequest, GoesTo DEF FindDuplicate, Backed, history
<1>2. CASE \/ FindDuplicate(r) /\ providerPaymentId \in {NoPid, req[r].pid}
           \/ InsertDuplicate(r)
  <2>1. /\ duplicates' \subseteq duplicates \cup ({req[r].pid} \ {providerPaymentId})
        /\ acked' = acked \cup {req[r].pid}
        /\ req' = [req EXCEPT ![r] = Idle]
        /\ UNCHANGED <<orderVars, paymentStatus, providerPaymentId, captured,
                       handlerRuns, aborts>>
    BY <1>2
       DEF FindDuplicate, InsertDuplicate, Acknowledge, Return, paymentVars
  <2>2. TypeOK' /\ RowsAgree' /\ HandlerFollowsPaid' /\ DuplicatesAreExtra'
    BY <1>q, <1>p, <2>1, IdleIsRequest
       DEF IInv, TypeOK, RowsAgree, HandlerFollowsPaid, DuplicatesAreExtra,
           orderVars
  <2>3. Progress /\ Backed(Idle)'
    BY <2>1, IdleIsRequest DEF Progress, Backed, Idle, orderVars
  <2>4. QED
    BY <2>1, <2>2, <2>3, IdleIsRequest, Rewrite
<1>3. QED
  BY <1>1, <1>2

\* markOrderFailed writes FAILED on rows without money only.
LEMMA FailPreserves ==
  ASSUME IInv, NEW r \in Signals, FailStep(r)
  PROVE  IInv' /\ Progress
<1> USE DEF At, Points, HasMoney
<1>q. req[r] \in Request /\ req \in [Signals -> Request]
  BY DEF IInv, TypeOK
<1>1. CASE FailReadOrder(r)
  BY <1>q, <1>1, MovedRequest, GoesTo, Returns DEF FailReadOrder, Backed
<1>2. CASE FailFindPayment(r)
  BY <1>q, <1>2, MovedRequest, GoesTo, Returns DEF FailFindPayment, Backed
<1>3. CASE DeclinePayment(r)
  <2>0. PICK q \in Request: q = [req[r] EXCEPT !.at = "recheck"]
    BY <1>q, MovedRequest
  <2>1. /\ paymentStatus' = IF paymentStatus \in {"INITIATED", "AUTHORIZED"}
                              THEN "FAILED" ELSE paymentStatus
        /\ req' = [req EXCEPT ![r] = q]
        /\ UNCHANGED <<orderVars, providerPaymentId, duplicates, history>>
    BY <1>3, <2>0 DEF DeclinePayment, Goto
  <2>2. q.op = "fail"
    BY <1>q, <1>3, <2>0, MovedRequest DEF DeclinePayment
  <2>3. /\ TypeOK' /\ RowsAgree' /\ HandlerFollowsPaid'
        /\ DuplicatesAreExtra' /\ Progress /\ Backed(q)'
    BY <1>q, <2>1, <2>2
       DEF IInv, TypeOK, RowsAgree, HandlerFollowsPaid, DuplicatesAreExtra,
           Progress, Backed, PaymentStatuses, orderVars, history
  <2>4. QED
    BY <2>1, <2>2, <2>3, Rewrite DEF history
<1>4. CASE RecheckPayment(r)
  BY <1>q, <1>4, MovedRequest, GoesTo, Returns DEF RecheckPayment, Backed
<1>5. CASE SettleFailed(r)
  <2>1. /\ TypeOK' /\ RowsAgree' /\ HandlerFollowsPaid'
        /\ DuplicatesAreExtra' /\ Progress /\ Backed(Idle)'
    BY <1>5, IdleIsRequest
       DEF SettleFailed, Return, IInv, TypeOK, RowsAgree, HandlerFollowsPaid,
           DuplicatesAreExtra, Progress, Backed, OrderStatuses, Settled,
           paymentVars, history
  <2>2. QED
    BY <1>5, <2>1, IdleIsRequest, Rewrite DEF SettleFailed, Return, history
<1>6. QED
  BY <1>1, <1>2, <1>3, <1>4, <1>5 DEF FailStep

\* markOrderExpired never writes a settled order.
LEMMA ExpirePreserves ==
  ASSUME IInv, NEW r \in Signals, ExpireStep(r)
  PROVE  IInv' /\ Progress
<1> USE DEF At, Points, HasMoney
<1>q. req[r] \in Request /\ req \in [Signals -> Request]
  BY DEF IInv, TypeOK
<1>1. CASE ExpireReadOrder(r)
  BY <1>q, <1>1, MovedRequest, GoesTo, Returns DEF ExpireReadOrder, Backed
<1>2. CASE ExpireFindPayment(r)
  BY <1>q, <1>2, MovedRequest, GoesTo, Returns DEF ExpireFindPayment, Backed
<1>3. CASE SettleAbandoned(r) \/ SettleExpired(r)
  <2>1. /\ orderStatus' \in {orderStatus, "EXPIRED"}
        /\ orderStatus \in Settled => orderStatus' = orderStatus
        /\ lateWatch' \in BOOLEAN
        /\ req' = [req EXCEPT ![r] = Idle]
        /\ UNCHANGED <<paymentProvider, opened, lateCaptureAt, paymentVars,
                       history>>
    BY <1>q, <1>3
       DEF SettleAbandoned, SettleExpired, Return, Settled, Request, IInv,
           TypeOK
  <2>2. TypeOK' /\ RowsAgree' /\ HandlerFollowsPaid'
    BY <2>1, IdleIsRequest
       DEF IInv, TypeOK, RowsAgree, HandlerFollowsPaid, OrderStatuses,
           Settled, paymentVars, history
  <2>3. DuplicatesAreExtra' /\ Progress /\ Backed(Idle)'
    BY <2>1, IdleIsRequest
       DEF IInv, DuplicatesAreExtra, Progress, Backed, Settled, paymentVars,
           history
  <2>4. QED
    BY <2>1, <2>2, <2>3, IdleIsRequest, Rewrite DEF history
<1>4. QED
  BY <1>1, <1>2, <1>3 DEF ExpireStep

\* markOrderRefunded writes the payment first, so a REFUNDED order always has

\* a REFUNDED payment.
LEMMA RefundPreserves ==
  ASSUME IInv, NEW r \in Signals, RefundStep(r)
  PROVE  IInv' /\ Progress
<1> USE DEF At, Points, HasMoney
<1>q. /\ req[r] \in Request /\ req \in [Signals -> Request]
      /\ req[r].op = "refund" /\ orderStatus \in Settled
  BY DEF IInv, TypeOK, RequestsAreBacked, Backed, RefundStep, RefundReadOrder,
         RefundFindPayment, ReturnPayment, ReturnMissed, SettleRefunded
<1>1. CASE RefundReadOrder(r)
  BY <1>q, <1>1, MovedRequest, GoesTo, Returns DEF RefundReadOrder, Backed
<1>2. CASE RefundFindPayment(r)
  BY <1>q, <1>2, MovedRequest, GoesTo, Returns DEF RefundFindPayment, Backed
<1>3. CASE ReturnPayment(r)
  <2>1. CASE paymentStatus = "CAPTURED"
    <3>0. PICK q \in Request: q = [req[r] EXCEPT !.at = "settle"]
      BY <1>q, MovedRequest
    <3>1. /\ paymentStatus' = "REFUNDED"
          /\ req' = [req EXCEPT ![r] = q]
          /\ UNCHANGED <<orderVars, providerPaymentId, duplicates, history>>
      BY <1>3, <2>1, <3>0 DEF ReturnPayment, Goto
    <3>2. q.op = "refund"
      BY <1>q, <3>0, MovedRequest
    <3>3. /\ TypeOK' /\ RowsAgree' /\ HandlerFollowsPaid'
          /\ DuplicatesAreExtra' /\ Progress /\ Backed(q)'
      BY <1>q, <2>1, <3>1, <3>2
         DEF IInv, TypeOK, RowsAgree, HandlerFollowsPaid, DuplicatesAreExtra,
             Progress, Backed, PaymentStatuses, orderVars, history
    <3>4. QED
      BY <3>1, <3>2, <3>3, Rewrite DEF history
  <2>2. CASE paymentStatus # "CAPTURED"
    BY <1>q, <1>3, <2>2, MovedRequest, GoesTo
       DEF ReturnPayment, Backed, paymentVars
  <2>3. QED
    BY <2>1, <2>2
<1>4. CASE ReturnMissed(r)
  BY <1>q, <1>4, MovedRequest, GoesTo, Returns DEF ReturnMissed, Backed
<1>5. CASE SettleRefunded(r)
  <2>0. paymentStatus = "REFUNDED"
    BY <1>5 DEF SettleRefunded, IInv, RequestsAreBacked, Backed
  <2>1. /\ TypeOK' /\ RowsAgree' /\ HandlerFollowsPaid'
        /\ DuplicatesAreExtra' /\ Progress /\ Backed(Idle)'
    BY <1>q, <1>5, <2>0, IdleIsRequest
       DEF SettleRefunded, Return, IInv, TypeOK, RowsAgree,
           HandlerFollowsPaid, DuplicatesAreExtra, Progress, Backed,
           OrderStatuses, Settled, paymentVars, history
  <2>2. QED
    BY <1>5, <2>1, IdleIsRequest, Rewrite DEF SettleRefunded, Return, history
<1>6. QED
  BY <1>1, <1>2, <1>3, <1>4, <1>5 DEF RefundStep

\* A request lost between two database calls leaves the rows consistent.
LEMMA AbortPreserves ==
  ASSUME IInv, NEW r \in Signals, Abort(r)
  PROVE  IInv' /\ Progress
<1>1. /\ aborts' \in 0..MaxAborts
      /\ req' = [req EXCEPT ![r] = Idle]
      /\ UNCHANGED <<orderVars, paymentVars, captured, handlerRuns, acked>>
  BY MaxAbortsIsNat DEF Abort, Return, IInv, TypeOK
<1>2. /\ TypeOK' /\ RowsAgree' /\ HandlerFollowsPaid'
      /\ DuplicatesAreExtra' /\ Progress /\ Backed(Idle)'
  BY <1>1, IdleIsRequest
     DEF IInv, TypeOK, RowsAgree, HandlerFollowsPaid, DuplicatesAreExtra,
         Progress, Backed, orderVars, paymentVars
<1>3. QED
  BY <1>1, <1>2, IdleIsRequest, Rewrite

\* A capture at the provider changes no row.
LEMMA CustomerPaysPreserves ==
  ASSUME IInv, NEW p \in Pids, CustomerPays(p)
  PROVE  IInv' /\ Progress
  BY DEF CustomerPays, IInv, TypeOK, RowsAgree, RequestsAreBacked, Backed, At,
         HandlerFollowsPaid, HandlerAtMostOnce, DuplicatesAreExtra, Progress,
         orderVars, paymentVars

-----------------------------------------------------------------------------
\* Every database step of every handler keeps IInv and undoes nothing.
LEMMA StepPreserves ==
  ASSUME IInv, NEW r \in Signals, Step(r)
  PROVE  IInv' /\ Progress
<1>1. CASE PayStep(r)
  BY <1>1, PayReads, CapturePreserves, SettlePaidPreserves,
     RunPaidHandlerPreserves, DuplicatePreserves
     DEF PayStep
<1>2. QED
  BY <1>1, OpenPreserves, FailPreserves, ExpirePreserves, RefundPreserves
     DEF Step

\* The induction step: every action keeps IInv and undoes nothing.
THEOREM NextPreservesIInv == IInv /\ [Next]_vars => IInv' /\ Progress
<1> SUFFICES ASSUME IInv, [Next]_vars PROVE IInv' /\ Progress
  OBVIOUS
<1>1. CASE UNCHANGED vars
  BY <1>1
     DEF vars, orderVars, paymentVars, history, IInv, TypeOK, RowsAgree,
         RequestsAreBacked, Backed, At, HandlerFollowsPaid, HandlerAtMostOnce,
         DuplicatesAreExtra, Progress
<1>2. CASE Next
  BY <1>2, BeginPreserves, StepPreserves, AbortPreserves,
     CustomerPaysPreserves
     DEF Next
<1>3. QED
  BY <1>1, <1>2

\* IInv holds in every state, whatever the requests and payments.
THEOREM Invariance == Spec => []IInv
<1>1. Init => IInv
  BY InitIInv
<1>2. IInv /\ [Next]_vars => IInv'
  BY NextPreservesIInv
<1>3. QED
  BY <1>1, <1>2, PTL DEF Spec

\* Every variable keeps its type: in particular no status outside the tables.
THEOREM TypeCorrect == Spec => []TypeOK
<1>1. IInv => TypeOK
  BY DEF IInv
<1>2. QED
  BY <1>1, Invariance, PTL

\* Any number of concurrent captures runs the paid handler at most once.
THEOREM PaidHandlerRunsAtMostOnce == Spec => []HandlerAtMostOnce
<1>1. IInv => HandlerAtMostOnce
  BY DEF IInv
<1>2. QED
  BY <1>1, Invariance, PTL

\* PAID and REFUNDED orders rest on a payment the provider captured.
THEOREM PaidOrdersAreCaptured == Spec => []SettledIsCaptured
<1>1. IInv => SettledIsCaptured
  BY DEF IInv, RowsAgree, SettledIsCaptured, HasMoney
<1>2. QED
  BY <1>1, Invariance, PTL

\* What is auto-refunded as a duplicate is never the payment of the order.
THEOREM OnlyExtraMoneyIsDuplicate == Spec => []DuplicatesAreExtra
<1>1. IInv => DuplicatesAreExtra
  BY DEF IInv
<1>2. QED
  BY <1>1, Invariance, PTL

\* Whatever interleaves, captured money is never uncaptured, the payment id

\* that captured it never changes, and a settled order never reopens.
THEOREM MoneyNeverMovesBack == Spec => [][Progress]_vars
<1>1. IInv /\ [Next]_vars => [Progress]_vars
  BY NextPreservesIInv
<1>2. QED
  BY <1>1, Invariance, PTL DEF Spec

-----------------------------------------------------------------------------
(* No captured payment is stranded: while no request is lost, an order that   *)
(* is still unpaid has the request that captured its payment on its way.      *)

\* A razorpay signal carries proof, so that FAILED and EXPIRED do not stop it.
PaymentsAreProven == Razorpay => \A r \in Signals: req[r].op = "pay" => req[r].proof

\* A payment row, or a request about to create it, means checkout has opened
\* the order; and nothing cancels an order.
OpenedFirst ==
  /\ orderStatus # "CANCELLED"
  /\ paymentStatus # "NONE" => orderStatus # "CREATED"
  /\ \A r \in Signals:
       req[r].op = "open" /\ req[r].at \in {"payment", "insert"}
         => orderStatus # "CREATED"

\* Somebody who saw the captured payment is about to settle the order.
CaptureIsCarried ==
  Razorpay /\ aborts = 0 /\ paymentStatus = "CAPTURED" /\ orderStatus \notin Settled
    => \E r \in Signals: At(r, "pay", "settle")

CarriedInv == PaymentsAreProven /\ OpenedFirst /\ CaptureIsCarried

\* A request that moves along, or returns, keeps its op and its proof or has
\* neither; every other request stays where it is.
LEMMA OthersStay ==
  ASSUME IInv, NEW r \in Signals, Step(r) \/ Abort(r)
  PROVE  /\ req' \in [Signals -> Request]
         /\ \A s \in Signals \ {r}: req'[s] = req[s]
         /\ \/ req'[r].op = req[r].op /\ req'[r].proof = req[r].proof
            \/ req'[r].op = "none"
         /\ UNCHANGED paymentProvider
<1>1. IInv'
  <2>1. Next
    BY DEF Next
  <2>2. QED
    BY <2>1, NextPreservesIInv
<1>2. req \in [Signals -> Request] /\ req' \in [Signals -> Request]
  BY <1>1 DEF IInv, TypeOK
<1> USE DEF Goto, Return, Acknowledge, orderVars, Idle, Request
<1>3. CASE Abort(r)
  BY <1>2, <1>3 DEF Abort
<1>4. CASE OpenStep(r)
  BY <1>2, <1>4
     DEF OpenStep, MarkPendingPayment, MarkPendingMissed,
         FindInitiatedPayment, InsertInitiatedPayment
<1>5. CASE PayStep(r)
  BY <1>2, <1>5
     DEF PayStep, PaidReadOrder, PaidFindPayment, CapturePayment,
         CaptureMissed, SettlePaid, SettleMissed, RunPaidHandler,
         FindDuplicate, InsertDuplicate
<1>6. CASE FailStep(r)
  BY <1>2, <1>6
     DEF FailStep, FailReadOrder, FailFindPayment, DeclinePayment,
         RecheckPayment, SettleFailed
<1>7. CASE ExpireStep(r)
  BY <1>2, <1>7
     DEF ExpireStep, ExpireReadOrder, SettleAbandoned, ExpireFindPayment,
         SettleExpired
<1>8. CASE RefundStep(r)
  BY <1>2, <1>8
     DEF RefundStep, RefundReadOrder, RefundFindPayment, ReturnPayment,
         ReturnMissed, SettleRefunded
<1>9. QED
  BY <1>3, <1>4, <1>5, <1>6, <1>7, <1>8 DEF Step

\* A signal that begins finds its request idle and writes no row.
LEMMA Begins ==
  ASSUME IInv, NEW r \in Signals, Start(r)
  PROVE  \E q \in Request:
           /\ req[r] = Idle /\ req' = [req EXCEPT ![r] = q]
           /\ q.op = "pay" => (Razorpay => q.proof)
           /\ q.op = "open" => q.at = "start"
           /\ UNCHANGED <<orderVars, paymentVars, history>>
<1> USE DEF Begin, Idle, Request, Ops, Points
<1>1. CASE \E p \in Pids, proof \in BOOLEAN: StartPay(r, p, proof)
  <2> PICK p \in Pids, proof \in BOOLEAN: StartPay(r, p, proof)
    BY <1>1
  <2> DEFINE q == [Idle EXCEPT !.op = "pay", !.pid = p, !.proof = proof]
  <2>1. q \in Request /\ q.op = "pay" /\ q.proof = proof
    OBVIOUS
  <2>2. QED
    BY <2>1 DEF StartPay
<1>2. CASE StartOpen(r)
  <2> DEFINE q == [Idle EXCEPT !.op = "open"]
  <2>1. q \in Request /\ q.op = "open" /\ q.at = "start"
    OBVIOUS
  <2>2. QED
    BY <1>2, <2>1 DEF StartOpen
<1>3. CASE StartFail(r)
  <2> DEFINE q == [Idle EXCEPT !.op = "fail"]
  <2>1. q \in Request /\ q.op = "fail"
    OBVIOUS
  <2>2. QED
    BY <1>3, <2>1 DEF StartFail
<1>4. CASE StartExpireCreated(r)
  <2> DEFINE q == [Idle EXCEPT !.op = "expire"]
  <2>1. q \in Request /\ q.op = "expire"
    OBVIOUS
  <2>2. QED
    BY <1>4, <2>1 DEF StartExpireCreated
<1>5. CASE StartExpirePending(r)
  <2> DEFINE q == [Idle EXCEPT !.op = "expire", !.watch = TRUE]
  <2>1. q \in Request /\ q.op = "expire"
    OBVIOUS
  <2>2. QED
    BY <1>5, <2>1 DEF StartExpirePending
<1>6. CASE StartRefund(r)
  <2> DEFINE q == [Idle EXCEPT !.op = "refund"]
  <2>1. q \in Request /\ q.op = "refund"
    OBVIOUS
  <2>2. QED
    BY <1>6, <2>1 DEF StartRefund
<1>7. QED
  BY <1>1, <1>2, <1>3, <1>4, <1>5, <1>6 DEF Start

\* Rows: only checkout creates the payment row, after it has opened the order,
\* and no write takes an order back to CREATED or to CANCELLED.
LEMMA OpenedFirstIsStable ==
  ASSUME IInv, OpenedFirst, NEW r \in Signals, Step(r) \/ Abort(r)
  PROVE  OpenedFirst'
<1>1. orderStatus' # "CANCELLED" /\ (orderStatus' = "CREATED" => orderStatus = "CREATED")
  BY DEF OpenedFirst, Step, Abort, OpenStep, MarkPendingPayment,
         MarkPendingMissed, FindInitiatedPayment, InsertInitiatedPayment,
         PayStep, PaidReadOrder, PaidFindPayment, CapturePayment,
         CaptureMissed, SettlePaid, SettleMissed, RunPaidHandler,
         FindDuplicate, InsertDuplicate, FailStep, FailReadOrder,
         FailFindPayment, DeclinePayment, RecheckPayment, SettleFailed,
         ExpireStep, ExpireReadOrder, SettleAbandoned, ExpireFindPayment,
         SettleExpired, RefundStep, RefundReadOrder, RefundFindPayment,
         ReturnPayment, ReturnMissed, SettleRefunded, orderVars
<1>2. paymentStatus' # "NONE" => paymentStatus # "NONE" \/ orderStatus # "CREATED"
  BY DEF OpenedFirst, Step, Abort, OpenStep, MarkPendingPayment,
         MarkPendingMissed, FindInitiatedPayment, InsertInitiatedPayment, At,
         PayStep, PaidReadOrder, PaidFindPayment, CapturePayment,
         CapturedPaymentSources,
         CaptureMissed, SettlePaid, SettleMissed, RunPaidHandler,
         FindDuplicate, InsertDuplicate, FailStep, FailReadOrder,
         FailFindPayment, DeclinePayment, RecheckPayment, SettleFailed,
         ExpireStep, ExpireReadOrder, SettleAbandoned, ExpireFindPayment,
         SettleExpired, RefundStep, RefundReadOrder, RefundFindPayment,
         ReturnPayment, ReturnMissed, SettleRefunded, paymentVars
<1>3. ASSUME req'[r].op = "open", req'[r].at \in {"payment", "insert"}
      PROVE  orderStatus' # "CREATED"
  <2>1. req[r].op = "open" /\ ~Abort(r) /\ OpenStep(r)
    <3>1. req[r].op = "open"
      BY <1>3, OthersStay
    <3>2. ~Abort(r)
      BY <1>3, OthersStay DEF Abort, Return, Idle, IInv, TypeOK
    <3>3. QED
      BY <3>1, <3>2
         DEF Step, At, PayStep, PaidReadOrder, PaidFindPayment,
             CapturePayment, CaptureMissed, SettlePaid, SettleMissed,
             RunPaidHandler, FindDuplicate, InsertDuplicate, FailStep,
             FailReadOrder, FailFindPayment, DeclinePayment, RecheckPayment,
             SettleFailed, ExpireStep, ExpireReadOrder, SettleAbandoned,
             ExpireFindPayment, SettleExpired, RefundStep, RefundReadOrder,
             RefundFindPayment, ReturnPayment, ReturnMissed, SettleRefunded
  <2>2. req \in [Signals -> Request]
    BY DEF IInv, TypeOK
  <2>3. QED
    BY <1>1, <1>3, <2>1, <2>2
       DEF OpenedFirst, OpenStep, MarkPendingPayment, MarkPendingMissed,
           FindInitiatedPayment, InsertInitiatedPayment, At, Goto, Return,
           Idle
<1>4. QED
  BY <1>1, <1>2, <1>3, OthersStay DEF OpenedFirst

\* The compare-and-set of a request that carries the capture cannot miss: a
\* proven payment moves an order from every status an opened order can have.
LEMMA CarrierSettles ==
  ASSUME IInv, CarriedInv, NEW r \in Signals, Step(r), Razorpay,
         At(r, "pay", "settle"), orderStatus \notin Settled,
         paymentStatus = "CAPTURED"
  PROVE  orderStatus' = "PAID"
<1>1. SettlePaid(r)
  BY DEF Step, At, OpenStep, MarkPendingPayment, MarkPendingMissed,
         FindInitiatedPayment, InsertInitiatedPayment, PayStep, PaidReadOrder,
         PaidFindPayment, CapturePayment, CaptureMissed, SettleMissed,
         RunPaidHandler, FindDuplicate, InsertDuplicate, FailStep,
         FailReadOrder, FailFindPayment, DeclinePayment, RecheckPayment,
         SettleFailed, ExpireStep, ExpireReadOrder, SettleAbandoned,
         ExpireFindPayment, SettleExpired, RefundStep, RefundReadOrder,
         RefundFindPayment, ReturnPayment, ReturnMissed, SettleRefunded
<1>2. req[r].proof
  BY DEF CarriedInv, PaymentsAreProven, At
<1>3. orderStatus \in OrderStatuses \ {"CREATED", "CANCELLED", "PAID", "REFUNDED"}
  BY DEF CarriedInv, OpenedFirst, IInv, TypeOK, Settled
<1>4. orderStatus \in PaidOrderSources(req[r].proof)
  BY <1>2, <1>3 DEF OrderStatuses, PaidOrderSources, ClosedUnpaid
<1>5. QED
  BY <1>1, <1>4 DEF SettlePaid

\* Only the capture itself makes the payment CAPTURED, and the request that
\* did it goes on to settle the order.
LEMMA CapturerCarries ==
  ASSUME IInv, NEW r \in Signals, Step(r), paymentStatus # "CAPTURED",
         paymentStatus' = "CAPTURED"
  PROVE  At(r, "pay", "settle")'
<1>1. CapturePayment(r)
  BY DEF Step, OpenStep, MarkPendingPayment, MarkPendingMissed,
         FindInitiatedPayment, InsertInitiatedPayment, PayStep, PaidReadOrder,
         PaidFindPayment, CaptureMissed, SettlePaid, SettleMissed,
         RunPaidHandler, FindDuplicate, InsertDuplicate, FailStep,
         FailReadOrder, FailFindPayment, DeclinePayment, RecheckPayment,
         SettleFailed, ExpireStep, ExpireReadOrder, SettleAbandoned,
         ExpireFindPayment, SettleExpired, RefundStep, RefundReadOrder,
         RefundFindPayment, ReturnPayment, ReturnMissed, SettleRefunded,
         paymentVars
<1>2. req \in [Signals -> Request]
  BY DEF IInv, TypeOK
<1>3. QED
  BY <1>1, <1>2 DEF CapturePayment, Goto, At, Request

\* The fewest requests that can be lost is none, and a step loses none.
LEMMA StepsLoseNothing ==
  ASSUME NEW r \in Signals, Step(r)
  PROVE  aborts' = aborts
  BY DEF Step, OpenStep, MarkPendingPayment, MarkPendingMissed,
         FindInitiatedPayment, InsertInitiatedPayment, PayStep, PaidReadOrder,
         PaidFindPayment, CapturePayment, CaptureMissed, SettlePaid,
         SettleMissed, RunPaidHandler, FindDuplicate, InsertDuplicate,
         FailStep, FailReadOrder, FailFindPayment, DeclinePayment,
         RecheckPayment, SettleFailed, ExpireStep, ExpireReadOrder,
         SettleAbandoned, ExpireFindPayment, SettleExpired, RefundStep,
         RefundReadOrder, RefundFindPayment, ReturnPayment, ReturnMissed,
         SettleRefunded, history

\* A step of a handler keeps the capture on its way until the order is PAID.
LEMMA StepCarries ==
  ASSUME IInv, CarriedInv, NEW r \in Signals, Step(r)
  PROVE  CarriedInv'
<1> USE DEF Razorpay
<1>1. Progress
  BY StepPreserves
<1>2. PaymentsAreProven'
  BY OthersStay DEF CarriedInv, PaymentsAreProven
<1>3. CaptureIsCarried'
  <2> SUFFICES ASSUME Razorpay', aborts' = 0, paymentStatus' = "CAPTURED",
                      orderStatus' \notin Settled
               PROVE  \E s \in Signals: At(s, "pay", "settle")'
    BY DEF CaptureIsCarried
  <2>1. Razorpay /\ aborts = 0 /\ orderStatus \notin Settled
    BY <1>1, OthersStay, StepsLoseNothing DEF Progress
  <2>2. CASE paymentStatus # "CAPTURED"
    BY <2>2, CapturerCarries
  <2>3. CASE paymentStatus = "CAPTURED"
    <3>1. PICK s \in Signals: At(s, "pay", "settle")
      BY <2>1, <2>3 DEF CarriedInv, CaptureIsCarried
    <3>2. s # r
      BY <2>1, <2>3, <3>1, CarrierSettles DEF Settled
    <3>3. QED
      BY <3>1, <3>2, OthersStay DEF At
  <2>4. QED
    BY <2>2, <2>3
<1>4. QED
  BY <1>2, <1>3, OpenedFirstIsStable DEF CarriedInv

\* A request that starts carries nothing yet, and takes no carrier's place.
LEMMA StartCarries ==
  ASSUME IInv, CarriedInv, NEW r \in Signals, Start(r)
  PROVE  CarriedInv'
<1> USE DEF Razorpay, orderVars, paymentVars, history
<1>1. PICK q \in Request:
        /\ req[r] = Idle /\ req' = [req EXCEPT ![r] = q]
        /\ q.op = "pay" => (Razorpay => q.proof)
        /\ q.op = "open" => q.at = "start"
        /\ UNCHANGED <<orderVars, paymentVars, history>>
  BY Begins
<1>2. req \in [Signals -> Request]
  BY DEF IInv, TypeOK
<1>3. PaymentsAreProven' /\ OpenedFirst'
  BY <1>1, <1>2 DEF CarriedInv, PaymentsAreProven, OpenedFirst
<1>4. CaptureIsCarried'
  BY <1>1, <1>2 DEF CarriedInv, CaptureIsCarried, At, Idle
<1>5. QED
  BY <1>3, <1>4 DEF CarriedInv

\* CarriedInv is inductive together with IInv.
LEMMA NextPreservesCarriedInv ==
  ASSUME IInv, CarriedInv, [Next]_vars
  PROVE  CarriedInv'
<1> USE DEF Razorpay
<1>1. CASE UNCHANGED vars
  BY <1>1
     DEF vars, orderVars, paymentVars, history, CarriedInv, PaymentsAreProven,
         OpenedFirst, CaptureIsCarried, At
<1>2. ASSUME NEW p \in Pids, CustomerPays(p) PROVE CarriedInv'
  BY <1>2
     DEF CustomerPays, orderVars, paymentVars, CarriedInv, PaymentsAreProven,
         OpenedFirst, CaptureIsCarried, At
<1>3. ASSUME NEW r \in Signals, Abort(r) PROVE CarriedInv'
  <2>1. PaymentsAreProven'
    BY <1>3, OthersStay DEF CarriedInv, PaymentsAreProven
  <2>2. CaptureIsCarried'
    BY <1>3, MaxAbortsIsNat DEF Abort, IInv, TypeOK, CaptureIsCarried
  <2>3. QED
    BY <1>3, <2>1, <2>2, OpenedFirstIsStable DEF CarriedInv
<1>4. QED
  BY <1>1, <1>2, <1>3, StepCarries, StartCarries DEF Next

\* However expiry, failure and any number of captures interleave, a captured
\* razorpay payment is not left on an unpaid order unless a request was lost.
THEOREM NoCaptureIsStranded == Spec => []NoStrandedCapture
<1>1. Init => CarriedInv
  BY DEF Init, CarriedInv, PaymentsAreProven, OpenedFirst, CaptureIsCarried,
         Idle
<1>2. IInv /\ CarriedInv /\ [Next]_vars => CarriedInv'
  BY NextPreservesCarriedInv
<1>3. IInv /\ CarriedInv => NoStrandedCapture
  BY DEF IInv, TypeOK, RowsAgree, CarriedInv, CaptureIsCarried,
         NoStrandedCapture, AtRest, At, Idle, Settled
<1>4. QED
  BY <1>1, <1>2, <1>3, Invariance, PTL DEF Spec

-----------------------------------------------------------------------------
(* The detailed handlers implement OrderLifecycle.                            *)

\* Opening the payment is OpenPayment, then Initiate; the rest stutters.
LEMMA OpenRefines ==
  ASSUME IInv, NEW r \in Signals, OpenStep(r)
  PROVE  [Lifecycle!Next]_(Lifecycle!vars)
  BY DEF OpenStep, MarkPendingPayment, MarkPendingMissed, FindInitiatedPayment,
         InsertInitiatedPayment, orderVars, paymentVars, history,
         Lifecycle!Next, Lifecycle!vars, Lifecycle!OpenPayment,
         Lifecycle!Initiate, Lifecycle!MoveOrder, Lifecycle!OrderEdges

\* markOrderPaid is Capture, Pay and Deliver, each by its compare-and-set.
LEMMA PayRefines ==
  ASSUME IInv, NEW r \in Signals, PayStep(r)
  PROVE  [Lifecycle!Next]_(Lifecycle!vars)
<1> USE DEF At, orderVars, paymentVars, history, Lifecycle!Next,
            Lifecycle!vars, Lifecycle!MoveOrder, Lifecycle!MovePayment,
            Lifecycle!OrderEdges, Lifecycle!PaymentEdges
<1>q. Backed(req[r]) /\ RowsAgree /\ HandlerAtMostOnce
  BY DEF IInv, RequestsAreBacked
<1>1. CASE CapturePayment(r)
  BY <1>1 DEF CapturePayment, CapturedPaymentSources, Lifecycle!Capture
<1>2. CASE SettlePaid(r)
  BY <1>q, <1>2
     DEF SettlePaid, PaidOrderSources, ClosedUnpaid, Settled, HasMoney,
         Backed, RowsAgree, Lifecycle!Pay
<1>3. CASE RunPaidHandler(r)
  BY <1>q, <1>3
     DEF RunPaidHandler, Acknowledge, Backed, HandlerAtMostOnce, Settled,
         Lifecycle!Deliver, Lifecycle!Settled
<1>4. QED
  BY <1>1, <1>2, <1>3
     DEF PayStep, PaidReadOrder, PaidFindPayment, CaptureMissed, SettleMissed,
         FindDuplicate, InsertDuplicate

\* markOrderFailed is Decline and Close, markOrderExpired is Close.
LEMMA CloseRefines ==
  ASSUME IInv, NEW r \in Signals, FailStep(r) \/ ExpireStep(r)
  PROVE  [Lifecycle!Next]_(Lifecycle!vars)
  BY DEF FailStep, FailReadOrder, FailFindPayment, DeclinePayment,
         RecheckPayment, SettleFailed, ExpireStep, ExpireReadOrder,
         SettleAbandoned, ExpireFindPayment, SettleExpired, orderVars,
         paymentVars, history, Lifecycle!Next, Lifecycle!vars,
         Lifecycle!Close, Lifecycle!Decline, Lifecycle!MoveOrder,
         Lifecycle!MovePayment, Lifecycle!OrderEdges, Lifecycle!PaymentEdges

\* markOrderRefunded is GiveBack on a PAID order, then Refund.
LEMMA RefundRefines ==
  ASSUME IInv, NEW r \in Signals, RefundStep(r)
  PROVE  [Lifecycle!Next]_(Lifecycle!vars)
<1>q. Backed(req[r]) /\ RowsAgree
  BY DEF IInv, RequestsAreBacked
<1>1. QED
  BY <1>q
     DEF RefundStep, RefundReadOrder, RefundFindPayment, ReturnPayment,
         ReturnMissed, SettleRefunded, At, Backed, RowsAgree, Settled,
         HasMoney, orderVars, paymentVars, history, Lifecycle!Next,
         Lifecycle!vars, Lifecycle!GiveBack, Lifecycle!Refund,
         Lifecycle!MoveOrder, Lifecycle!MovePayment, Lifecycle!OrderEdges,
         Lifecycle!PaymentEdges

\* OrderPayment implements OrderLifecycle: every database step of every handler
\* is an edge of the abstract lifecycle, or leaves it as it was.
THEOREM HandlersImplementLifecycle == Spec => ImplementsLifecycle
<1>1. Init => Lifecycle!Init
  BY DEF Init, Lifecycle!Init
<1>2. IInv /\ [Next]_vars => [Lifecycle!Next]_(Lifecycle!vars)
  <2> SUFFICES ASSUME IInv, [Next]_vars
               PROVE  [Lifecycle!Next]_(Lifecycle!vars)
    OBVIOUS
  <2>1. ASSUME NEW r \in Signals, Step(r)
        PROVE  [Lifecycle!Next]_(Lifecycle!vars)
    BY <2>1, OpenRefines, PayRefines, CloseRefines, RefundRefines DEF Step
  <2>2. ASSUME \/ UNCHANGED vars
               \/ \E r \in Signals: Start(r) \/ Abort(r)
               \/ \E p \in Pids: CustomerPays(p)
        PROVE  UNCHANGED Lifecycle!vars
    BY <2>2
       DEF Start, StartOpen, StartFail, StartExpireCreated,
           StartExpirePending, StartRefund, StartPay, Abort, CustomerPays,
           vars, orderVars, paymentVars, history, Lifecycle!vars
  <2>3. QED
    BY <2>1, <2>2 DEF Next
<1>3. QED
  BY <1>1, <1>2, Invariance, PTL
     DEF Spec, ImplementsLifecycle, Lifecycle!Spec
=============================================================================
