---------------------------- MODULE OrderPayment -----------------------------
(***************************************************************************)
(* One order, its PRIMARY payment row and its DUPLICATE payment rows, under *)
(* concurrent signals: checkout opening the payment, verify calls, webhook  *)
(* deliveries and reconciliation marking it paid, reconciliation failing or *)
(* expiring it, and a settled refund closing it.                            *)
(*                                                                         *)
(* Each signal is a request that runs one handler of OrdersService, one     *)
(* database call per step, so requests interleave between any two calls.    *)
(* A status write is a compare-and-set: it either moves the row or misses,  *)
(* and a miss is followed by a separate read of the row.                    *)
(***************************************************************************)
EXTENDS Naturals, PaymentStates

CONSTANTS
  Signals,    \* requests that can be in flight at the same time
  Pids,       \* provider payment ids that attempts on this order can produce
  NoPid,      \* the providerPaymentId of a payment that has none
  Providers,  \* gateways an order can be placed on
  MaxAborts   \* bound on requests lost to a crash or a database error

ASSUME NoPidIsNotAPid == NoPid \notin Pids
ASSUME ProvidersAreRegistered == Providers \subseteq {"razorpay", "fake"}
ASSUME MaxAbortsIsNat == MaxAborts \in Nat

VARIABLES
  paymentProvider,    \* order.paymentProvider
  orderStatus,        \* order.status
  opened,             \* order.providerOrderId is saved
  lateCaptureAt,      \* order.lateCaptureAt is set
  lateWatch,          \* order.lateWatchUntil is set
  paymentStatus,      \* status of the PRIMARY payment, "NONE" without a row
  providerPaymentId,  \* providerPaymentId of the PRIMARY payment
  duplicates,         \* providerPaymentIds of the DUPLICATE rows
  captured,           \* payments the provider has captured for this order
  handlerRuns,        \* runs of the paid handler (provisioning)
  acked,              \* payments for which markOrderPaid returned normally
  aborts,             \* requests lost so far
  req                 \* the handler each request is running, and where it is

orderVars == <<paymentProvider, orderStatus, opened, lateCaptureAt, lateWatch>>
paymentVars == <<paymentStatus, providerPaymentId, duplicates>>
history == <<captured, handlerRuns, acked, aborts>>
vars == <<orderVars, paymentVars, history, req>>

Ops == {"none", "open", "pay", "fail", "expire", "refund"}

Points ==
  {"start", "payment", "write", "missed", "recheck", "settle", "settleMissed",
   "handler", "duplicate", "insert"}

\* late: the order read was EXPIRED or FAILED; watch: lateWatchHours was passed.
Request ==
  [op: Ops, at: Points, pid: Pids \cup {NoPid}, proof: BOOLEAN, late: BOOLEAN,
   watch: BOOLEAN]

Idle == [op |-> "none", at |-> "start", pid |-> NoPid, proof |-> FALSE,
         late |-> FALSE, watch |-> FALSE]

Razorpay == paymentProvider = "razorpay"

Init ==
  /\ paymentProvider \in Providers
  /\ orderStatus = "CREATED"
  /\ opened = FALSE
  /\ lateCaptureAt = FALSE
  /\ lateWatch = FALSE
  /\ paymentStatus = "NONE"
  /\ providerPaymentId = NoPid
  /\ duplicates = {}
  /\ captured = {}
  /\ handlerRuns = 0
  /\ acked = {}
  /\ aborts = 0
  /\ req = [r \in Signals |-> Idle]

At(r, op, point) == req[r].op = op /\ req[r].at = point
Goto(r, point) == req' = [req EXCEPT ![r].at = point]
Return(r) == req' = [req EXCEPT ![r] = Idle]
Begin(r, request) == req[r] = Idle /\ req' = [req EXCEPT ![r] = request]

\* markOrderPaid returns the order to its caller: the signal counts as handled.
Acknowledge(r) == acked' = acked \cup {req[r].pid} /\ Return(r)

-----------------------------------------------------------------------------
(* Checkout: a claimed CREATED order gets its provider order and payment row. *)

\* The claim and the gateway call precede this; two claims can be live at once.
StartOpen(r) ==
  /\ orderStatus = "CREATED"
  /\ Begin(r, [Idle EXCEPT !.op = "open"])
  /\ UNCHANGED <<orderVars, paymentVars, history>>

MarkPendingPayment(r) ==
  /\ At(r, "open", "start")
  /\ \/ /\ orderStatus = "CREATED"
        /\ orderStatus' = "PENDING_PAYMENT"
        /\ opened' = TRUE
        /\ Goto(r, "payment")
     \/ /\ orderStatus # "CREATED"
        /\ Goto(r, "missed")
        /\ UNCHANGED <<orderStatus, opened>>
  /\ UNCHANGED <<paymentProvider, lateCaptureAt, lateWatch, paymentVars,
                 history>>

MarkPendingMissed(r) ==
  /\ At(r, "open", "missed")
  /\ IF orderStatus = "PENDING_PAYMENT" THEN Goto(r, "payment") ELSE Return(r)
  /\ UNCHANGED <<orderVars, paymentVars, history>>

FindInitiatedPayment(r) ==
  /\ At(r, "open", "payment")
  /\ IF paymentStatus = "NONE" THEN Goto(r, "insert") ELSE Return(r)
  /\ UNCHANGED <<orderVars, paymentVars, history>>

\* Mutant: the row is created with the order's status.
InsertInitiatedPayment_OrderEnum(r) ==
  /\ At(r, "open", "insert")
  /\ paymentStatus' = IF paymentStatus = "NONE" THEN orderStatus
                                                ELSE paymentStatus
  /\ Return(r)
  /\ UNCHANGED <<orderVars, providerPaymentId, duplicates, history>>

\* The unique PRIMARY index turns a second insert into a read of the first.
InsertInitiatedPayment(r) ==
  /\ At(r, "open", "insert")
  /\ paymentStatus' = IF paymentStatus = "NONE" THEN "INITIATED"
                                                ELSE paymentStatus
  /\ Return(r)
  /\ UNCHANGED <<orderVars, providerPaymentId, duplicates, history>>

-----------------------------------------------------------------------------
(* markOrderPaid, called by verify, by the webhook and by reconciliation.     *)

\* The client has the provider order once it is saved; it may pay repeatedly.
CustomerPays(p) ==
  /\ opened
  /\ captured' = captured \cup {p}
  /\ UNCHANGED <<orderVars, paymentVars, handlerRuns, acked, aborts, req>>

\* Razorpay signals always carry proof. A fake verify carries none, and
\* returns before markOrderPaid when the order is already settled.
StartPay(r, p, proof) ==
  /\ p \in captured
  /\ Razorpay => proof
  /\ ~proof => orderStatus \notin Settled
  /\ Begin(r, [Idle EXCEPT !.op = "pay", !.pid = p, !.proof = proof])
  /\ UNCHANGED <<orderVars, paymentVars, history>>

PaidReadOrder(r) ==
  /\ At(r, "pay", "start")
  /\ \/ /\ orderStatus \in Settled
        /\ Goto(r, "duplicate")
     \/ /\ orderStatus \in PaidOrderSources(req[r].proof)
        /\ req' = [req EXCEPT ![r].at = "payment",
                              ![r].late = orderStatus \in ClosedUnpaid]
     \/ /\ orderStatus \notin Settled \cup PaidOrderSources(req[r].proof)
        /\ Return(r)
  /\ UNCHANGED <<orderVars, paymentVars, history>>

\* Mutant: another id's capture is called a duplicate before the order is paid.
PaidFindPayment_EarlyDuplicate(r) ==
  /\ At(r, "pay", "payment")
  /\ CASE paymentStatus = "NONE" -> Return(r)
       [] paymentStatus = "CAPTURED" -> Goto(r, "duplicate")
       [] OTHER -> Goto(r, "write")
  /\ UNCHANGED <<orderVars, paymentVars, history>>

PaidFindPayment(r) ==
  /\ At(r, "pay", "payment")
  /\ CASE paymentStatus = "NONE" -> Return(r)
       [] paymentStatus = "CAPTURED" -> Goto(r, "settle")
       [] OTHER -> Goto(r, "write")
  /\ UNCHANGED <<orderVars, paymentVars, history>>

CapturePayment(r) ==
  /\ At(r, "pay", "write")
  /\ \/ /\ paymentStatus \in CapturedPaymentSources(req[r].proof)
        /\ paymentStatus' = "CAPTURED"
        /\ providerPaymentId' = req[r].pid
        /\ Goto(r, "settle")
     \/ /\ paymentStatus \notin CapturedPaymentSources(req[r].proof)
        /\ Goto(r, "missed")
        /\ UNCHANGED <<paymentStatus, providerPaymentId>>
  /\ UNCHANGED <<orderVars, duplicates, history>>

\* Mutant: any missed capture is taken for another request's success.
CaptureMissed_AnyStatus(r) ==
  /\ At(r, "pay", "missed")
  /\ Goto(r, "settle")
  /\ UNCHANGED <<orderVars, paymentVars, history>>

\* Losing to another capture is success, whichever payment id won it.
CaptureMissed(r) ==
  /\ At(r, "pay", "missed")
  /\ IF paymentStatus = "CAPTURED" THEN Goto(r, "settle") ELSE Return(r)
  /\ UNCHANGED <<orderVars, paymentVars, history>>

SettlePaid(r) ==
  /\ At(r, "pay", "settle")
  /\ \/ /\ orderStatus \in PaidOrderSources(req[r].proof)
        /\ orderStatus' = "PAID"
        /\ lateCaptureAt' = (lateCaptureAt \/ req[r].late)
        /\ Goto(r, "handler")
     \/ /\ orderStatus \notin PaidOrderSources(req[r].proof)
        /\ Goto(r, "settleMissed")
        /\ UNCHANGED <<orderStatus, lateCaptureAt>>
  /\ UNCHANGED <<paymentProvider, opened, lateWatch, paymentVars, history>>

SettleMissed(r) ==
  /\ At(r, "pay", "settleMissed")
  /\ IF orderStatus \in Settled THEN Goto(r, "duplicate") ELSE Return(r)
  /\ UNCHANGED <<orderVars, paymentVars, history>>

\* paidHandler.onOrderPaid: only the winner of the order write gets here.
RunPaidHandler(r) ==
  /\ At(r, "pay", "handler")
  /\ handlerRuns' = handlerRuns + 1
  /\ Acknowledge(r)
  /\ UNCHANGED <<orderVars, paymentVars, captured, aborts>>

FindDuplicate(r) ==
  /\ At(r, "pay", "duplicate")
  /\ IF providerPaymentId \in {NoPid, req[r].pid}
       THEN Acknowledge(r)
       ELSE Goto(r, "insert") /\ UNCHANGED acked
  /\ UNCHANGED <<orderVars, paymentVars, captured, handlerRuns, aborts>>

\* The unique (provider, providerPaymentId) index keeps one row per payment.
InsertDuplicate(r) ==
  /\ At(r, "pay", "insert")
  /\ duplicates' = duplicates \cup ({req[r].pid} \ {providerPaymentId})
  /\ Acknowledge(r)
  /\ UNCHANGED <<orderVars, paymentStatus, providerPaymentId, captured,
                 handlerRuns, aborts>>

-----------------------------------------------------------------------------
(* markOrderFailed: reconciliation on a gateway other than razorpay.          *)

StartFail(r) ==
  /\ ~Razorpay
  /\ orderStatus = "PENDING_PAYMENT"
  /\ Begin(r, [Idle EXCEPT !.op = "fail"])
  /\ UNCHANGED <<orderVars, paymentVars, history>>

FailReadOrder(r) ==
  /\ At(r, "fail", "start")
  /\ IF orderStatus = "PENDING_PAYMENT" THEN Goto(r, "payment") ELSE Return(r)
  /\ UNCHANGED <<orderVars, paymentVars, history>>

FailFindPayment(r) ==
  /\ At(r, "fail", "payment")
  /\ CASE paymentStatus \in {"NONE", "CAPTURED"} -> Return(r)
       [] paymentStatus = "FAILED" -> Goto(r, "settle")
       [] OTHER -> Goto(r, "write")
  /\ UNCHANGED <<orderVars, paymentVars, history>>

DeclinePayment(r) ==
  /\ At(r, "fail", "write")
  /\ paymentStatus' = IF paymentStatus \in {"INITIATED", "AUTHORIZED"}
                        THEN "FAILED" ELSE paymentStatus
  /\ Goto(r, "recheck")
  /\ UNCHANGED <<orderVars, providerPaymentId, duplicates, history>>

RecheckPayment(r) ==
  /\ At(r, "fail", "recheck")
  /\ IF paymentStatus = "CAPTURED" THEN Return(r) ELSE Goto(r, "settle")
  /\ UNCHANGED <<orderVars, paymentVars, history>>

SettleFailed(r) ==
  /\ At(r, "fail", "settle")
  /\ orderStatus' = IF orderStatus = "PENDING_PAYMENT" THEN "FAILED"
                                                       ELSE orderStatus
  /\ Return(r)
  /\ UNCHANGED <<paymentProvider, opened, lateCaptureAt, lateWatch, paymentVars,
                 history>>

-----------------------------------------------------------------------------
(* markOrderExpired.                                                          *)

\* expireCreated: found CREATED past expiresAt, called without lateWatchHours.
StartExpireCreated(r) ==
  /\ orderStatus = "CREATED"
  /\ Begin(r, [Idle EXCEPT !.op = "expire"])
  /\ UNCHANGED <<orderVars, paymentVars, history>>

\* reconcileOrder: found PENDING_PAYMENT, and the provider showed no capture.
\* What the fake gateway shows is staged apart from what it verifies.
StartExpirePending(r) ==
  /\ orderStatus = "PENDING_PAYMENT"
  /\ Razorpay => captured = {}
  /\ Begin(r, [Idle EXCEPT !.op = "expire", !.watch = TRUE])
  /\ UNCHANGED <<orderVars, paymentVars, history>>

ExpireReadOrder(r) ==
  /\ At(r, "expire", "start")
  /\ CASE orderStatus = "CREATED" -> Goto(r, "write")
       [] orderStatus = "PENDING_PAYMENT" -> Goto(r, "payment")
       [] OTHER -> Return(r)
  /\ UNCHANGED <<orderVars, paymentVars, history>>

SettleAbandoned(r) ==
  /\ At(r, "expire", "write")
  /\ orderStatus' = IF orderStatus = "CREATED" THEN "EXPIRED" ELSE orderStatus
  /\ Return(r)
  /\ UNCHANGED <<paymentProvider, opened, lateCaptureAt, lateWatch, paymentVars,
                 history>>

ExpireFindPayment(r) ==
  /\ At(r, "expire", "payment")
  /\ IF paymentStatus \in {"NONE", "CAPTURED"} THEN Return(r)
                                               ELSE Goto(r, "settle")
  /\ UNCHANGED <<orderVars, paymentVars, history>>

\* Mutant: the expiry writes without comparing the status.
SettleExpired_NoCompare(r) ==
  /\ At(r, "expire", "settle")
  /\ orderStatus' = "EXPIRED"
  /\ lateWatch' = (lateWatch \/ req[r].watch)
  /\ Return(r)
  /\ UNCHANGED <<paymentProvider, opened, lateCaptureAt, paymentVars, history>>

SettleExpired(r) ==
  /\ At(r, "expire", "settle")
  /\ \/ /\ orderStatus = "PENDING_PAYMENT"
        /\ orderStatus' = "EXPIRED"
        /\ lateWatch' = (lateWatch \/ req[r].watch)
     \/ /\ orderStatus # "PENDING_PAYMENT"
        /\ UNCHANGED <<orderStatus, lateWatch>>
  /\ Return(r)
  /\ UNCHANGED <<paymentProvider, opened, lateCaptureAt, paymentVars, history>>

-----------------------------------------------------------------------------
(* markOrderRefunded: the caller holds a completed full refund of the order.  *)

StartRefund(r) ==
  /\ orderStatus \in Settled
  /\ Begin(r, [Idle EXCEPT !.op = "refund"])
  /\ UNCHANGED <<orderVars, paymentVars, history>>

RefundReadOrder(r) ==
  /\ At(r, "refund", "start")
  /\ IF orderStatus = "REFUNDED" THEN Return(r) ELSE Goto(r, "payment")
  /\ UNCHANGED <<orderVars, paymentVars, history>>

RefundFindPayment(r) ==
  /\ At(r, "refund", "payment")
  /\ CASE paymentStatus = "NONE" -> Return(r)
       [] paymentStatus = "REFUNDED" -> Goto(r, "settle")
       [] OTHER -> Goto(r, "write")
  /\ UNCHANGED <<orderVars, paymentVars, history>>

ReturnPayment(r) ==
  /\ At(r, "refund", "write")
  /\ \/ /\ paymentStatus = "CAPTURED"
        /\ paymentStatus' = "REFUNDED"
        /\ Goto(r, "settle")
     \/ /\ paymentStatus # "CAPTURED"
        /\ Goto(r, "missed")
        /\ UNCHANGED paymentStatus
  /\ UNCHANGED <<orderVars, providerPaymentId, duplicates, history>>

ReturnMissed(r) ==
  /\ At(r, "refund", "missed")
  /\ IF paymentStatus = "REFUNDED" THEN Goto(r, "settle") ELSE Return(r)
  /\ UNCHANGED <<orderVars, paymentVars, history>>

SettleRefunded(r) ==
  /\ At(r, "refund", "settle")
  /\ orderStatus' = IF orderStatus = "PAID" THEN "REFUNDED" ELSE orderStatus
  /\ Return(r)
  /\ UNCHANGED <<paymentProvider, opened, lateCaptureAt, lateWatch, paymentVars,
                 history>>

-----------------------------------------------------------------------------
\* A crash, or a database call that throws, loses a request between two calls.
Abort(r) ==
  /\ aborts < MaxAborts
  /\ req[r] # Idle
  /\ aborts' = aborts + 1
  /\ Return(r)
  /\ UNCHANGED <<orderVars, paymentVars, captured, handlerRuns, acked>>

OpenStep(r) ==
  \/ MarkPendingPayment(r) \/ MarkPendingMissed(r)
  \/ FindInitiatedPayment(r) \/ InsertInitiatedPayment(r)

PayStep(r) ==
  \/ PaidReadOrder(r) \/ PaidFindPayment(r) \/ CapturePayment(r)
  \/ CaptureMissed(r) \/ SettlePaid(r) \/ SettleMissed(r) \/ RunPaidHandler(r)
  \/ FindDuplicate(r) \/ InsertDuplicate(r)

FailStep(r) ==
  \/ FailReadOrder(r) \/ FailFindPayment(r) \/ DeclinePayment(r)
  \/ RecheckPayment(r) \/ SettleFailed(r)

ExpireStep(r) ==
  \/ ExpireReadOrder(r) \/ SettleAbandoned(r) \/ ExpireFindPayment(r)
  \/ SettleExpired(r)

RefundStep(r) ==
  \/ RefundReadOrder(r) \/ RefundFindPayment(r) \/ ReturnPayment(r)
  \/ ReturnMissed(r) \/ SettleRefunded(r)

Step(r) ==
  OpenStep(r) \/ PayStep(r) \/ FailStep(r) \/ ExpireStep(r) \/ RefundStep(r)

Start(r) ==
  \/ StartOpen(r) \/ StartFail(r) \/ StartExpireCreated(r)
  \/ StartExpirePending(r) \/ StartRefund(r)
  \/ \E p \in Pids, proof \in BOOLEAN: StartPay(r, p, proof)

Next ==
  \/ \E r \in Signals: Start(r) \/ Step(r) \/ Abort(r)
  \/ \E p \in Pids: CustomerPays(p)

Spec == Init /\ [][Next]_vars

\* A started request keeps running unless it is lost. A captured payment keeps
\* being reported: Razorpay redelivers the webhook until it is answered, and
\* reconciliation and the late watch ask the provider again.
Fairness ==
  /\ \A r \in Signals: WF_vars(Step(r))
  /\ \A p \in Pids: SF_vars(\E r \in Signals: StartPay(r, p, TRUE))

FairSpec == Spec /\ Fairness

-----------------------------------------------------------------------------
(* Properties.                                                                *)

TypeOK ==
  /\ paymentProvider \in Providers
  /\ orderStatus \in OrderStatuses
  /\ opened \in BOOLEAN
  /\ lateCaptureAt \in BOOLEAN
  /\ lateWatch \in BOOLEAN
  /\ paymentStatus \in PaymentStatuses
  /\ providerPaymentId \in Pids \cup {NoPid}
  /\ duplicates \subseteq Pids
  /\ captured \subseteq Pids
  /\ handlerRuns \in Nat
  /\ acked \subseteq Pids
  /\ aborts \in 0..MaxAborts
  /\ req \in [Signals -> Request]

AtRest == \A r \in Signals: req[r] = Idle

\* However verify, payment.captured, order.paid and reconciliation interleave,
\* the paid handler runs for one of them: the winner of the order write.
HandlerAtMostOnce ==
  /\ handlerRuns <= 1
  /\ \A r \in Signals: At(r, "pay", "handler") => handlerRuns = 0
  /\ \A r, s \in Signals:
       At(r, "pay", "handler") /\ At(s, "pay", "handler") => r = s

\* An order is PAID or REFUNDED only on a payment the provider captured, even
\* when the request that captured it is not the one that wrote the order.
SettledIsCaptured ==
  orderStatus \in Settled =>
    /\ paymentStatus \in {"CAPTURED", "REFUNDED"}
    /\ providerPaymentId \in captured

\* A DUPLICATE row (which the refund tick pays back) is money beyond the payment
\* that settled the order: never the primary payment, never on an unpaid order.
DuplicatesAreExtra ==
  duplicates # {} =>
    /\ orderStatus \in Settled
    /\ duplicates \subseteq captured \ {providerPaymentId}

\* Expire against pay: once every request has finished and none was lost, a
\* captured razorpay payment never sits on an order that is not PAID.
NoStrandedCapture ==
  Razorpay /\ AtRest /\ aborts = 0 /\ paymentStatus = "CAPTURED"
    => orderStatus = "PAID"

\* Seen through its statuses and its deliveries, the order behaves as the
\* abstract lifecycle: every compare-and-set is one of its edges.
Lifecycle == INSTANCE OrderLifecycle WITH deliveries <- handlerRuns
ImplementsLifecycle == Lifecycle!Spec

\* Once the payment row exists, a payment captured at the provider makes the
\* order PAID in the end, whatever expires it and whichever requests are lost.
CapturedIsSettled ==
  (Razorpay /\ captured # {} /\ paymentStatus # "NONE")
    ~> (orderStatus \in Settled)

\* D-28: a captured payment whose signal was accepted is on record, as the
\* payment of the order or as a DUPLICATE row to be refunded.
AckedIsRecorded == acked \subseteq duplicates \cup {providerPaymentId}
=============================================================================
