---------------------------- MODULE PaymentSignals ----------------------------
(***************************************************************************)
(* How the money of one razorpay checkout reaches its order. Checkout calls  *)
(* with one idempotency key claim the order and open a provider order for it. *)
(* The customer pays a provider order he was shown. The payment becomes      *)
(* known by a verify call, by webhook deliveries, by the reconciliation tick  *)
(* while the order is open, and by the late watch after it expired.          *)
(*                                                                          *)
(* markOrderPaid is two steps here, its write of the payment row and its write *)
(* of the order; OrderPayment has every call of it. A provider order is paid   *)
(* once, so it names its payment too.                                         *)
(***************************************************************************)
EXTENDS Naturals, FiniteSets, PaymentStates

CONSTANTS
  Calls,           \* checkout calls that can run at the same time
  Deliveries,      \* webhook deliveries that can run at the same time
  ProviderOrders,  \* provider orders the gateway can create
  None,            \* no provider order
  Looks,           \* LATE_CAPTURE_OFFSETS_HOURS within the watch window, the
                   \* last of which is the end of the window
  MaxPayments,     \* bound on the payments the customer makes
  MaxAttempts,     \* RECONCILIATION_MAX_ATTEMPTS
  MaxFaults        \* bound on restarts, gateway errors and database errors

ASSUME NoneIsNoProviderOrder == None \notin ProviderOrders
ASSUME BoundsAreNat == {Looks, MaxPayments, MaxFaults} \subseteq Nat /\ MaxAttempts \in Nat \ {0}

\* Hour k lasts from offset k up to the next offset. Hour Looks is only the end
\* of the window, in the hour after it the watch is over.
Hours == 0..Looks + 1
Never == Looks + 2

VARIABLES
  order,     \* the order document
  hour,      \* time since expiredAt, in steps of the look schedule
  call,      \* what each checkout call is doing
  created,   \* provider orders that exist
  shown,     \* provider orders that a response has shown to the client
  paid,      \* provider orders the customer has paid
  captor,     \* providerPaymentId of the PRIMARY row once it is CAPTURED, or None
  duplicates, \* payments with a DUPLICATE row
  winner,     \* history: the payment whose signal made the order PAID, or None
  event,     \* the webhook_events row of each payment, and the provider's view
  delivery,  \* what each webhook delivery is doing
  tick,      \* where the reconciliation tick is
  looks,     \* payments listings by the late watch
  restarts,  \* late watch looks cut short by a restart
  faults,    \* faults so far
  outlived   \* a claim went stale, or was dropped, under a call that held it

checkoutVars == <<call, created, shown, outlived>>
hookVars == <<event, delivery>>
watchVars == <<tick, looks, restarts>>
ledger == <<captor, duplicates, winner>>
money == <<paid, ledger>>
vars == <<order, hour, checkoutVars, money, hookVars, watchVars, faults>>

\* claim: providerOpenClaimAt; row: the PRIMARY payment; next: nextReconAt of
\* the late watch; watched: lateWatchUntil is set.
Order ==
  [status: {"CREATED", "PENDING_PAYMENT", "EXPIRED", "PAID"},
   claim: {"none", "held", "stale"}, saved: ProviderOrders \cup {None},
   row: BOOLEAN, attempts: 0..(MaxAttempts + Looks), needsReview: BOOLEAN,
   watched: BOOLEAN, next: Hours \cup {Never}]
CallPoints == {"idle", "gateway", "release", "save", "row"}
Event == [row: {"NONE", "RECEIVED", "PROCESSED", "FAILED"}, over: BOOLEAN, acked: BOOLEAN]
Delivery == [at: {"idle", "apply", "finish"}, of: ProviderOrders \cup {None},
             loaded: {"NONE", "RECEIVED", "FAILED"}, status: {"NONE", "PROCESSED", "FAILED"},
             retry: BOOLEAN]
TickPoints ==
  {"idle", "expire", "reconcile", "paid", "abandoned", "postpone", "look", "latePaid",
   "schedule"}

IdleCall == [at |-> "idle", po |-> None]
IdleDelivery == [at |-> "idle", of |-> None, loaded |-> "NONE", status |-> "NONE",
                 retry |-> FALSE]
IdleTick == [at |-> "idle", done |-> 0]

Init ==
  /\ order = [status |-> "CREATED", claim |-> "none", saved |-> None, row |-> FALSE,
              attempts |-> 0, needsReview |-> FALSE, watched |-> FALSE, next |-> Never]
  /\ hour = 0
  /\ call = [c \in Calls |-> IdleCall]
  /\ created = {} /\ shown = {}
  /\ paid = {}
  /\ captor = None /\ duplicates = {} /\ winner = None
  /\ event = [po \in ProviderOrders |-> [row |-> "NONE", over |-> FALSE, acked |-> FALSE]]
  /\ delivery = [d \in Deliveries |-> IdleDelivery]
  /\ tick = IdleTick
  /\ looks = 0 /\ restarts = 0
  /\ faults = 0
  /\ outlived = FALSE

\* Payments the database tells of.
Recorded == (ProviderOrders \cap {captor}) \cup duplicates

\* markOrderPaid with proof throws when the order is CREATED or has no payment
\* row.
Capturable == order.status \in PaidOrderSources(TRUE) /\ order.row
Payable == order.status = "PAID" \/ Capturable

\* The end of markOrderPaid. A settled order gets a DUPLICATE row. Otherwise the
\* order is won, with the payment row captured by this signal or an earlier one.
MarkPaid(po) ==
  \/ /\ order.status = "PAID"
     /\ duplicates' = duplicates \cup ({po} \ {captor})
     /\ UNCHANGED <<order, captor, winner>>
  \/ /\ Capturable
     /\ order' = [order EXCEPT !.status = "PAID"]
     /\ captor' = IF captor = None THEN po ELSE captor
     /\ winner' = po
     /\ UNCHANGED duplicates

Fault == faults < MaxFaults /\ faults' = faults + 1

-----------------------------------------------------------------------------
(* CheckoutService.create and openProviderOrder.                             *)

Holding(c) == call[c].at \in {"gateway", "release", "save"}
Goto(c, point) == call' = [call EXCEPT ![c].at = point]
Show(c, po) == shown' = shown \cup {po} /\ call' = [call EXCEPT ![c] = IdleCall]

\* Mutant: a claim is given whatever the order's claim is.
ClaimProviderOpen_Always(c) ==
  /\ call[c].at = "idle" /\ order.status = "CREATED"
  /\ order' = [order EXCEPT !.claim = "held"]
  /\ Goto(c, "gateway")
  /\ UNCHANGED <<hour, created, shown, outlived, money, hookVars, watchVars, faults>>

\* The insert, or the replay of an order read as CREATED, and the claim. A loser
\* waits or answers CHECKOUT_IN_PROGRESS, which changes nothing.
ClaimProviderOpen(c) ==
  /\ call[c].at = "idle" /\ order.status = "CREATED" /\ order.claim # "held"
  /\ order' = [order EXCEPT !.claim = "held"]
  /\ Goto(c, "gateway")
  /\ UNCHANGED <<hour, created, shown, outlived, money, hookVars, watchVars, faults>>

\* A replay of an open order, or the wait of a loser, shows what was saved.
ShowOpenedOrder ==
  /\ order.saved # None
  /\ shown' = shown \cup {order.saved}
  /\ UNCHANGED <<order, hour, call, created, outlived, money, hookVars, watchVars, faults>>

\* Thirty seconds have passed since the claim, maybe under a running call. No
\* one reads the claim of an order that has left CREATED.
ClaimGoesStale ==
  /\ order.status = "CREATED" /\ order.claim = "held"
  /\ order' = [order EXCEPT !.claim = "stale"]
  /\ outlived' = (outlived \/ \E c \in Calls : Holding(c))
  /\ UNCHANGED <<hour, call, created, shown, money, hookVars, watchVars, faults>>

\* Each call has the provider make a new order.
CreateOrder(c, po) ==
  /\ call[c].at = "gateway" /\ po \notin created
  /\ created' = created \cup {po}
  /\ call' = [call EXCEPT ![c] = [at |-> "save", po |-> po]]
  /\ UNCHANGED <<order, hour, shown, outlived, money, hookVars, watchVars, faults>>

GatewayFails(c) ==
  /\ call[c].at = "gateway" /\ Fault
  /\ Goto(c, "release")
  /\ UNCHANGED <<order, hour, created, shown, outlived, money, hookVars, watchVars>>

\* The claim of whoever holds it is dropped.
ReleaseProviderOpenClaim(c) ==
  /\ call[c].at = "release"
  /\ order' = [order EXCEPT !.claim = IF order.status = "CREATED" THEN "none" ELSE @]
  /\ call' = [call EXCEPT ![c] = IdleCall]
  /\ outlived' = (\/ outlived
                  \/ order.status = "CREATED" /\ \E other \in Calls \ {c} : Holding(other))
  /\ UNCHANGED <<hour, created, shown, money, hookVars, watchVars, faults>>

\* The compare-and-set from CREATED. A call that misses goes on when the order
\* is PENDING_PAYMENT, with the provider order of another call saved.
MarkPendingPayment(c) ==
  /\ call[c].at = "save"
  /\ \/ /\ order.status = "CREATED"
        /\ order' = [order EXCEPT !.status = "PENDING_PAYMENT", !.saved = call[c].po]
        /\ Goto(c, "row")
     \/ /\ order.status = "PENDING_PAYMENT"
        /\ Goto(c, "row") /\ UNCHANGED order
     \/ /\ order.status \notin {"CREATED", "PENDING_PAYMENT"}
        /\ call' = [call EXCEPT ![c] = IdleCall] /\ UNCHANGED order
  /\ UNCHANGED <<hour, created, shown, outlived, money, hookVars, watchVars, faults>>

\* The view carries the provider data of this call, whichever order was saved.
EnsureInitiatedPayment(c) ==
  /\ call[c].at = "row"
  /\ order' = [order EXCEPT !.row = TRUE]
  /\ Show(c, call[c].po)
  /\ UNCHANGED <<hour, created, outlived, money, hookVars, watchVars, faults>>

-----------------------------------------------------------------------------
(* The customer pays, and his client has the payment verified.               *)

CustomerPays(po) ==
  /\ po \in shown /\ Cardinality(paid) < MaxPayments
  /\ paid' = paid \cup {po}
  /\ UNCHANGED <<order, hour, checkoutVars, ledger, hookVars, watchVars, faults>>

\* verifyPayment refuses a provider order that the order does not name.
VerifyPayment(po) ==
  /\ po \in paid /\ po = order.saved
  /\ MarkPaid(po)
  /\ UNCHANGED <<hour, checkoutVars, paid, hookVars, watchVars, faults>>

-----------------------------------------------------------------------------
(* RazorpayWebhookService.handle, for the capture of one provider order.     *)

Terminal(po) == event[po].row = "PROCESSED" \/ (event[po].row = "FAILED" /\ event[po].over)
Answer(d, po, ok) ==
  /\ delivery' = [delivery EXCEPT ![d] = IdleDelivery]
  /\ event' = [event EXCEPT ![po].acked = @ \/ ok]

\* The provider delivers until it gets a 2xx answer, and at times once more.
\* claim: a new row, or the row as it is; a terminal row is answered at once.
Claim(d, po) ==
  /\ delivery[d].at = "idle" /\ po \in paid
  /\ IF Terminal(po)
       THEN ~event[po].acked /\ Answer(d, po, TRUE)
       ELSE LET row == IF event[po].row = "NONE" THEN "RECEIVED" ELSE event[po].row IN
            /\ event' = [event EXCEPT ![po].row = row]
            /\ delivery' = [delivery EXCEPT ![d] = [IdleDelivery EXCEPT !.at = "apply",
                                                    !.of = po, !.loaded = row]]
  /\ UNCHANGED <<order, hour, checkoutVars, money, watchVars, faults>>

Outcome(d, status, retry) ==
  delivery' = [delivery EXCEPT ![d].at = "finish", ![d].status = status, ![d].retry = retry]

\* The order is found by its provider order, or by the notes on the payment.
Applied(d) ==
  /\ MarkPaid(delivery[d].of)
  /\ Outcome(d, "PROCESSED", FALSE)
  /\ UNCHANGED faults

\* capturePrimaryPayment of a verify call, a tick or a delivery that has not come
\* to the order yet, or that is lost before.
CapturePrimary(po) ==
  /\ po \in paid /\ Capturable /\ captor = None
  /\ po = order.saved \/ \E d \in Deliveries : delivery[d].at = "apply" /\ delivery[d].of = po
  /\ captor' = po
  /\ UNCHANGED <<order, hour, checkoutVars, paid, duplicates, winner, hookVars, watchVars,
                 faults>>

\* Mutant: the exception is recorded as done.
NotApplied_Done(d) ==
  /\ \/ ~Payable /\ UNCHANGED faults
     \/ Fault
  /\ Outcome(d, "PROCESSED", FALSE)
  /\ UNCHANGED <<order, ledger>>

\* An exception is retried by a 500 while the window is open.
NotApplied(d) ==
  /\ \/ ~Payable /\ UNCHANGED faults
     \/ Fault
  /\ Outcome(d, "FAILED", ~event[delivery[d].of].over)
  /\ UNCHANGED <<order, ledger>>

Apply(d) ==
  /\ delivery[d].at = "apply"
  /\ Applied(d) \/ NotApplied(d)
  /\ UNCHANGED <<hour, checkoutVars, paid, event, watchVars>>

\* The save writes the status only when it differs from the one loaded.
Finish(d) ==
  /\ delivery[d].at = "finish"
  /\ LET D == delivery[d] IN
     event' = [event EXCEPT ![D.of].row = IF D.status = D.loaded THEN @ ELSE D.status,
                            ![D.of].acked = @ \/ ~D.retry]
  /\ delivery' = [delivery EXCEPT ![d] = IdleDelivery]
  /\ UNCHANGED <<order, hour, checkoutVars, money, watchVars, faults>>

RetryWindowEnds(po) ==
  /\ event[po].row \in {"RECEIVED", "FAILED"} /\ ~event[po].over
  /\ event' = [event EXCEPT ![po].over = TRUE]
  /\ UNCHANGED <<order, hour, checkoutVars, money, delivery, watchVars, faults>>

-----------------------------------------------------------------------------
(* ReconciliationService.reconcileOnce: one tick at a time, of three sweeps.   *)
(* A sweep that does not list the order does nothing to it, so a tick is shown *)
(* as the sweep that does. The order is old enough for the ticks shown.        *)

TickAt(point) == tick.at = point
TickTo(point) == tick' = [tick EXCEPT !.at = point]

FindCreatedPastExpiry ==
  /\ TickAt("idle") /\ order.status = "CREATED"
  /\ TickTo("expire")
  /\ UNCHANGED <<order, hour, checkoutVars, money, hookVars, looks, restarts, faults>>

\* markOrderExpired without a late watch. Without a payment row it throws, and
\* the whole tick is over.
ExpireCreated ==
  /\ TickAt("expire")
  /\ IF \/ order.status = "CREATED"
        \/ order.status = "PENDING_PAYMENT" /\ order.row /\ captor = None
       THEN order' = [order EXCEPT !.status = "EXPIRED", !.attempts = 0]
       ELSE UNCHANGED order
  /\ tick' = IdleTick
  /\ UNCHANGED <<hour, checkoutVars, money, hookVars, looks, restarts, faults>>

FindDuePending ==
  /\ TickAt("idle") /\ order.status = "PENDING_PAYMENT" /\ ~order.needsReview
  /\ TickTo("reconcile")
  /\ UNCHANGED <<order, hour, checkoutVars, money, hookVars, looks, restarts, faults>>

\* fetchOrderStatus of the provider order that was saved, or no answer.
ReconcileOrder ==
  /\ TickAt("reconcile")
  /\ \/ TickTo(IF order.status # "PENDING_PAYMENT" THEN "postpone"
               ELSE IF order.saved \in paid THEN "paid" ELSE "abandoned")
     \/ TickTo("postpone")
  /\ UNCHANGED <<order, hour, checkoutVars, money, hookVars, looks, restarts, faults>>

ReconciledPaid ==
  /\ TickAt("paid")
  /\ IF Payable THEN MarkPaid(order.saved) /\ tick' = IdleTick
                ELSE TickTo("postpone") /\ UNCHANGED <<order, ledger>>
  /\ UNCHANGED <<hour, checkoutVars, paid, hookVars, looks, restarts, faults>>

\* Mutant: the offset after the next one is taken.
NextLateWatchAt_Skips(done) == IF done + 1 < Looks THEN done + 2 ELSE Never

NextLateWatchAt(done) == IF done < Looks THEN done + 1 ELSE Never

\* markOrderExpired with a late watch. Without a payment row it throws, with a
\* captured one it leaves the order as it is.
ExpireAbandoned ==
  /\ TickAt("abandoned")
  /\ IF order.status = "PENDING_PAYMENT" /\ order.row /\ captor = None
       THEN /\ tick' = IdleTick
            /\ order' = [order EXCEPT !.status = "EXPIRED", !.attempts = 0, !.watched = TRUE,
                                      !.next = NextLateWatchAt(0)]
       ELSE TickTo("postpone") /\ UNCHANGED order
  /\ UNCHANGED <<hour, checkoutVars, money, hookVars, looks, restarts, faults>>

\* Mutant: the cap is not looked at.
PostponePending_NoCap ==
  /\ TickAt("postpone")
  /\ tick' = IdleTick
  /\ IF order.status = "PENDING_PAYMENT"
       THEN order' = [order EXCEPT !.attempts = @ + 1]
       ELSE UNCHANGED order
  /\ UNCHANGED <<hour, checkoutVars, money, hookVars, looks, restarts, faults>>

PostponePending ==
  /\ TickAt("postpone")
  /\ tick' = IdleTick
  /\ IF order.status = "PENDING_PAYMENT"
       THEN order' = [order EXCEPT !.attempts = @ + 1,
                                   !.needsReview = order.attempts + 1 >= MaxAttempts]
       ELSE UNCHANGED order
  /\ UNCHANGED <<hour, checkoutVars, money, hookVars, looks, restarts, faults>>

-----------------------------------------------------------------------------
(* watchLateCaptures.                                                        *)

\* lateWatchUntil >= now and nextReconAt <= now, at the start of the tick.
FindLateWatchDue ==
  /\ TickAt("idle") /\ order.status = "EXPIRED" /\ order.watched
  /\ hour <= Looks /\ order.next <= hour
  /\ tick' = [at |-> "look", done |-> order.attempts + 1]
  /\ UNCHANGED <<order, hour, checkoutVars, money, hookVars, looks, restarts, faults>>

\* fetchOrderPayments of the saved provider order, or no answer.
Look ==
  /\ TickAt("look")
  /\ looks' = looks + 1
  /\ \/ TickTo("schedule")
     \/ order.saved \in paid /\ TickTo("latePaid")
  /\ UNCHANGED <<order, hour, checkoutVars, money, hookVars, restarts, faults>>

\* A watched order has its payment row, so this cannot throw.
LatePaid ==
  /\ TickAt("latePaid")
  /\ MarkPaid(order.saved)
  /\ tick' = IdleTick
  /\ UNCHANGED <<hour, checkoutVars, paid, hookVars, looks, restarts, faults>>

ScheduleLateWatch ==
  /\ TickAt("schedule")
  /\ order' = IF order.status = "EXPIRED"
                THEN [order EXCEPT !.attempts = tick.done, !.next = NextLateWatchAt(tick.done)]
                ELSE order
  /\ tick' = IdleTick
  /\ UNCHANGED <<hour, checkoutVars, money, hookVars, looks, restarts, faults>>

-----------------------------------------------------------------------------
\* A tick is over long before the next look is due.
HourPasses ==
  /\ order.watched /\ hour <= Looks /\ TickAt("idle")
  /\ hour' = hour + 1
  /\ UNCHANGED <<order, checkoutVars, money, hookVars, watchVars, faults>>

\* The process stops: every call, delivery and tick under way is lost.
Restart ==
  /\ Fault
  /\ call' = [c \in Calls |-> IdleCall]
  /\ delivery' = [d \in Deliveries |-> IdleDelivery]
  /\ tick' = IdleTick
  /\ restarts' = restarts + (IF tick.at \in {"latePaid", "schedule"} THEN 1 ELSE 0)
  /\ UNCHANGED <<order, hour, created, shown, outlived, money, event, looks>>

CheckoutStep(c) ==
  \/ \E po \in ProviderOrders : CreateOrder(c, po)
  \/ GatewayFails(c)
  \/ ReleaseProviderOpenClaim(c)
  \/ MarkPendingPayment(c)
  \/ EnsureInitiatedPayment(c)

TickStep ==
  \/ FindCreatedPastExpiry \/ ExpireCreated \/ FindDuePending \/ ReconcileOrder \/ ReconciledPaid
  \/ ExpireAbandoned \/ PostponePending \/ FindLateWatchDue \/ Look \/ LatePaid
  \/ ScheduleLateWatch

Next ==
  \/ \E c \in Calls : ClaimProviderOpen(c) \/ CheckoutStep(c)
  \/ ClaimGoesStale \/ ShowOpenedOrder
  \/ \E po \in ProviderOrders : \/ CustomerPays(po) \/ CapturePrimary(po) \/ VerifyPayment(po)
                             \/ RetryWindowEnds(po)
  \/ \E d \in Deliveries, po \in ProviderOrders : Claim(d, po)
  \/ \E d \in Deliveries : Apply(d) \/ Finish(d)
  \/ TickStep \/ HourPasses \/ Restart

Spec == Init /\ [][Next]_vars
-----------------------------------------------------------------------------
\* Every variable has its type, and an order that left CREATED otherwise than
\* by expiry names a provider order that exists.
TypeOK ==
  /\ order \in Order
  /\ hour \in Hours
  /\ call \in [Calls -> [at: CallPoints, po: ProviderOrders \cup {None}]]
  /\ shown \subseteq created /\ created \subseteq ProviderOrders
  /\ paid \subseteq shown /\ duplicates \subseteq paid
  /\ {captor, winner} \subseteq paid \cup {None}
  /\ event \in [ProviderOrders -> Event]
  /\ delivery \in [Deliveries -> Delivery]
  /\ tick \in [at: TickPoints, done: 0..(MaxAttempts + Looks)]
  /\ {looks, restarts, faults} \subseteq Nat
  /\ outlived \in BOOLEAN
  /\ order.status \in {"PENDING_PAYMENT", "PAID"} => order.saved \in created

\* One checkout maps to one provider order (phase 14B): the client is only ever
\* shown the provider order that the order names, which is the one that verify,
\* reconciliation and the late watch know - unless a claim was outlived.
ShownIsSaved == outlived \/ shown \subseteq {order.saved}

\* A capture event answered with a 2xx has its payment on record, or the payment
\* is the one whose signal made the order PAID, or the event's row says FAILED:
\* no interleaving of deliveries, errors and restarts lets the provider stop
\* while nothing tells of the money. (A winner that found the payment row
\* captured for another payment is on no row: AckedIsRecorded of OrderPayment.)
AckedIsRecordedOrFailed ==
  \A po \in ProviderOrders :
    event[po].acked => po \in Recorded \/ po = winner \/ event[po].row = "FAILED"

\* The late watch looks once per offset: no look is made twice, save for one cut
\* short by a restart, and the schedule is not ended before the last look.
WatchLooksOncePerOffset ==
  /\ looks <= Looks + restarts
  /\ (order.status = "EXPIRED" /\ order.watched /\ order.next = Never)
       => looks >= Looks
=============================================================================
