------------------------- MODULE PaymentSignalsProofs -------------------------
(***************************************************************************)
(* Theorems about PaymentSignals, for any number of checkout calls, webhook  *)
(* deliveries and provider orders and any length of the late watch: types,   *)
(* which provider order the client is shown, what a 2xx answer to a webhook   *)
(* is worth, and how often the watch looks. Each of the last three rests on   *)
(* an invariant of its own, and all on what is known of the order.            *)
(***************************************************************************)
EXTENDS PaymentSignals, TLAPS

\* The points of a tick that has found the order PENDING_PAYMENT, and those of
\* one that has found it due for a late look.
PendingPoints == {"reconcile", "paid", "abandoned", "postpone"}
WatchPoints == {"look", "latePaid", "schedule"}

\* Payments the database tells of, and the one that won the order.
Known == (ProviderOrders \cap {captor, winner}) \cup duplicates

\* A PENDING order below the cap of attempts is all that a tick reconciles,
\* and a provider order stays saved once it is.
OrderInv ==
  /\ order.status = "CREATED" => order.saved = None /\ order.attempts = 0
  /\ order.saved # None => order.saved \in created
  /\ order.status \in {"PENDING_PAYMENT", "PAID"} => order.saved # None
  /\ order.row => order.saved # None
  /\ order.status # "PAID" => winner = None
  /\ (order.status \in {"CREATED", "PENDING_PAYMENT"} /\ ~order.needsReview)
       => order.attempts < MaxAttempts
  /\ order.status = "PENDING_PAYMENT" => order.attempts <= MaxAttempts
  /\ tick.at \in PendingPoints => order.status # "CREATED" /\ ~order.needsReview
  /\ tick.at \in {"paid", "latePaid"} => order.saved \in paid
  /\ \A c \in Calls : call[c].at \in {"save", "row"} => call[c].po \in created
  /\ \A c \in Calls : call[c].at = "row" => order.saved # None
  /\ \A d \in Deliveries : delivery[d].at # "idle" => delivery[d].of \in paid

\* While no claim was outlived: one call at most is between its claim and its
\* save, it holds the claim, and there is none once a provider order is saved.
ClaimInv ==
  ~outlived =>
    /\ \A c, d \in Calls : Holding(c) /\ Holding(d) => c = d
    /\ \A c \in Calls : Holding(c) =>
         order.saved = None /\ (order.status = "CREATED" => order.claim = "held")
    /\ \A c \in Calls : call[c].at = "row" => call[c].po = order.saved
    /\ shown \subseteq {order.saved}

\* What was processed is on record, and a row that was FAILED stays so until
\* the payment is.
EventInv ==
  /\ \A po \in ProviderOrders : event[po].row = "PROCESSED" => po \in Known
  /\ \A d \in Deliveries :
       /\ delivery[d].at = "finish" =>
            /\ delivery[d].status # "NONE"
            /\ delivery[d].status = "PROCESSED" => delivery[d].of \in Known
       /\ (delivery[d].at # "idle" /\ delivery[d].loaded = "FAILED")
            => event[delivery[d].of].row \in {"PROCESSED", "FAILED"}

\* A look that was made and is not in order.attempts yet.
Unscheduled == IF tick.at \in {"latePaid", "schedule"} THEN 1 ELSE 0

\* attempts of a watched order counts its looks, but for those a restart cut
\* short, and nextReconAt follows from it.
WatchInv ==
  /\ order.watched => order.status \in {"EXPIRED", "PAID"}
  /\ ~order.watched => looks = 0 /\ restarts = 0 /\ tick.at \notin WatchPoints
  /\ (order.watched /\ order.status = "EXPIRED") =>
       /\ order.attempts <= Looks
       /\ order.next = NextLateWatchAt(order.attempts)
       /\ looks = order.attempts + restarts + Unscheduled
  /\ tick.at \in WatchPoints =>
       /\ tick.done \in 1..Looks
       /\ order.status = "EXPIRED" => tick.done = order.attempts + 1
       /\ order.status \in {"EXPIRED", "PAID"}
       /\ IF tick.at = "look" THEN looks < tick.done + restarts
                              ELSE looks <= tick.done + restarts
  /\ looks <= Looks + restarts
-----------------------------------------------------------------------------
\* The constants have the types the arithmetic needs.
LEMMA ConstantTypes ==
  /\ Looks \in Nat /\ MaxFaults \in Nat
  /\ MaxAttempts \in Nat /\ MaxAttempts >= 1
  /\ None \notin ProviderOrders
  BY BoundsAreNat, NoneIsNoProviderOrder

\* The types, the order and the watch, on which the other two rest.
BaseInv == TypeOK /\ OrderInv /\ WatchInv

\* Before checkout nothing is saved, shown, paid or watched.
LEMMA InitBase == Init => BaseInv /\ ClaimInv /\ EventInv
<1> SUFFICES ASSUME Init PROVE BaseInv /\ ClaimInv /\ EventInv
  OBVIOUS
<1> USE ConstantTypes
<1>1. /\ order.status = "CREATED" /\ order.saved = None /\ order.attempts = 0
      /\ ~order.row /\ ~order.watched /\ tick.at = "idle" /\ looks = 0 /\ restarts = 0
      /\ \A c \in Calls : call[c].at = "idle"
      /\ \A d \in Deliveries : delivery[d].at = "idle"
      /\ \A po \in ProviderOrders : event[po].row = "NONE"
  BY DEF Init, IdleCall, IdleDelivery, IdleTick
<1>2. order \in Order
  <2>1. 0 \in 0..(MaxAttempts + Looks)
    OBVIOUS
  <2>2. QED
    BY <2>1 DEF Init, Order
<1>3. tick \in [at: TickPoints, done: 0..(MaxAttempts + Looks)]
  BY DEF Init, IdleTick, TickPoints
<1>4. /\ delivery \in [Deliveries -> Delivery] /\ event \in [ProviderOrders -> Event]
      /\ call \in [Calls -> [at: CallPoints, po: ProviderOrders \cup {None}]]
  BY DEF Init, IdleDelivery, Delivery, Event, IdleCall, CallPoints
<1>5. TypeOK
  <2>1. hour = 0 /\ looks = 0 /\ restarts = 0 /\ faults = 0 /\ outlived = FALSE
    BY DEF Init
  <2>4. hour \in Hours
    BY <2>1 DEF Hours
  <2>2. /\ shown = {} /\ created = {} /\ paid = {}
        /\ captor = None /\ duplicates = {} /\ winner = None
    BY DEF Init
  <2>5. {looks, restarts, faults} \subseteq Nat
    BY <2>1
  <2>6. /\ shown \subseteq created /\ created \subseteq ProviderOrders
        /\ paid \subseteq shown /\ duplicates \subseteq paid
        /\ {captor, winner} \subseteq paid \cup {None}
    BY <2>2
  <2>7. order.status \in {"PENDING_PAYMENT", "PAID"} => order.saved \in created
    BY <1>1
  <2>3. QED
    BY <1>2, <1>3, <1>4, <2>1, <2>4, <2>5, <2>6, <2>7 DEF TypeOK
<1>6. OrderInv
  BY <1>1 DEF Init, OrderInv, PendingPoints
<1>7. WatchInv
  BY <1>1 DEF WatchInv, WatchPoints
<1>8. ClaimInv
  BY <1>1 DEF Init, ClaimInv, Holding
<1>9. EventInv
  BY <1>1 DEF EventInv, Known
<1>10. QED
  BY <1>5, <1>6, <1>7, <1>8, <1>9 DEF BaseInv

\* The compare-and-set saves a provider order that exists, or changes nothing.
LEMMA MarkPendingPaymentBase ==
  ASSUME BaseInv, NEW c \in Calls, MarkPendingPayment(c)
  PROVE  TypeOK' /\ OrderInv'
<1> USE ConstantTypes DEF BaseInv
<1>1. UNCHANGED <<created, shown, paid, captor, duplicates, winner, event, tick, delivery,
                  hour, looks, restarts, faults, outlived>>
  BY DEF MarkPendingPayment, money, ledger, hookVars, watchVars
<1>2. /\ call[c].po \in created
      /\ call' \in [Calls -> [at: CallPoints, po: ProviderOrders \cup {None}]]
  BY DEF TypeOK, OrderInv, MarkPendingPayment, Goto, IdleCall, CallPoints
<1>3. \A d \in Calls : call'[d].at \in {"save", "row"} =>
        call'[d].po = call[d].po /\ call[d].at \in {"save", "row"}
  BY <1>1 DEF TypeOK, MarkPendingPayment, Goto, IdleCall
<1>4. CASE order.status = "CREATED"
  <2>1. order' = [order EXCEPT !.status = "PENDING_PAYMENT", !.saved = call[c].po]
    BY <1>4 DEF MarkPendingPayment
  <2>2. order' \in Order
    BY <1>2, <2>1 DEF TypeOK, Order
  <2>3. /\ order'.status = "PENDING_PAYMENT" /\ order'.saved = call[c].po
        /\ order'.needsReview = order.needsReview
        /\ order'.attempts = 0 /\ order'.row = order.row
    BY <2>1, <1>4 DEF TypeOK, Order, OrderInv
  <2>4. TypeOK'
    BY <1>1, <1>2, <2>2, <2>3 DEF TypeOK
  <2>5. OrderInv'
    BY <1>1, <1>2, <1>3, <1>4, <2>3 DEF TypeOK, OrderInv, PendingPoints
  <2>6. QED
    BY <2>4, <2>5
<1>5. CASE order.status # "CREATED"
  <2>1. UNCHANGED order
    BY <1>5 DEF MarkPendingPayment
  <2>2. TypeOK'
    BY <1>1, <1>2, <2>1 DEF TypeOK
  <2>3. \A d \in Calls :
          call'[d].at = "row" => call[d].at = "row" \/ order.status = "PENDING_PAYMENT"
    BY <1>5 DEF MarkPendingPayment, Goto, IdleCall, TypeOK
  <2>4. OrderInv'
    BY <1>1, <1>2, <1>3, <2>1, <2>3 DEF TypeOK, OrderInv, PendingPoints
  <2>5. QED
    BY <2>2, <2>4
<1>6. QED
  BY <1>4, <1>5

\* A delivery that moves to v, of a payment that was made, leaves all so.
LEMMA DeliveryMoves ==
  ASSUME TypeOK, OrderInv, NEW d \in Deliveries, NEW v \in Delivery,
         delivery' = [delivery EXCEPT ![d] = v], v.at # "idle" => v.of \in paid
  PROVE  /\ delivery' \in [Deliveries -> Delivery]
         /\ \A e \in Deliveries : delivery'[e].at # "idle" => delivery'[e].of \in paid
  BY DEF TypeOK, OrderInv

\* A delivery starts with the row of a payment that was made.
LEMMA ClaimBase ==
  ASSUME BaseInv, NEW d \in Deliveries, NEW po \in ProviderOrders, Claim(d, po)
  PROVE  TypeOK' /\ OrderInv'
<1> USE DEF BaseInv
<1>1. UNCHANGED <<order, hour, call, created, shown, outlived, paid, captor, duplicates,
                  winner, tick, looks, restarts, faults>>
  BY DEF Claim, checkoutVars, money, ledger, watchVars
<1>2. event[po] \in Event /\ po \in paid
  BY DEF TypeOK, Claim
<1>3. CASE Terminal(po)
  <2>1. /\ delivery' = [delivery EXCEPT ![d] = IdleDelivery]
        /\ event' = [event EXCEPT ![po].acked = @ \/ TRUE]
    BY <1>3 DEF Claim, Answer
  <2>2. IdleDelivery \in Delivery /\ IdleDelivery.at = "idle"
    BY DEF IdleDelivery, Delivery
  <2>3. event' \in [ProviderOrders -> Event]
    BY <1>2, <2>1 DEF TypeOK, Event
  <2>4. QED
    BY <1>1, <2>1, <2>2, <2>3, DeliveryMoves DEF TypeOK, OrderInv
<1>4. CASE ~Terminal(po)
  <2> DEFINE r == IF event[po].row = "NONE" THEN "RECEIVED" ELSE event[po].row
             v == [IdleDelivery EXCEPT !.at = "apply", !.of = po, !.loaded = r]
  <2>1. delivery' = [delivery EXCEPT ![d] = v] /\ event' = [event EXCEPT ![po].row = r]
    BY <1>4 DEF Claim
  <2>2. r \in {"RECEIVED", "FAILED"}
    BY <1>2, <1>4 DEF Terminal, Event
  <2>3. v \in Delivery /\ v.of \in paid
    BY <1>2, <2>2 DEF IdleDelivery, Delivery
  <2>4. event' \in [ProviderOrders -> Event]
    BY <1>2, <2>1, <2>2 DEF TypeOK, Event
  <2>5. QED
    BY <1>1, <2>1, <2>3, <2>4, DeliveryMoves DEF TypeOK, OrderInv
<1>5. QED
  BY <1>3, <1>4

\* markOrderPaid keeps the order in its type and makes its payment known.
LEMMA MarkPaidMoves ==
  ASSUME BaseInv, NEW po \in paid, MarkPaid(po)
  PROVE  /\ order' \in Order /\ order'.status = "PAID"
         /\ order'.saved = order.saved /\ order'.row = order.row
         /\ order'.needsReview = order.needsReview /\ order'.saved # None
         /\ order'.watched = order.watched /\ order'.attempts = order.attempts
         /\ order'.next = order.next
         /\ duplicates' \subseteq paid /\ {captor', winner'} \subseteq paid \cup {None}
         /\ Known \subseteq Known' /\ po \in Known'
         /\ order.status # "CREATED"
<1>1. /\ order \in Order /\ duplicates \subseteq paid
      /\ {captor, winner} \subseteq paid \cup {None}
      /\ paid \subseteq ProviderOrders /\ None \notin ProviderOrders
  BY ConstantTypes DEF BaseInv, TypeOK
<1>2. CASE order.status = "PAID"
  <2>1. duplicates' = duplicates \cup ({po} \ {captor}) /\ UNCHANGED <<order, captor, winner>>
    BY <1>2 DEF MarkPaid, Capturable, PaidOrderSources, ClosedUnpaid
  <2>2. QED
    BY <1>1, <1>2, <2>1 DEF Known, BaseInv, OrderInv
<1>3. CASE order.status # "PAID"
  <2>1. /\ Capturable /\ order' = [order EXCEPT !.status = "PAID"]
        /\ captor' = (IF captor = None THEN po ELSE captor) /\ winner' = po
        /\ UNCHANGED duplicates
    BY <1>3 DEF MarkPaid
  <2>2. winner = None /\ order.status # "CREATED" /\ order.saved # None
    BY <1>3, <2>1 DEF Capturable, PaidOrderSources, ClosedUnpaid, BaseInv, OrderInv
  <2>3. Known \subseteq Known' /\ po \in Known'
    BY <1>1, <2>1, <2>2 DEF Known
  <2>4. QED
    BY <1>1, <2>1, <2>2, <2>3 DEF Order
<1>4. QED
  BY <1>2, <1>3

\* The write of the payment row makes its payment known.
LEMMA CapturePrimaryMoves ==
  ASSUME BaseInv, NEW po \in ProviderOrders, CapturePrimary(po)
  PROVE  /\ UNCHANGED <<order, hour, call, created, shown, outlived, paid, duplicates,
                        winner, event, delivery, tick, looks, restarts, faults>>
         /\ captor' \in paid /\ Known \subseteq Known'
<1>1. /\ UNCHANGED <<order, hour, call, created, shown, outlived, paid, duplicates, winner,
                     event, delivery, tick, looks, restarts, faults>>
      /\ captor = None /\ captor' = po /\ po \in paid
  BY DEF CapturePrimary, checkoutVars, hookVars, watchVars
<1>2. QED
  BY <1>1, ConstantTypes DEF Known

\* A delivery puts its payment on record or does not.
LEMMA ApplyBase ==
  ASSUME BaseInv, NEW d \in Deliveries, Apply(d)
  PROVE  TypeOK' /\ OrderInv'
<1> USE DEF BaseInv
<1>1. UNCHANGED <<hour, call, created, shown, outlived, paid, event, tick, looks, restarts>>
  BY DEF Apply, checkoutVars, watchVars
<1>1a. faults' \in Nat
  <2>1. faults \in Nat
    BY DEF TypeOK
  <2>2. faults' = faults \/ faults' = faults + 1
    BY DEF Apply, Applied, NotApplied, Fault
  <2>3. QED
    BY <2>1, <2>2
<1>2. delivery[d] \in Delivery /\ delivery[d].of \in paid
  BY DEF TypeOK, Apply, OrderInv
<1>3. PICK s \in {"PROCESSED", "FAILED"}, b \in BOOLEAN : Outcome(d, s, b)
  BY <1>2 DEF Apply, Applied, NotApplied, TypeOK, Event
<1>4. /\ delivery' \in [Deliveries -> Delivery]
      /\ \A e \in Deliveries : delivery'[e].at # "idle" => delivery'[e].of \in paid
  <2> DEFINE v == [delivery[d] EXCEPT !.at = "finish", !.status = s, !.retry = b]
  <2>1. v \in Delivery /\ v.of = delivery[d].of
    BY <1>2 DEF Delivery
  <2>2. delivery' = [delivery EXCEPT ![d] = v]
    BY <1>3 DEF Outcome, TypeOK
  <2>3. QED
    BY <1>2, <2>1, <2>2, DeliveryMoves
<1>5. CASE MarkPaid(delivery[d].of)
  BY <1>1, <1>1a, <1>2, <1>4, <1>5, MarkPaidMoves DEF TypeOK, OrderInv
<1>6. CASE UNCHANGED <<order, ledger>>
  BY <1>1, <1>1a, <1>4, <1>6 DEF ledger, TypeOK, OrderInv
<1>7. QED
  BY <1>5, <1>6 DEF Apply, Applied, NotApplied

\* markOrderExpired without a watch leaves what is saved.
LEMMA ExpireCreatedBase ==
  ASSUME BaseInv, ExpireCreated
  PROVE  TypeOK' /\ OrderInv'
<1> USE ConstantTypes DEF BaseInv
<1>1. UNCHANGED <<hour, call, created, shown, outlived, paid, captor, duplicates, winner,
                  event, delivery, looks, restarts, faults>>
  BY DEF ExpireCreated, checkoutVars, money, ledger, hookVars
<1>2. tick' \in [at: TickPoints, done: 0..(MaxAttempts + Looks)] /\ tick'.at = "idle"
  BY DEF ExpireCreated, IdleTick, TickPoints
<1>3. CASE UNCHANGED order
  BY <1>1, <1>2, <1>3 DEF TypeOK, OrderInv, PendingPoints
<1>4. CASE order' = [order EXCEPT !.status = "EXPIRED", !.attempts = 0]
  <2>1. 0 \in 0..(MaxAttempts + Looks) /\ order \in Order
    BY DEF TypeOK
  <2>2. order' \in Order
    BY <1>4, <2>1 DEF Order
  <2>3. /\ order'.status = "EXPIRED" /\ order'.saved = order.saved /\ order'.row = order.row
        /\ order'.needsReview = order.needsReview
    BY <1>4, <2>1 DEF Order
  <2>4. order.status # "PAID"
    BY <1>4, <2>1, <2>3 DEF ExpireCreated, Order
  <2>5. QED
    BY <1>1, <1>2, <2>2, <2>3, <2>4 DEF TypeOK, OrderInv, PendingPoints
<1>5. QED
  BY <1>3, <1>4 DEF ExpireCreated

\* markOrderExpired with a watch leaves what is saved.
LEMMA ExpireAbandonedBase ==
  ASSUME BaseInv, ExpireAbandoned
  PROVE  TypeOK' /\ OrderInv'
<1> USE ConstantTypes DEF BaseInv
<1>1. UNCHANGED <<hour, call, created, shown, outlived, paid, captor, duplicates, winner,
                  event, delivery, looks, restarts, faults>>
  BY DEF ExpireAbandoned, checkoutVars, money, ledger, hookVars
<1>2. /\ tick' \in [at: TickPoints, done: 0..(MaxAttempts + Looks)]
      /\ tick'.at \in {"idle", "postpone"} /\ tick.at = "abandoned"
  BY DEF ExpireAbandoned, IdleTick, TickPoints, TickTo, TickAt, TypeOK
<1>3. CASE UNCHANGED order
  BY <1>1, <1>2, <1>3 DEF TypeOK, OrderInv, PendingPoints
<1>4. CASE order' = [order EXCEPT !.status = "EXPIRED", !.attempts = 0, !.watched = TRUE,
                                      !.next = NextLateWatchAt(0)]
  <2>1. /\ 0 \in 0..(MaxAttempts + Looks) /\ order \in Order
        /\ NextLateWatchAt(0) \in Hours \cup {Never}
    BY DEF TypeOK, NextLateWatchAt, Hours, Never
  <2>2. order' \in Order
    BY <1>4, <2>1 DEF Order
  <2>3. /\ order'.status = "EXPIRED" /\ order'.saved = order.saved /\ order'.row = order.row
        /\ order'.needsReview = order.needsReview
    BY <1>4, <2>1 DEF Order
  <2>4. order.status # "PAID"
    BY <1>4, <2>1, <2>3 DEF ExpireAbandoned, Order
  <2>5. QED
    BY <1>1, <1>2, <2>2, <2>3, <2>4 DEF TypeOK, OrderInv, PendingPoints
<1>5. QED
  BY <1>3, <1>4 DEF ExpireAbandoned

\* A postponed order is at the cap of attempts, which stops the ticks, or below.
LEMMA PostponePendingBase ==
  ASSUME BaseInv, PostponePending
  PROVE  TypeOK' /\ OrderInv'
<1> USE ConstantTypes DEF BaseInv
<1>1. UNCHANGED <<hour, call, created, shown, outlived, paid, captor, duplicates, winner,
                  event, delivery, looks, restarts, faults>>
  BY DEF PostponePending, checkoutVars, money, ledger, hookVars
<1>2. tick' \in [at: TickPoints, done: 0..(MaxAttempts + Looks)] /\ tick'.at = "idle"
  BY DEF PostponePending, IdleTick, TickPoints, TypeOK
<1>3. CASE UNCHANGED order
  BY <1>1, <1>2, <1>3 DEF TypeOK, OrderInv, PendingPoints
<1>4. CASE order.status = "PENDING_PAYMENT"
  <2> DEFINE n == order.attempts + 1
             review == (n >= MaxAttempts)
  <2>1. order' = [order EXCEPT !.attempts = n, !.needsReview = review] /\ order \in Order
    BY <1>4 DEF PostponePending, TypeOK, Order
  <2>2. order.attempts \in Nat /\ order.attempts < MaxAttempts
    BY <1>4, <2>1 DEF PostponePending, TickAt, PendingPoints, OrderInv, Order
  <2>3. n \in 0..(MaxAttempts + Looks) /\ review \in BOOLEAN
    BY <2>2
  <2>9. n <= MaxAttempts /\ (~review => n < MaxAttempts)
    BY <2>2
  <2> HIDE DEF n, review
  <2>4. order' \in Order
    BY <2>1, <2>3 DEF Order
  <2>5. /\ order'.status = order.status /\ order'.saved = order.saved /\ order'.row = order.row
        /\ order'.attempts = n /\ order'.needsReview = review
    BY <2>1 DEF Order
  <2>6. TypeOK'
    BY <1>1, <1>2, <2>4, <2>5 DEF TypeOK
  <2>7. OrderInv'
    BY <1>1, <1>2, <1>4, <2>9, <2>5 DEF TypeOK, OrderInv, PendingPoints
  <2>8. QED
    BY <2>6, <2>7
<1>5. QED
  BY <1>3, <1>4 DEF PostponePending

\* A claim changes only the claim and the call.
LEMMA ClaimProviderOpenBase ==
  ASSUME BaseInv, NEW c \in Calls, ClaimProviderOpen(c)
  PROVE  TypeOK' /\ OrderInv'
<1> USE DEF BaseInv
<1>1. UNCHANGED <<hour, created, shown, outlived, paid, captor, duplicates, winner, event,
                  tick, delivery, looks, restarts, faults>>
  BY DEF ClaimProviderOpen, money, ledger, hookVars, watchVars
<1>2. order' = [order EXCEPT !.claim = "held"] /\ call' = [call EXCEPT ![c].at = "gateway"]
  BY DEF ClaimProviderOpen, Goto
<1>3. order' \in Order /\ call' \in [Calls -> [at: CallPoints, po: ProviderOrders \cup {None}]]
  BY <1>2 DEF TypeOK, Order, CallPoints
<1>4. TypeOK'
  BY <1>1, <1>2, <1>3 DEF TypeOK, Order
<1>5. OrderInv'
  BY <1>1, <1>2, <1>3 DEF TypeOK, Order, OrderInv, PendingPoints
<1>6. QED
  BY <1>4, <1>5

\* A late capture leaves what is saved.
LEMMA LatePaidBase ==
  ASSUME BaseInv, LatePaid
  PROVE  TypeOK' /\ OrderInv'
<1> USE ConstantTypes DEF BaseInv
<1>1. UNCHANGED <<hour, call, created, shown, outlived, paid, event, delivery, looks,
                  restarts, faults>>
  BY DEF LatePaid, checkoutVars, hookVars
<1>2. tick' \in [at: TickPoints, done: 0..(MaxAttempts + Looks)] /\ tick'.at = "idle"
  BY DEF LatePaid, IdleTick, TickPoints
<1>3. order.saved \in paid /\ MarkPaid(order.saved)
  BY DEF LatePaid, TickAt, OrderInv
<1>4. QED
  BY <1>1, <1>2, <1>3, MarkPaidMoves DEF TypeOK, OrderInv, PendingPoints

\* A reconciled order is marked paid, or postponed as it is.
LEMMA ReconciledPaidMoves ==
  ASSUME BaseInv, ReconciledPaid
  PROVE  /\ UNCHANGED <<hour, call, created, shown, outlived, paid, event, delivery, looks,
                        restarts, faults>>
         /\ tick.at = "paid" /\ order.saved \in paid
         /\ tick' \in [at: TickPoints, done: 0..(MaxAttempts + Looks)]
         /\ \/ tick'.at = "idle" /\ MarkPaid(order.saved)
            \/ /\ tick'.at = "postpone" /\ Known' = Known
               /\ UNCHANGED <<order, captor, duplicates, winner>>
<1>1. /\ UNCHANGED <<hour, call, created, shown, outlived, paid, event, delivery, looks,
                     restarts, faults>>
      /\ tick.at = "paid" /\ order.saved \in paid
  BY DEF ReconciledPaid, TickAt, checkoutVars, hookVars, BaseInv, OrderInv
<1>2. CASE Payable
  <2>1. MarkPaid(order.saved) /\ tick' = IdleTick
    BY <1>2 DEF ReconciledPaid
  <2>2. QED
    BY <1>1, <2>1, ConstantTypes DEF IdleTick, TickPoints
<1>3. CASE ~Payable
  <2>1. tick' = [tick EXCEPT !.at = "postpone"] /\ UNCHANGED <<order, captor, duplicates,
                                                               winner>>
    BY <1>3 DEF ReconciledPaid, TickTo, ledger
  <2>2. QED
    BY <1>1, <2>1 DEF BaseInv, TypeOK, TickPoints, Known
<1>4. QED
  BY <1>2, <1>3

\* The offsets of the watch are hours of it.
LEMMA NextLateWatchAtType ==
  ASSUME NEW n \in Nat
  PROVE  /\ NextLateWatchAt(n) \in Hours \cup {Never}
         /\ n < Looks => NextLateWatchAt(n) = n + 1 /\ n + 1 # Never
         /\ n >= Looks => NextLateWatchAt(n) = Never
         /\ n <= Looks /\ NextLateWatchAt(n) = Never => n = Looks
  BY ConstantTypes DEF NextLateWatchAt, Hours, Never

\* A look that is due is not beyond the last.
LEMMA FindLateWatchDueBase ==
  ASSUME BaseInv, FindLateWatchDue
  PROVE  /\ order.attempts \in Nat /\ order.attempts < Looks
         /\ TypeOK' /\ OrderInv'
<1> USE ConstantTypes DEF BaseInv
<1>1. UNCHANGED <<order, hour, call, created, shown, outlived, paid, captor, duplicates,
                  winner, event, delivery, looks, restarts, faults>>
  BY DEF FindLateWatchDue, checkoutVars, money, ledger, hookVars
<1>2. tick' = [at |-> "look", done |-> order.attempts + 1]
  BY DEF FindLateWatchDue
<1>3. order.attempts \in Nat /\ order.attempts <= Looks
  BY DEF FindLateWatchDue, WatchInv, TypeOK, Order
<1>4. order.next = NextLateWatchAt(order.attempts) /\ order.next # Never
  BY DEF FindLateWatchDue, WatchInv, TypeOK, Hours, Never
<1>5. order.attempts < Looks
  BY <1>3, <1>4, NextLateWatchAtType
<1>6. tick' \in [at: TickPoints, done: 0..(MaxAttempts + Looks)] /\ tick'.at = "look"
  BY <1>2, <1>3, <1>5 DEF TickPoints
<1>7. QED
  BY <1>1, <1>3, <1>5, <1>6 DEF TypeOK, OrderInv, PendingPoints

\* The count of looks stays within the watch.
LEMMA ScheduleLateWatchBase ==
  ASSUME BaseInv, ScheduleLateWatch
  PROVE  TypeOK' /\ OrderInv'
<1> USE ConstantTypes DEF BaseInv
<1>1. UNCHANGED <<hour, call, created, shown, outlived, paid, captor, duplicates, winner,
                  event, delivery, looks, restarts, faults>>
  BY DEF ScheduleLateWatch, checkoutVars, money, ledger, hookVars
<1>2. tick' \in [at: TickPoints, done: 0..(MaxAttempts + Looks)] /\ tick'.at = "idle"
  BY DEF ScheduleLateWatch, IdleTick, TickPoints
<1>3. CASE order.status = "EXPIRED"
  <2>1. order' = [order EXCEPT !.attempts = tick.done, !.next = NextLateWatchAt(tick.done)]
    BY <1>3 DEF ScheduleLateWatch
  <2>2. tick.done \in 0..(MaxAttempts + Looks) /\ tick.done \in Nat /\ order \in Order
    BY DEF TypeOK
  <2>3. order' \in Order /\ order'.status = "EXPIRED" /\ order'.saved = order.saved
        /\ order'.row = order.row /\ order'.needsReview = order.needsReview
    BY <1>3, <2>1, <2>2, NextLateWatchAtType DEF Order
  <2>4. QED
    BY <1>1, <1>2, <1>3, <2>3 DEF TypeOK, OrderInv, PendingPoints
<1>4. CASE order.status # "EXPIRED"
  <2>1. UNCHANGED order
    BY <1>4 DEF ScheduleLateWatch
  <2>2. QED
    BY <1>1, <1>2, <2>1 DEF TypeOK, OrderInv, PendingPoints
<1>5. QED
  BY <1>3, <1>4

\* The end of the retry window leaves the rest alone.
LEMMA RetryWindowEndsBase ==
  ASSUME BaseInv, NEW po \in ProviderOrders, RetryWindowEnds(po)
  PROVE  TypeOK' /\ OrderInv'
<1> USE DEF BaseInv
<1>1. UNCHANGED <<order, hour, call, created, shown, outlived, paid, captor, duplicates,
                  winner, tick, delivery, looks, restarts, faults>>
  BY DEF RetryWindowEnds, checkoutVars, money, ledger, watchVars
<1>2. event[po] \in Event /\ event' = [event EXCEPT ![po].over = TRUE]
  BY DEF RetryWindowEnds, TypeOK
<1>3. event' \in [ProviderOrders -> Event]
  BY <1>2 DEF TypeOK, Event
<1>4. QED
  BY <1>1, <1>3 DEF TypeOK, OrderInv

\* Every step keeps the types and what is known of the order.
LEMMA BaseStep ==
  ASSUME BaseInv, [Next]_vars
  PROVE  TypeOK' /\ OrderInv'
<1>1. ASSUME NEW c \in Calls, ClaimProviderOpen(c) PROVE TypeOK' /\ OrderInv'
  BY <1>1, ClaimProviderOpenBase
<1>2. ASSUME NEW c \in Calls, NEW po \in ProviderOrders, CreateOrder(c, po)
      PROVE  TypeOK' /\ OrderInv'
  BY <1>2, ConstantTypes DEF BaseInv, TypeOK, OrderInv, Order, Hours, Never, CallPoints,
                             Event, Delivery, TickPoints, PendingPoints, CreateOrder,
                             money, ledger, hookVars, watchVars
<1>3. ASSUME NEW c \in Calls, GatewayFails(c) PROVE TypeOK' /\ OrderInv'
  BY <1>3, ConstantTypes DEF BaseInv, TypeOK, OrderInv, Order, Hours, Never, CallPoints,
                             Event, Delivery, TickPoints, PendingPoints, GatewayFails,
                             Fault, Goto, money, ledger, hookVars, watchVars
<1>4. ASSUME NEW c \in Calls, ReleaseProviderOpenClaim(c) PROVE TypeOK' /\ OrderInv'
  BY <1>4, ConstantTypes DEF BaseInv, TypeOK, OrderInv, Order, Hours, Never, CallPoints,
                             Event, Delivery, TickPoints, PendingPoints,
                             ReleaseProviderOpenClaim, IdleCall, Holding, money, ledger,
                             hookVars,
                             watchVars
<1>5. ASSUME NEW c \in Calls, MarkPendingPayment(c) PROVE TypeOK' /\ OrderInv'
  BY <1>5, MarkPendingPaymentBase
<1>6. ASSUME NEW c \in Calls, EnsureInitiatedPayment(c) PROVE TypeOK' /\ OrderInv'
  BY <1>6, ConstantTypes DEF BaseInv, TypeOK, OrderInv, Order, Hours, Never, CallPoints,
                             Event, Delivery, TickPoints, PendingPoints,
                             EnsureInitiatedPayment, Show, IdleCall, money, ledger, hookVars,
                             watchVars
<1>7. ASSUME ClaimGoesStale PROVE TypeOK' /\ OrderInv'
  BY <1>7, ConstantTypes DEF BaseInv, TypeOK, OrderInv, Order, Hours, Never, CallPoints,
                             Event, Delivery, TickPoints, PendingPoints, ClaimGoesStale,
                             Holding, money, ledger, hookVars, watchVars
<1>8. ASSUME ShowOpenedOrder PROVE TypeOK' /\ OrderInv'
  BY <1>8, ConstantTypes DEF BaseInv, TypeOK, OrderInv, Order, Hours, Never, CallPoints,
                             Event, Delivery, TickPoints, PendingPoints, ShowOpenedOrder,
                             money, ledger, hookVars, watchVars
<1>9. ASSUME NEW po \in ProviderOrders, CustomerPays(po) PROVE TypeOK' /\ OrderInv'
  BY <1>9, ConstantTypes DEF BaseInv, TypeOK, OrderInv, Order, Hours, Never, CallPoints,
                             Event, Delivery, TickPoints, PendingPoints, CustomerPays,
                             checkoutVars, ledger, hookVars, watchVars
<1>10. ASSUME NEW po \in ProviderOrders, VerifyPayment(po) PROVE TypeOK' /\ OrderInv'
  BY <1>10, ConstantTypes, MarkPaidMoves
     DEF BaseInv, TypeOK, OrderInv, Order, Hours, Never, CallPoints, Event, Delivery,
         TickPoints, PendingPoints, VerifyPayment, checkoutVars, hookVars, watchVars
<1>10a. ASSUME NEW po \in ProviderOrders, CapturePrimary(po) PROVE TypeOK' /\ OrderInv'
  BY <1>10a, CapturePrimaryMoves, ConstantTypes
       DEF BaseInv, TypeOK, OrderInv, PendingPoints
<1>11. ASSUME NEW po \in ProviderOrders, RetryWindowEnds(po) PROVE TypeOK' /\ OrderInv'
  BY <1>11, RetryWindowEndsBase
<1>12. ASSUME NEW d \in Deliveries, NEW po \in ProviderOrders, Claim(d, po)
       PROVE  TypeOK' /\ OrderInv'
  BY <1>12, ClaimBase
<1>13. ASSUME NEW d \in Deliveries, Apply(d) PROVE TypeOK' /\ OrderInv'
  BY <1>13, ApplyBase
<1>14. ASSUME NEW d \in Deliveries, Finish(d) PROVE TypeOK' /\ OrderInv'
  BY <1>14, ConstantTypes DEF BaseInv, TypeOK, OrderInv, Order, Hours, Never, CallPoints,
                              Event, Delivery, TickPoints, PendingPoints, Finish,
                              IdleDelivery, checkoutVars, money, ledger, watchVars
<1>15. ASSUME FindCreatedPastExpiry PROVE TypeOK' /\ OrderInv'
  BY <1>15, ConstantTypes DEF BaseInv, TypeOK, OrderInv, Order, Hours, Never, CallPoints,
                              Event, Delivery, TickPoints, PendingPoints,
                              FindCreatedPastExpiry, TickAt, TickTo, checkoutVars, money,
                              ledger,
                              hookVars
<1>16. ASSUME ExpireCreated PROVE TypeOK' /\ OrderInv'
  BY <1>16, ExpireCreatedBase
<1>17. ASSUME FindDuePending PROVE TypeOK' /\ OrderInv'
  BY <1>17, ConstantTypes DEF BaseInv, TypeOK, OrderInv, Order, Hours, Never, CallPoints,
                              Event, Delivery, TickPoints, PendingPoints, FindDuePending,
                              TickAt, TickTo, checkoutVars, money, ledger, hookVars
<1>18. ASSUME ReconcileOrder PROVE TypeOK' /\ OrderInv'
  BY <1>18, ConstantTypes DEF BaseInv, TypeOK, OrderInv, Order, Hours, Never, CallPoints,
                              Event, Delivery, TickPoints, PendingPoints, ReconcileOrder,
                              TickAt, TickTo, checkoutVars, money, ledger, hookVars
<1>19. ASSUME ReconciledPaid PROVE TypeOK' /\ OrderInv'
  BY <1>19, ReconciledPaidMoves, MarkPaidMoves, ConstantTypes
     DEF BaseInv, TypeOK, OrderInv, PendingPoints
<1>20. ASSUME ExpireAbandoned PROVE TypeOK' /\ OrderInv'
  BY <1>20, ExpireAbandonedBase
<1>21. ASSUME PostponePending PROVE TypeOK' /\ OrderInv'
  BY <1>21, PostponePendingBase
<1>22. ASSUME FindLateWatchDue PROVE TypeOK' /\ OrderInv'
  BY <1>22, FindLateWatchDueBase
<1>23. ASSUME Look PROVE TypeOK' /\ OrderInv'
  BY <1>23, ConstantTypes DEF BaseInv, TypeOK, OrderInv, Order, Hours, Never, CallPoints,
                              Event, Delivery, TickPoints, PendingPoints, Look, TickAt,
                              TickTo, checkoutVars, money, ledger, hookVars
<1>24. ASSUME LatePaid PROVE TypeOK' /\ OrderInv'
  BY <1>24, LatePaidBase
<1>25. ASSUME ScheduleLateWatch PROVE TypeOK' /\ OrderInv'
  BY <1>25, ScheduleLateWatchBase
<1>26. ASSUME HourPasses PROVE TypeOK' /\ OrderInv'
  BY <1>26, ConstantTypes DEF BaseInv, TypeOK, OrderInv, Order, Hours, Never, CallPoints,
                              Event, Delivery, TickPoints, PendingPoints, HourPasses,
                              TickAt, checkoutVars, money, ledger, hookVars, watchVars
<1>27. ASSUME Restart PROVE TypeOK' /\ OrderInv'
  BY <1>27, ConstantTypes DEF BaseInv, TypeOK, OrderInv, Order, Hours, Never, CallPoints,
                              Event, Delivery, TickPoints, PendingPoints, Restart, Fault,
                              IdleCall, IdleDelivery, IdleTick, money, ledger
<1>28. CASE UNCHANGED vars
  BY <1>28 DEF BaseInv, TypeOK, OrderInv, PendingPoints, vars, checkoutVars, money, ledger,
               hookVars, watchVars
<1>29. QED
  BY <1>1, <1>2, <1>3, <1>4, <1>5, <1>6, <1>7, <1>8, <1>9, <1>10, <1>10a, <1>11, <1>12, <1>13,
     <1>14, <1>15, <1>16, <1>17, <1>18, <1>19, <1>20, <1>21, <1>22, <1>23, <1>24, <1>25,
     <1>26, <1>27, <1>28 DEF Next, CheckoutStep, TickStep

\* The watch starts with no look made.
LEMMA ExpireAbandonedWatch ==
  ASSUME BaseInv, ExpireAbandoned
  PROVE  WatchInv'
<1> USE ConstantTypes DEF BaseInv
<1>1. UNCHANGED <<looks, restarts>> /\ tick'.at \in {"idle", "postpone"}
  BY DEF ExpireAbandoned, IdleTick, TickTo, TypeOK
<1>2. tick.at = "abandoned"
  BY DEF ExpireAbandoned, TickAt
<1>3. CASE UNCHANGED order
  BY <1>1, <1>2, <1>3 DEF WatchInv, WatchPoints, Unscheduled
<1>4. CASE ~UNCHANGED order
  <2>1. /\ order.status = "PENDING_PAYMENT" /\ order \in Order
        /\ order' = [order EXCEPT !.status = "EXPIRED", !.attempts = 0, !.watched = TRUE,
                                  !.next = NextLateWatchAt(0)]
    BY <1>4 DEF ExpireAbandoned, TypeOK
  <2>2. /\ order'.status = "EXPIRED" /\ order'.attempts = 0 /\ order'.watched
        /\ order'.next = NextLateWatchAt(0)
    BY <2>1 DEF Order
  <2>3. ~order.watched
    BY <2>1 DEF WatchInv
  <2>4. looks = 0 /\ restarts = 0
    BY <2>3 DEF WatchInv
  <2>5. QED
    BY <1>1, <2>2, <2>4 DEF WatchInv, WatchPoints, Unscheduled
<1>5. QED
  BY <1>3, <1>4

\* A tick that finds the order due looks for the next offset.
LEMMA FindLateWatchDueWatch ==
  ASSUME BaseInv, FindLateWatchDue
  PROVE  WatchInv'
<1> USE ConstantTypes DEF BaseInv
<1>1. UNCHANGED <<order, looks, restarts>> /\ tick.at = "idle"
  BY DEF FindLateWatchDue, TickAt
<1>2. /\ tick' = [at |-> "look", done |-> order.attempts + 1]
      /\ order.status = "EXPIRED" /\ order.watched
  BY DEF FindLateWatchDue
<1>3. order.attempts \in Nat /\ order.attempts < Looks
  BY FindLateWatchDueBase
<1>4. tick'.at = "look" /\ tick'.done = order.attempts + 1 /\ tick'.done \in 1..Looks
  BY <1>2, <1>3
<1>5. looks \in Nat /\ restarts \in Nat /\ looks = order.attempts + restarts
  BY <1>1, <1>2, <1>3 DEF WatchInv, Unscheduled, TypeOK
<1>6. QED
  BY <1>1, <1>2, <1>3, <1>4, <1>5 DEF WatchInv, WatchPoints, Unscheduled

\* A restart moves a look that was not scheduled into the count of lost ones.
LEMMA RestartWatch ==
  ASSUME BaseInv, Restart
  PROVE  WatchInv'
<1> USE ConstantTypes DEF BaseInv
<1>1. UNCHANGED <<order, looks>> /\ tick'.at = "idle" /\ restarts' = restarts + Unscheduled
  <2>1. UNCHANGED <<order, looks>> /\ tick' = IdleTick
    BY DEF Restart
  <2>2. restarts' = restarts + Unscheduled
    BY Zenon DEF Restart, Unscheduled
  <2>3. QED
    BY <2>1, <2>2 DEF IdleTick
<1>2. looks \in Nat /\ restarts \in Nat /\ order.attempts \in Nat /\ Unscheduled \in {0, 1}
  BY DEF TypeOK, Order, Unscheduled
<1>3. Unscheduled' = 0
  BY <1>1 DEF Unscheduled
<1>4. ~order.watched => Unscheduled = 0
  BY DEF WatchInv, WatchPoints, Unscheduled
<1>5. QED
  BY <1>1, <1>2, <1>3, <1>4 DEF WatchInv, WatchPoints

\* The call that saves is the only one, and nothing was shown before.
LEMMA MarkPendingPaymentClaim ==
  ASSUME BaseInv, ClaimInv, NEW c \in Calls, MarkPendingPayment(c)
  PROVE  ClaimInv'
<1> SUFFICES ASSUME ~outlived' PROVE ClaimInv'
  BY DEF ClaimInv
<1> USE ConstantTypes DEF BaseInv
<1>1. UNCHANGED <<outlived, shown>> /\ ~outlived
  BY DEF MarkPendingPayment
<1>2. /\ Holding(c) /\ call[c].at = "save" /\ call[c].po \in ProviderOrders
      /\ shown \subseteq ProviderOrders
  BY DEF MarkPendingPayment, Holding, OrderInv, TypeOK
<1>3. order.saved = None /\ shown = {} /\ \A d \in Calls : call[d].at # "row"
  <2>1. order.saved = None /\ shown \subseteq {order.saved}
    BY <1>1, <1>2 DEF ClaimInv
  <2>2. QED
    BY <1>2, <2>1 DEF OrderInv
<1>4. \A d \in Calls \ {c} : ~Holding(d)
  BY <1>1, <1>2 DEF ClaimInv
<1>5. CASE order.status = "CREATED"
  <2>1. /\ order' = [order EXCEPT !.status = "PENDING_PAYMENT", !.saved = call[c].po]
        /\ call' = [call EXCEPT ![c].at = "row"] /\ order \in Order
    BY <1>5 DEF MarkPendingPayment, Goto, TypeOK
  <2>2. order'.saved = call[c].po /\ order'.status = "PENDING_PAYMENT"
    BY <2>1 DEF Order
  <2>3. /\ call'[c].at = "row" /\ call'[c].po = call[c].po
        /\ \A d \in Calls \ {c} : call'[d] = call[d]
    BY <2>1 DEF TypeOK
  <2>4. \A d \in Calls : ~Holding(d)'
    BY <1>4, <2>3 DEF Holding
  <2>5. QED
    BY <1>1, <1>3, <2>2, <2>3, <2>4 DEF ClaimInv
<1>6. CASE order.status # "CREATED"
  <2>1. call' = [call EXCEPT ![c] = IdleCall] /\ UNCHANGED order
    BY <1>3, <1>6 DEF MarkPendingPayment, OrderInv
  <2>2. call'[c].at = "idle" /\ \A d \in Calls \ {c} : call'[d] = call[d]
    BY <2>1 DEF TypeOK, IdleCall
  <2>3. \A d \in Calls : ~Holding(d)'
    BY <1>4, <2>2 DEF Holding
  <2>4. QED
    BY <1>1, <1>3, <2>1, <2>2, <2>3 DEF ClaimInv
<1>7. QED
  BY <1>5, <1>6

\* A delivery loads a row that is not terminal.
LEMMA ClaimEvent ==
  ASSUME BaseInv, EventInv, NEW d \in Deliveries, NEW po \in ProviderOrders, Claim(d, po)
  PROVE  EventInv'
<1> USE DEF BaseInv
<1>1. Known' = Known /\ event[po] \in Event /\ event \in [ProviderOrders -> Event]
  BY DEF Claim, money, ledger, TypeOK, Known
<1>2. CASE Terminal(po)
  <2>1. /\ delivery' = [delivery EXCEPT ![d] = IdleDelivery]
        /\ event' = [event EXCEPT ![po].acked = @ \/ TRUE]
    BY <1>2 DEF Claim, Answer
  <2>2. \A q \in ProviderOrders : event'[q].row = event[q].row
    BY <1>1, <2>1 DEF Event
  <2>3. /\ delivery'[d].at = "idle"
        /\ \A e \in Deliveries \ {d} : delivery'[e] = delivery[e]
    BY <2>1 DEF TypeOK, IdleDelivery
  <2>4. \A e \in Deliveries : delivery[e].at # "idle" => delivery[e].of \in ProviderOrders
    BY DEF TypeOK, OrderInv
  <2>5. QED
    BY <1>1, <2>2, <2>3, <2>4 DEF EventInv, Known
<1>3. CASE ~Terminal(po)
  <2> DEFINE r == IF event[po].row = "NONE" THEN "RECEIVED" ELSE event[po].row
             v == [IdleDelivery EXCEPT !.at = "apply", !.of = po, !.loaded = r]
  <2>1. delivery' = [delivery EXCEPT ![d] = v] /\ event' = [event EXCEPT ![po].row = r]
    BY <1>3 DEF Claim
  <2>2. r \in {"RECEIVED", "FAILED"}
    BY <1>1, <1>3 DEF Terminal, Event
  <2>3. v.at = "apply" /\ v.of = po /\ v.loaded = r
    BY DEF IdleDelivery
  <2>4. event[po].row # "NONE" => r = event[po].row
    OBVIOUS
  <2> HIDE DEF r, v
  <2>5. event'[po].row = r /\ \A q \in ProviderOrders \ {po} : event'[q] = event[q]
    BY <1>1, <2>1 DEF Event
  <2>6. /\ delivery'[d] = v
        /\ \A e \in Deliveries \ {d} : delivery'[e] = delivery[e]
    BY <2>1 DEF TypeOK
  <2>7. \A e \in Deliveries : delivery[e].at # "idle" => delivery[e].of \in ProviderOrders
    BY DEF TypeOK, OrderInv
  <2>8. QED
    BY <1>1, <2>2, <2>3, <2>4, <2>5, <2>6, <2>7 DEF EventInv, Known
<1>4. QED
  BY <1>2, <1>3

\* Every step keeps the account of the late looks.
LEMMA WatchStep ==
  ASSUME BaseInv, [Next]_vars
  PROVE  WatchInv'
<1>1. ASSUME NEW c \in Calls, ClaimProviderOpen(c) PROVE WatchInv'
  BY <1>1, ConstantTypes DEF BaseInv, TypeOK, OrderInv, WatchInv, WatchPoints, Unscheduled,
                             Order, ClaimProviderOpen, Goto, money, ledger, hookVars, watchVars
<1>2. ASSUME NEW c \in Calls, NEW po \in ProviderOrders, CreateOrder(c, po) PROVE WatchInv'
  BY <1>2, ConstantTypes DEF BaseInv, TypeOK, OrderInv, WatchInv, WatchPoints, Unscheduled,
                             Order, CreateOrder, money, ledger, hookVars, watchVars
<1>3. ASSUME NEW c \in Calls, GatewayFails(c) PROVE WatchInv'
  BY <1>3, ConstantTypes DEF BaseInv, TypeOK, OrderInv, WatchInv, WatchPoints, Unscheduled,
                             Order, GatewayFails, Fault, Goto, money, ledger, hookVars,
                             watchVars
<1>4. ASSUME NEW c \in Calls, ReleaseProviderOpenClaim(c) PROVE WatchInv'
  BY <1>4, ConstantTypes DEF BaseInv, TypeOK, OrderInv, WatchInv, WatchPoints, Unscheduled,
                             Order, ReleaseProviderOpenClaim, IdleCall, Holding, money, ledger,
                             hookVars, watchVars
<1>5. ASSUME NEW c \in Calls, MarkPendingPayment(c) PROVE WatchInv'
  BY <1>5, ConstantTypes DEF BaseInv, TypeOK, OrderInv, WatchInv, WatchPoints, Unscheduled,
                             Order, MarkPendingPayment, Goto, IdleCall, money, ledger, hookVars,
                             watchVars
<1>6. ASSUME NEW c \in Calls, EnsureInitiatedPayment(c) PROVE WatchInv'
  BY <1>6, ConstantTypes DEF BaseInv, TypeOK, OrderInv, WatchInv, WatchPoints, Unscheduled,
                             Order, EnsureInitiatedPayment, Show, IdleCall, money, ledger,
                             hookVars, watchVars
<1>7. ASSUME ClaimGoesStale PROVE WatchInv'
  BY <1>7, ConstantTypes DEF BaseInv, TypeOK, OrderInv, WatchInv, WatchPoints, Unscheduled,
                             Order, ClaimGoesStale, Holding, money, ledger, hookVars, watchVars
<1>8. ASSUME ShowOpenedOrder PROVE WatchInv'
  BY <1>8, ConstantTypes DEF BaseInv, TypeOK, OrderInv, WatchInv, WatchPoints, Unscheduled,
                             Order, ShowOpenedOrder, money, ledger, hookVars, watchVars
<1>9. ASSUME NEW po \in ProviderOrders, CustomerPays(po) PROVE WatchInv'
  BY <1>9, ConstantTypes DEF BaseInv, TypeOK, OrderInv, WatchInv, WatchPoints, Unscheduled,
                             Order, CustomerPays, checkoutVars, ledger, hookVars, watchVars
<1>10. ASSUME NEW po \in ProviderOrders, VerifyPayment(po) PROVE WatchInv'
  BY <1>10, ConstantTypes, MarkPaidMoves DEF BaseInv, TypeOK, OrderInv, WatchInv, WatchPoints,
                              Unscheduled, Order, VerifyPayment, checkoutVars, hookVars,
                              watchVars
<1>10a. ASSUME NEW po \in ProviderOrders, CapturePrimary(po) PROVE WatchInv'
  BY <1>10a, CapturePrimaryMoves, ConstantTypes
       DEF BaseInv, TypeOK, OrderInv, WatchInv, WatchPoints, Unscheduled
<1>11. ASSUME NEW po \in ProviderOrders, RetryWindowEnds(po) PROVE WatchInv'
  BY <1>11, ConstantTypes DEF BaseInv, TypeOK, OrderInv, WatchInv, WatchPoints,
                              Unscheduled, Order, RetryWindowEnds, checkoutVars, money, ledger,
                              watchVars
<1>12. ASSUME NEW d \in Deliveries, NEW po \in ProviderOrders, Claim(d, po) PROVE WatchInv'
  BY <1>12, ConstantTypes DEF BaseInv, TypeOK, OrderInv, WatchInv, WatchPoints,
                              Unscheduled, Order, Claim, Terminal, Answer, IdleDelivery,
                              checkoutVars, money, ledger, watchVars
<1>13. ASSUME NEW d \in Deliveries, Apply(d) PROVE WatchInv'
  BY <1>13, ConstantTypes, MarkPaidMoves DEF BaseInv, TypeOK, OrderInv, WatchInv, WatchPoints,
                              Unscheduled, Order, Apply, Applied, Outcome, NotApplied, Fault,
                              checkoutVars, watchVars
<1>14. ASSUME NEW d \in Deliveries, Finish(d) PROVE WatchInv'
  BY <1>14, ConstantTypes DEF BaseInv, TypeOK, OrderInv, WatchInv, WatchPoints,
                              Unscheduled, Order, Finish, IdleDelivery, checkoutVars,
                              money, ledger, watchVars
<1>15. ASSUME FindCreatedPastExpiry PROVE WatchInv'
  BY <1>15, ConstantTypes DEF BaseInv, TypeOK, OrderInv, WatchInv, WatchPoints,
                              Unscheduled, Order, FindCreatedPastExpiry, TickAt, TickTo,
                              checkoutVars, money, ledger, hookVars
<1>16. ASSUME ExpireCreated PROVE WatchInv'
  BY <1>16, ConstantTypes DEF BaseInv, TypeOK, OrderInv, WatchInv, WatchPoints,
                              Unscheduled, Order, ExpireCreated, TickAt, IdleTick,
                              checkoutVars, money, ledger, hookVars
<1>17. ASSUME FindDuePending PROVE WatchInv'
  BY <1>17, ConstantTypes DEF BaseInv, TypeOK, OrderInv, WatchInv, WatchPoints,
                              Unscheduled, Order, FindDuePending, TickAt, TickTo,
                              checkoutVars, money, ledger, hookVars
<1>18. ASSUME ReconcileOrder PROVE WatchInv'
  BY <1>18, ConstantTypes DEF BaseInv, TypeOK, OrderInv, WatchInv, WatchPoints,
                              Unscheduled, Order, ReconcileOrder, TickAt, TickTo,
                              checkoutVars, money, ledger, hookVars
<1>19. ASSUME ReconciledPaid PROVE WatchInv'
  BY <1>19, ReconciledPaidMoves, MarkPaidMoves, ConstantTypes
     DEF BaseInv, TypeOK, OrderInv, WatchInv, WatchPoints, Unscheduled
<1>20. ASSUME ExpireAbandoned PROVE WatchInv'
  BY <1>20, ExpireAbandonedWatch
<1>21. ASSUME PostponePending PROVE WatchInv'
  BY <1>21, ConstantTypes DEF BaseInv, TypeOK, OrderInv, WatchInv, WatchPoints,
                              Unscheduled, Order, PostponePending, TickAt, IdleTick,
                              checkoutVars, money, ledger, hookVars
<1>22. ASSUME FindLateWatchDue PROVE WatchInv'
  BY <1>22, FindLateWatchDueWatch
<1>23. ASSUME Look PROVE WatchInv'
  BY <1>23, ConstantTypes DEF BaseInv, TypeOK, OrderInv, WatchInv, WatchPoints,
                              Unscheduled, Order, Look, TickAt, TickTo, checkoutVars,
                              money, ledger, hookVars
<1>24. ASSUME LatePaid PROVE WatchInv'
  BY <1>24, ConstantTypes, MarkPaidMoves DEF BaseInv, TypeOK, OrderInv, WatchInv, WatchPoints,
                              Unscheduled, Order, LatePaid, TickAt, IdleTick, checkoutVars,
                              hookVars
<1>25. ASSUME ScheduleLateWatch PROVE WatchInv'
  BY <1>25, ConstantTypes DEF BaseInv, TypeOK, OrderInv, WatchInv, WatchPoints,
                              Unscheduled, Order, ScheduleLateWatch, TickAt,
                              NextLateWatchAt, Never, IdleTick, checkoutVars, money, ledger,
                              hookVars
<1>26. ASSUME HourPasses PROVE WatchInv'
  BY <1>26, ConstantTypes DEF BaseInv, TypeOK, OrderInv, WatchInv, WatchPoints,
                              Unscheduled, Order, HourPasses, TickAt, checkoutVars, money,
                              ledger,
                              hookVars, watchVars
<1>27. ASSUME Restart PROVE WatchInv'
  BY <1>27, RestartWatch
<1>28. CASE UNCHANGED vars
  BY <1>28 DEF BaseInv, TypeOK, OrderInv, WatchInv, WatchPoints, Unscheduled, Order, vars,
               checkoutVars, money, ledger, hookVars, watchVars
<1>29. QED
  BY <1>1, <1>2, <1>3, <1>4, <1>5, <1>6, <1>7, <1>8, <1>9, <1>10, <1>10a, <1>11, <1>12, <1>13,
     <1>14, <1>15, <1>16, <1>17, <1>18, <1>19, <1>20, <1>21, <1>22, <1>23, <1>24, <1>25,
     <1>26, <1>27, <1>28 DEF Next, CheckoutStep, TickStep

\* Every step keeps the claim with one call, while none was outlived.
LEMMA ClaimStep ==
  ASSUME BaseInv, ClaimInv, [Next]_vars
  PROVE  ClaimInv'
<1>1. ASSUME NEW c \in Calls, ClaimProviderOpen(c) PROVE ClaimInv'
  BY <1>1, ConstantTypes DEF BaseInv, TypeOK, OrderInv, ClaimInv, Order, ClaimProviderOpen,
                             Goto, money, ledger, hookVars, watchVars, Holding
<1>2. ASSUME NEW c \in Calls, NEW po \in ProviderOrders, CreateOrder(c, po) PROVE ClaimInv'
  BY <1>2, ConstantTypes DEF BaseInv, TypeOK, OrderInv, ClaimInv, Order, CreateOrder,
                             money, ledger, hookVars, watchVars, Holding
<1>3. ASSUME NEW c \in Calls, GatewayFails(c) PROVE ClaimInv'
  BY <1>3, ConstantTypes DEF BaseInv, TypeOK, OrderInv, ClaimInv, Order, GatewayFails,
                             Fault, Goto, money, ledger, hookVars, watchVars, Holding
<1>4. ASSUME NEW c \in Calls, ReleaseProviderOpenClaim(c) PROVE ClaimInv'
  BY <1>4, ConstantTypes DEF BaseInv, TypeOK, OrderInv, ClaimInv, Order,
                             ReleaseProviderOpenClaim, IdleCall, Holding, money, ledger,
                             hookVars,
                             watchVars
<1>5. ASSUME NEW c \in Calls, MarkPendingPayment(c) PROVE ClaimInv'
  BY <1>5, MarkPendingPaymentClaim
<1>6. ASSUME NEW c \in Calls, EnsureInitiatedPayment(c) PROVE ClaimInv'
  BY <1>6, ConstantTypes DEF BaseInv, TypeOK, OrderInv, ClaimInv, Order,
                             EnsureInitiatedPayment, Show, IdleCall, money, ledger, hookVars,
                             watchVars, Holding
<1>7. ASSUME ClaimGoesStale PROVE ClaimInv'
  BY <1>7, ConstantTypes DEF BaseInv, TypeOK, OrderInv, ClaimInv, Order, ClaimGoesStale,
                             Holding, money, ledger, hookVars, watchVars
<1>8. ASSUME ShowOpenedOrder PROVE ClaimInv'
  BY <1>8, ConstantTypes DEF BaseInv, TypeOK, OrderInv, ClaimInv, Order, ShowOpenedOrder,
                             money, ledger, hookVars, watchVars, Holding
<1>9. ASSUME NEW po \in ProviderOrders, CustomerPays(po) PROVE ClaimInv'
  BY <1>9, ConstantTypes DEF BaseInv, TypeOK, OrderInv, ClaimInv, Order, CustomerPays,
                             checkoutVars, ledger, hookVars, watchVars, Holding
<1>10. ASSUME NEW po \in ProviderOrders, VerifyPayment(po) PROVE ClaimInv'
  BY <1>10, ConstantTypes, MarkPaidMoves
     DEF BaseInv, TypeOK, OrderInv, ClaimInv, Order, VerifyPayment, checkoutVars, hookVars,
         watchVars, Holding
<1>10a. ASSUME NEW po \in ProviderOrders, CapturePrimary(po) PROVE ClaimInv'
  BY <1>10a, CapturePrimaryMoves, ConstantTypes
       DEF BaseInv, TypeOK, OrderInv, ClaimInv, Holding
<1>11. ASSUME NEW po \in ProviderOrders, RetryWindowEnds(po) PROVE ClaimInv'
  BY <1>11, ConstantTypes DEF BaseInv, TypeOK, OrderInv, ClaimInv, Order, RetryWindowEnds,
                              checkoutVars, money, ledger, watchVars, Holding
<1>12. ASSUME NEW d \in Deliveries, NEW po \in ProviderOrders, Claim(d, po) PROVE ClaimInv'
  BY <1>12, ConstantTypes DEF BaseInv, TypeOK, OrderInv, ClaimInv, Order, Claim, Terminal,
                              Answer, IdleDelivery, checkoutVars, money, ledger, watchVars,
                              Holding
<1>13. ASSUME NEW d \in Deliveries, Apply(d) PROVE ClaimInv'
  BY <1>13, ConstantTypes, MarkPaidMoves
     DEF BaseInv, TypeOK, OrderInv, ClaimInv, Order, Apply, Applied, Outcome, NotApplied,
         Fault, checkoutVars, watchVars, Holding
<1>14. ASSUME NEW d \in Deliveries, Finish(d) PROVE ClaimInv'
  BY <1>14, ConstantTypes DEF BaseInv, TypeOK, OrderInv, ClaimInv, Order, Finish,
                              IdleDelivery, checkoutVars, money, ledger, watchVars, Holding
<1>15. ASSUME FindCreatedPastExpiry PROVE ClaimInv'
  BY <1>15, ConstantTypes DEF BaseInv, TypeOK, OrderInv, ClaimInv, Order,
                              FindCreatedPastExpiry, TickAt, TickTo, checkoutVars, money,
                              ledger,
                              hookVars, Holding
<1>16. ASSUME ExpireCreated PROVE ClaimInv'
  BY <1>16, ConstantTypes, ZenonT(40)
                          DEF BaseInv, TypeOK, OrderInv, ClaimInv, Order, ExpireCreated,
                              TickAt, IdleTick, checkoutVars, money, ledger, hookVars, Holding
<1>17. ASSUME FindDuePending PROVE ClaimInv'
  BY <1>17, ConstantTypes DEF BaseInv, TypeOK, OrderInv, ClaimInv, Order, FindDuePending,
                              TickAt, TickTo, checkoutVars, money, ledger, hookVars, Holding
<1>18. ASSUME ReconcileOrder PROVE ClaimInv'
  BY <1>18, ConstantTypes DEF BaseInv, TypeOK, OrderInv, ClaimInv, Order, ReconcileOrder,
                              TickAt, TickTo, checkoutVars, money, ledger, hookVars, Holding
<1>19. ASSUME ReconciledPaid PROVE ClaimInv'
  BY <1>19, ReconciledPaidMoves, MarkPaidMoves, ConstantTypes
     DEF BaseInv, TypeOK, OrderInv, ClaimInv, Holding
<1>20. ASSUME ExpireAbandoned PROVE ClaimInv'
  BY <1>20, ConstantTypes, ZenonT(40)
                          DEF BaseInv, TypeOK, OrderInv, ClaimInv, Order, ExpireAbandoned,
                              TickAt, IdleTick, NextLateWatchAt, Never, TickTo,
                              checkoutVars, money, ledger, hookVars, Holding
<1>21. ASSUME PostponePending PROVE ClaimInv'
  BY <1>21, ConstantTypes, ZenonT(40)
                          DEF BaseInv, TypeOK, OrderInv, ClaimInv, Order, PostponePending,
                              TickAt, IdleTick, checkoutVars, money, ledger, hookVars, Holding
<1>22. ASSUME FindLateWatchDue PROVE ClaimInv'
  BY <1>22, ConstantTypes DEF BaseInv, TypeOK, OrderInv, ClaimInv, Order, FindLateWatchDue,
                              TickAt, checkoutVars, money, ledger, hookVars, Holding
<1>23. ASSUME Look PROVE ClaimInv'
  BY <1>23, ConstantTypes DEF BaseInv, TypeOK, OrderInv, ClaimInv, Order, Look, TickAt,
                              TickTo, checkoutVars, money, ledger, hookVars, Holding
<1>24. ASSUME LatePaid PROVE ClaimInv'
  BY <1>24, ConstantTypes, MarkPaidMoves
     DEF BaseInv, TypeOK, OrderInv, ClaimInv, Order, LatePaid, TickAt, IdleTick,
         checkoutVars, hookVars, Holding
<1>25. ASSUME ScheduleLateWatch PROVE ClaimInv'
  BY <1>25, ConstantTypes DEF BaseInv, TypeOK, OrderInv, ClaimInv, Order,
                              ScheduleLateWatch, TickAt, NextLateWatchAt, Never, IdleTick,
                              checkoutVars, money, ledger, hookVars, Holding
<1>26. ASSUME HourPasses PROVE ClaimInv'
  BY <1>26, ConstantTypes DEF BaseInv, TypeOK, OrderInv, ClaimInv, Order, HourPasses,
                              TickAt, checkoutVars, money, ledger, hookVars, watchVars, Holding
<1>27. ASSUME Restart PROVE ClaimInv'
  BY <1>27, ConstantTypes DEF BaseInv, TypeOK, OrderInv, ClaimInv, Order, Restart, Fault,
                              IdleCall, IdleDelivery, IdleTick, money, ledger, Holding
<1>28. CASE UNCHANGED vars
  BY <1>28 DEF BaseInv, TypeOK, OrderInv, ClaimInv, Order, vars, checkoutVars, money, ledger,
               hookVars, watchVars, Holding
<1>29. QED
  BY <1>1, <1>2, <1>3, <1>4, <1>5, <1>6, <1>7, <1>8, <1>9, <1>10, <1>10a, <1>11, <1>12, <1>13,
     <1>14, <1>15, <1>16, <1>17, <1>18, <1>19, <1>20, <1>21, <1>22, <1>23, <1>24, <1>25,
     <1>26, <1>27, <1>28 DEF Next, CheckoutStep, TickStep

\* Every step keeps the webhook rows true.
LEMMA EventStep ==
  ASSUME BaseInv, EventInv, [Next]_vars
  PROVE  EventInv'
<1>1. ASSUME NEW c \in Calls, ClaimProviderOpen(c) PROVE EventInv'
  BY <1>1, ConstantTypes DEF BaseInv, TypeOK, OrderInv, EventInv, Known, Event, Delivery,
                             ClaimProviderOpen, Goto, money, ledger, hookVars, watchVars
<1>2. ASSUME NEW c \in Calls, NEW po \in ProviderOrders, CreateOrder(c, po) PROVE EventInv'
  BY <1>2, ConstantTypes DEF BaseInv, TypeOK, OrderInv, EventInv, Known, Event, Delivery,
                             CreateOrder, money, ledger, hookVars, watchVars
<1>3. ASSUME NEW c \in Calls, GatewayFails(c) PROVE EventInv'
  BY <1>3, ConstantTypes DEF BaseInv, TypeOK, OrderInv, EventInv, Known, Event, Delivery,
                             GatewayFails, Fault, Goto, money, ledger, hookVars, watchVars
<1>4. ASSUME NEW c \in Calls, ReleaseProviderOpenClaim(c) PROVE EventInv'
  BY <1>4, ConstantTypes DEF BaseInv, TypeOK, OrderInv, EventInv, Known, Event, Delivery,
                             ReleaseProviderOpenClaim, IdleCall, Holding, money, ledger,
                             hookVars,
                             watchVars
<1>5. ASSUME NEW c \in Calls, MarkPendingPayment(c) PROVE EventInv'
  BY <1>5, ConstantTypes DEF BaseInv, TypeOK, OrderInv, EventInv, Known, Event, Delivery,
                             MarkPendingPayment, Goto, IdleCall, money, ledger, hookVars,
                             watchVars
<1>6. ASSUME NEW c \in Calls, EnsureInitiatedPayment(c) PROVE EventInv'
  BY <1>6, ConstantTypes DEF BaseInv, TypeOK, OrderInv, EventInv, Known, Event, Delivery,
                             EnsureInitiatedPayment, Show, IdleCall, money, ledger, hookVars,
                             watchVars
<1>7. ASSUME ClaimGoesStale PROVE EventInv'
  BY <1>7, ConstantTypes DEF BaseInv, TypeOK, OrderInv, EventInv, Known, Event, Delivery,
                             ClaimGoesStale, Holding, money, ledger, hookVars, watchVars
<1>8. ASSUME ShowOpenedOrder PROVE EventInv'
  BY <1>8, ConstantTypes DEF BaseInv, TypeOK, OrderInv, EventInv, Known, Event, Delivery,
                             ShowOpenedOrder, money, ledger, hookVars, watchVars
<1>9. ASSUME NEW po \in ProviderOrders, CustomerPays(po) PROVE EventInv'
  BY <1>9, ConstantTypes DEF BaseInv, TypeOK, OrderInv, EventInv, Known, Event, Delivery,
                             CustomerPays, checkoutVars, ledger, hookVars, watchVars
<1>10. ASSUME NEW po \in ProviderOrders, VerifyPayment(po) PROVE EventInv'
  BY <1>10, ConstantTypes, MarkPaidMoves
     DEF BaseInv, TypeOK, OrderInv, EventInv, Known, Event, Delivery, VerifyPayment,
         checkoutVars, hookVars, watchVars
<1>10a. ASSUME NEW po \in ProviderOrders, CapturePrimary(po) PROVE EventInv'
  BY <1>10a, CapturePrimaryMoves, ConstantTypes
       DEF BaseInv, TypeOK, OrderInv, EventInv, Known
<1>11. ASSUME NEW po \in ProviderOrders, RetryWindowEnds(po) PROVE EventInv'
  <2>1. Known' = Known
    BY <1>11 DEF RetryWindowEnds, money, ledger, Known
  <2>2. QED
    BY <1>11, <2>1 DEF BaseInv, TypeOK, EventInv, Event, RetryWindowEnds
<1>12. ASSUME NEW d \in Deliveries, NEW po \in ProviderOrders, Claim(d, po) PROVE EventInv'
  BY <1>12, ClaimEvent
<1>13. ASSUME NEW d \in Deliveries, Apply(d) PROVE EventInv'
  <2>1. /\ event' = event /\ delivery[d].at = "apply" /\ delivery[d].of \in paid
        /\ delivery \in [Deliveries -> Delivery]
    BY <1>13 DEF Apply, BaseInv, TypeOK, OrderInv
  <2>2. /\ Known \subseteq Known'
        /\ \/ delivery[d].of \in Known' /\ Outcome(d, "PROCESSED", FALSE)
           \/ Outcome(d, "FAILED", ~event[delivery[d].of].over)
    <3>1. CASE Applied(d)
      BY <2>1, <3>1, MarkPaidMoves DEF Applied
    <3>2. CASE NotApplied(d)
      BY <3>2 DEF NotApplied, ledger, Known
    <3>3. QED
      BY <1>13, <3>1, <3>2 DEF Apply
  <2>3. PICK s \in {"PROCESSED", "FAILED"} :
          /\ \E b \in BOOLEAN \cup {~event[delivery[d].of].over} : Outcome(d, s, b)
          /\ s = "PROCESSED" => delivery[d].of \in Known'
    BY <2>2
  <2>4. /\ delivery'[d].at = "finish" /\ delivery'[d].status = s
        /\ delivery'[d].of = delivery[d].of /\ delivery'[d].loaded = delivery[d].loaded
        /\ \A e \in Deliveries \ {d} : delivery'[e] = delivery[e]
    BY <2>1, <2>3 DEF Outcome, Delivery
  <2> HIDE <2>3
  <2>5. s \in {"PROCESSED", "FAILED"} /\ (s = "PROCESSED" => delivery[d].of \in Known')
    BY <2>3
  <2>6. QED
    BY <2>1, <2>2, <2>4, <2>5 DEF EventInv
<1>14. ASSUME NEW d \in Deliveries, Finish(d) PROVE EventInv'
  <2>1. Known' = Known
    BY <1>14 DEF Finish, money, ledger, Known
  <2>2. QED
    BY <1>14, <2>1, ConstantTypes, SMTT(30)
                          DEF BaseInv, TypeOK, OrderInv, EventInv, Event, Delivery, Finish,
                              IdleDelivery, checkoutVars, watchVars
<1>15. ASSUME FindCreatedPastExpiry PROVE EventInv'
  BY <1>15, ConstantTypes DEF BaseInv, TypeOK, OrderInv, EventInv, Known, Event, Delivery,
                              FindCreatedPastExpiry, TickAt, TickTo, checkoutVars, money,
                              ledger,
                              hookVars
<1>16. ASSUME ExpireCreated PROVE EventInv'
  BY <1>16, ConstantTypes DEF BaseInv, TypeOK, OrderInv, EventInv, Known, Event, Delivery,
                              ExpireCreated, TickAt, IdleTick, checkoutVars, money, ledger,
                              hookVars
<1>17. ASSUME FindDuePending PROVE EventInv'
  BY <1>17, ConstantTypes DEF BaseInv, TypeOK, OrderInv, EventInv, Known, Event, Delivery,
                              FindDuePending, TickAt, TickTo, checkoutVars, money, ledger,
                              hookVars
<1>18. ASSUME ReconcileOrder PROVE EventInv'
  BY <1>18, ConstantTypes DEF BaseInv, TypeOK, OrderInv, EventInv, Known, Event, Delivery,
                              ReconcileOrder, TickAt, TickTo, checkoutVars, money, ledger,
                              hookVars
<1>19. ASSUME ReconciledPaid PROVE EventInv'
  BY <1>19, ReconciledPaidMoves, MarkPaidMoves, ConstantTypes
     DEF BaseInv, TypeOK, OrderInv, EventInv
<1>20. ASSUME ExpireAbandoned PROVE EventInv'
  BY <1>20, ConstantTypes DEF BaseInv, TypeOK, OrderInv, EventInv, Known, Event, Delivery,
                              ExpireAbandoned, TickAt, IdleTick, NextLateWatchAt, Never,
                              TickTo, checkoutVars, money, ledger, hookVars
<1>21. ASSUME PostponePending PROVE EventInv'
  BY <1>21, ConstantTypes DEF BaseInv, TypeOK, OrderInv, EventInv, Known, Event, Delivery,
                              PostponePending, TickAt, IdleTick, checkoutVars, money, ledger,
                              hookVars
<1>22. ASSUME FindLateWatchDue PROVE EventInv'
  BY <1>22, ConstantTypes DEF BaseInv, TypeOK, OrderInv, EventInv, Known, Event, Delivery,
                              FindLateWatchDue, TickAt, checkoutVars, money, ledger, hookVars
<1>23. ASSUME Look PROVE EventInv'
  BY <1>23, ConstantTypes DEF BaseInv, TypeOK, OrderInv, EventInv, Known, Event, Delivery, Look,
                              TickAt, TickTo, checkoutVars, money, ledger, hookVars
<1>24. ASSUME LatePaid PROVE EventInv'
  BY <1>24, ConstantTypes, MarkPaidMoves
     DEF BaseInv, TypeOK, OrderInv, EventInv, Known, Event, Delivery, LatePaid, TickAt,
         IdleTick, checkoutVars, hookVars
<1>25. ASSUME ScheduleLateWatch PROVE EventInv'
  BY <1>25, ConstantTypes DEF BaseInv, TypeOK, OrderInv, EventInv, Known, Event, Delivery,
                              ScheduleLateWatch, TickAt, NextLateWatchAt, Never, IdleTick,
                              checkoutVars, money, ledger, hookVars
<1>26. ASSUME HourPasses PROVE EventInv'
  BY <1>26, ConstantTypes DEF BaseInv, TypeOK, OrderInv, EventInv, Known, Event, Delivery,
                              HourPasses, TickAt, checkoutVars, money, ledger, hookVars,
                              watchVars
<1>27. ASSUME Restart PROVE EventInv'
  BY <1>27, ConstantTypes DEF BaseInv, TypeOK, OrderInv, EventInv, Known, Event, Delivery,
                              Restart, Fault, IdleCall, IdleDelivery, IdleTick, money, ledger
<1>28. CASE UNCHANGED vars
  BY <1>28 DEF BaseInv, TypeOK, OrderInv, EventInv, Known, Event, Delivery, vars, checkoutVars,
               money, ledger, hookVars, watchVars
<1>29. QED
  BY <1>1, <1>2, <1>3, <1>4, <1>5, <1>6, <1>7, <1>8, <1>9, <1>10, <1>10a, <1>11, <1>12, <1>13,
     <1>14, <1>15, <1>16, <1>17, <1>18, <1>19, <1>20, <1>21, <1>22, <1>23, <1>24, <1>25,
     <1>26, <1>27, <1>28 DEF Next, CheckoutStep, TickStep
-----------------------------------------------------------------------------
IInv == BaseInv /\ ClaimInv /\ EventInv

\* Every reachable state satisfies the invariant.
THEOREM Invariant == Spec => []IInv
<1>1. Init => IInv
  BY InitBase DEF IInv
<1>2. IInv /\ [Next]_vars => IInv'
  BY BaseStep, WatchStep, ClaimStep, EventStep DEF IInv, BaseInv
<1>3. QED
  BY <1>1, <1>2, PTL DEF Spec

\* Every variable has its type, so that an order with money, ledger coming to it names
\* a provider order that exists, and only what was paid is on record.
THEOREM TypeCorrect == Spec => []TypeOK
<1>1. IInv => TypeOK
  BY DEF IInv, BaseInv
<1>2. QED
  BY <1>1, Invariant, PTL

\* However many checkout calls replay one idempotency key, lose their claim or
\* fail, the client is shown one provider order, the one that is saved, unless
\* a claim went stale or was dropped under a call that held it.
THEOREM OneProviderOrderIsShown == Spec => []ShownIsSaved
<1>1. IInv => ShownIsSaved
  BY DEF IInv, ClaimInv, ShownIsSaved
<1>2. QED
  BY <1>1, Invariant, PTL

\* The steps of a delivery that write its row, and the end of its window.
WritesEvent ==
  \/ \E d \in Deliveries : Finish(d) \/ \E po \in ProviderOrders : Claim(d, po)
  \/ \E po \in ProviderOrders : RetryWindowEnds(po)

\* Other steps leave the rows alone, and nothing is ever taken off the record.
LEMMA RowsAreWrittenByDeliveries ==
  ASSUME BaseInv, [Next]_vars
  PROVE  Known \subseteq Known' /\ (event' = event \/ WritesEvent)
<1>1. CASE UNCHANGED vars
  BY <1>1 DEF vars, money, ledger, Known, hookVars
<1>2. ASSUME NEW c \in Calls, ClaimProviderOpen(c) \/ CheckoutStep(c)
      PROVE  Known' = Known /\ event' = event
  BY <1>2 DEF ClaimProviderOpen, CheckoutStep, CreateOrder, GatewayFails,
              ReleaseProviderOpenClaim, MarkPendingPayment, EnsureInitiatedPayment, money,
              ledger, Known,
              hookVars
<1>3. CASE ClaimGoesStale \/ ShowOpenedOrder \/ HourPasses \/ Restart
  BY <1>3 DEF ClaimGoesStale, ShowOpenedOrder, HourPasses, Restart, money, ledger, Known,
       hookVars
<1>4. ASSUME NEW po \in ProviderOrders,
             CustomerPays(po) \/ CapturePrimary(po) \/ VerifyPayment(po)
      PROVE  Known \subseteq Known' /\ event' = event
  <2>1. CASE CustomerPays(po)
    BY <2>1 DEF CustomerPays, ledger, Known, hookVars
  <2>2. CASE CapturePrimary(po)
    BY <2>2, CapturePrimaryMoves
  <2>3. CASE VerifyPayment(po)
    BY <2>3, MarkPaidMoves DEF VerifyPayment, hookVars
  <2>4. QED
    BY <1>4, <2>1, <2>2, <2>3
<1>5. ASSUME NEW po \in ProviderOrders, RetryWindowEnds(po)
      PROVE  Known' = Known /\ WritesEvent
  BY <1>5 DEF RetryWindowEnds, WritesEvent, money, ledger, Known
<1>6. ASSUME NEW d \in Deliveries, NEW po \in ProviderOrders, Claim(d, po)
      PROVE  Known' = Known /\ WritesEvent
  BY <1>6 DEF Claim, WritesEvent, money, ledger, Known
<1>7. ASSUME NEW d \in Deliveries, Apply(d)
      PROVE  Known \subseteq Known' /\ event' = event
  <2>1. event' = event /\ delivery[d].of \in paid
    BY <1>7 DEF Apply, BaseInv, OrderInv
  <2>2. CASE Applied(d)
    BY <2>1, <2>2, MarkPaidMoves DEF Applied
  <2>3. CASE NotApplied(d)
    BY <2>1, <2>3 DEF NotApplied, ledger, Known
  <2>4. QED
    BY <1>7, <2>2, <2>3, <2>1 DEF Apply
<1>8. ASSUME NEW d \in Deliveries, Finish(d)
      PROVE  Known' = Known /\ WritesEvent
  BY <1>8 DEF Finish, WritesEvent, money, ledger, Known
<1>9. CASE TickStep
  <2>1. CASE \/ FindCreatedPastExpiry \/ ExpireCreated \/ FindDuePending \/ ReconcileOrder
             \/ ExpireAbandoned \/ PostponePending \/ FindLateWatchDue \/ Look
             \/ ScheduleLateWatch
    BY <2>1 DEF FindCreatedPastExpiry, ExpireCreated, FindDuePending, ReconcileOrder,
                ExpireAbandoned, PostponePending, FindLateWatchDue, Look, ScheduleLateWatch,
                money, ledger, Known, hookVars
  <2>2. CASE ReconciledPaid \/ LatePaid
    BY <2>2, MarkPaidMoves DEF ReconciledPaid, LatePaid, TickAt, ledger, Known, hookVars,
                               BaseInv, OrderInv
  <2>3. QED
    BY <1>9, <2>1, <2>2 DEF TickStep
<1>10. QED
  BY <1>1, <1>2, <1>3, <1>4, <1>5, <1>6, <1>7, <1>8, <1>9 DEF Next

\* A row that is answered is on record or FAILED after the step that answers,
\* and a later delivery does not take it back.
LEMMA AckedStep ==
  ASSUME IInv, AckedIsRecordedOrFailed, [Next]_vars
  PROVE  AckedIsRecordedOrFailed'
<1> USE DEF IInv, BaseInv
<1>1. Known \subseteq Known' /\ event \in [ProviderOrders -> Event]
  BY RowsAreWrittenByDeliveries DEF TypeOK
<1>2. CASE event' = event
  BY <1>1, <1>2 DEF AckedIsRecordedOrFailed, Recorded, Known
<1>3. ASSUME NEW d \in Deliveries, NEW po \in ProviderOrders, Claim(d, po)
      PROVE  AckedIsRecordedOrFailed'
  <2>1. CASE Terminal(po)
    <3>1. event' = [event EXCEPT ![po].acked = @ \/ TRUE]
      BY <1>3, <2>1 DEF Claim, Answer
    <3>2. \A q \in ProviderOrders : event'[q].row = event[q].row
      BY <1>1, <3>1 DEF Event
    <3>3. \A q \in ProviderOrders \ {po} : event'[q] = event[q]
      BY <1>1, <3>1
    <3>4. po \in Known \/ event[po].row = "FAILED"
      BY <2>1 DEF Terminal, EventInv, Known
    <3>5. QED
      BY <1>1, <3>2, <3>3, <3>4 DEF AckedIsRecordedOrFailed, Recorded, Known
  <2>2. CASE ~Terminal(po)
    <3>1. event' = [event EXCEPT ![po].row = IF event[po].row = "NONE" THEN "RECEIVED"
                                             ELSE event[po].row]
      BY <1>3, <2>2 DEF Claim
    <3>2. \A q \in ProviderOrders :
            /\ event'[q].acked = event[q].acked
            /\ event[q].row = "FAILED" => event'[q].row = "FAILED"
      BY <1>1, <3>1 DEF Event
    <3>3. QED
      BY <1>1, <3>2 DEF AckedIsRecordedOrFailed, Recorded, Known
  <2>3. QED
    BY <2>1, <2>2
<1>4. ASSUME NEW d \in Deliveries, Finish(d)
      PROVE  AckedIsRecordedOrFailed'
  <2> DEFINE D == delivery[d]
             r == IF D.status = D.loaded THEN event[D.of].row ELSE D.status
  <2>1. /\ event' = [event EXCEPT ![D.of].row = r, ![D.of].acked = @ \/ ~D.retry]
        /\ D.at = "finish" /\ D \in Delivery /\ D.of \in ProviderOrders
    BY <1>4 DEF Finish, TypeOK, OrderInv
  <2>2. D.of \in Known \/ r = "FAILED"
    BY <2>1 DEF EventInv, Known, Delivery
  <2> HIDE DEF r
  <2>3. event'[D.of].row = r /\ \A q \in ProviderOrders \ {D.of} : event'[q] = event[q]
    BY <1>1, <2>1 DEF Event
  <2>4. QED
    BY <1>1, <2>2, <2>3 DEF AckedIsRecordedOrFailed, Recorded, Known
<1>5. ASSUME NEW po \in ProviderOrders, RetryWindowEnds(po)
      PROVE  AckedIsRecordedOrFailed'
  <2>1. \A q \in ProviderOrders : event'[q].acked = event[q].acked /\ event'[q].row = event[q].row
    BY <1>1, <1>5 DEF RetryWindowEnds, Event
  <2>2. QED
    BY <1>1, <2>1 DEF AckedIsRecordedOrFailed, Recorded, Known
<1>6. QED
  BY <1>2, <1>3, <1>4, <1>5, RowsAreWrittenByDeliveries DEF WritesEvent

\* A 2xx answer to a webhook stops the provider, and then the payment is on
\* record or its row says FAILED, whatever deliveries, errors and restarts overlap.
THEOREM AcknowledgedMoneyIsKnown == Spec => []AckedIsRecordedOrFailed
<1>1. Init => AckedIsRecordedOrFailed
  BY DEF Init, AckedIsRecordedOrFailed, Recorded
<1>2. QED
  BY <1>1, Invariant, AckedStep, PTL DEF Spec

\* The late watch looks at most once per offset, save for looks cut short by a
\* restart, and does not end before its last look.
THEOREM WatchKeepsToItsOffsets == Spec => []WatchLooksOncePerOffset
<1>1. IInv => WatchLooksOncePerOffset
  <2> SUFFICES ASSUME IInv PROVE WatchLooksOncePerOffset
    OBVIOUS
  <2>1. WatchInv /\ order \in Order /\ {looks, restarts} \subseteq Nat
    BY DEF IInv, BaseInv, TypeOK
  <2>2. ASSUME order.status = "EXPIRED", order.watched, order.next = Never
        PROVE  looks >= Looks
    <3>1. order.attempts \in Nat /\ order.attempts <= Looks
      BY <2>1, <2>2, ConstantTypes DEF WatchInv, Order
    <3>2. order.attempts = Looks
      BY <2>1, <2>2, <3>1, NextLateWatchAtType DEF WatchInv
    <3>3. looks = Looks + restarts + Unscheduled /\ Unscheduled \in {0, 1}
      BY <2>1, <2>2, <3>2 DEF WatchInv, Unscheduled
    <3>4. QED
      BY <2>1, <3>3, ConstantTypes
  <2>3. QED
    BY <2>1, <2>2 DEF WatchInv, WatchLooksOncePerOffset
<1>2. QED
  BY <1>1, Invariant, PTL
=============================================================================
