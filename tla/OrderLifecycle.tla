--------------------------- MODULE OrderLifecycle ----------------------------
(***************************************************************************)
(* What an order promises, without the requests that drive it: its status   *)
(* and its primary payment's status move along the transition tables, PAID is  *)
(* reached only on captured money, REFUNDED only after that money was given *)
(* back, and the purchase is handed to provisioning at most once.           *)
(***************************************************************************)
EXTENDS Naturals, PaymentStates

VARIABLES orderStatus, paymentStatus, deliveries

vars == <<orderStatus, paymentStatus, deliveries>>

Init ==
  /\ orderStatus = "CREATED"
  /\ paymentStatus = "NONE"
  /\ deliveries = 0

MoveOrder(to) ==
  /\ <<orderStatus, to>> \in OrderEdges
  /\ orderStatus' = to
  /\ UNCHANGED <<paymentStatus, deliveries>>

MovePayment(to) ==
  /\ <<paymentStatus, to>> \in PaymentEdges
  /\ paymentStatus' = to
  /\ UNCHANGED <<orderStatus, deliveries>>

OpenPayment == MoveOrder("PENDING_PAYMENT")
Close == MoveOrder("EXPIRED") \/ MoveOrder("FAILED")
Pay == paymentStatus = "CAPTURED" /\ MoveOrder("PAID")
Refund == paymentStatus = "REFUNDED" /\ MoveOrder("REFUNDED")

Initiate ==
  /\ paymentStatus = "NONE"
  /\ paymentStatus' = "INITIATED"
  /\ UNCHANGED <<orderStatus, deliveries>>

Decline == MovePayment("FAILED")
Capture == MovePayment("CAPTURED")
GiveBack == orderStatus = "PAID" /\ MovePayment("REFUNDED")

Deliver ==
  /\ orderStatus \in Settled
  /\ deliveries = 0
  /\ deliveries' = 1
  /\ UNCHANGED <<orderStatus, paymentStatus>>

Next ==
  \/ OpenPayment \/ Close \/ Pay \/ Refund
  \/ Initiate \/ Decline \/ Capture \/ GiveBack
  \/ Deliver

Spec == Init /\ [][Next]_vars
=============================================================================
