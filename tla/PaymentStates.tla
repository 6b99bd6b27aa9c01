---------------------------- MODULE PaymentStates ----------------------------
(***************************************************************************)
(* The status vocabulary of one order and of its primary payment, and the   *)
(* tables of legal status changes that the services' compare-and-set writes *)
(* draw their source statuses from.                                         *)
(***************************************************************************)

OrderStatuses ==
  {"CREATED", "PENDING_PAYMENT", "PAID", "FAILED", "EXPIRED", "CANCELLED",
   "REFUNDED"}

\* "NONE" stands for a payment row that does not exist yet.
PaymentStatuses ==
  {"NONE", "INITIATED", "AUTHORIZED", "CAPTURED", "FAILED", "REFUNDED"}

\* ALLOWED of order-transitions.ts, as a set of edges.
OrderEdges ==
  {<<"CREATED", "PENDING_PAYMENT">>, <<"CREATED", "EXPIRED">>,
   <<"PENDING_PAYMENT", "PAID">>, <<"PENDING_PAYMENT", "FAILED">>,
   <<"PENDING_PAYMENT", "EXPIRED">>, <<"PENDING_PAYMENT", "CANCELLED">>,
   <<"PAID", "REFUNDED">>, <<"FAILED", "PAID">>, <<"EXPIRED", "PAID">>}

\* ALLOWED of payment-transitions.ts, as a set of edges.
PaymentEdges ==
  {<<"INITIATED", "AUTHORIZED">>, <<"INITIATED", "CAPTURED">>,
   <<"INITIATED", "FAILED">>, <<"AUTHORIZED", "CAPTURED">>,
   <<"AUTHORIZED", "FAILED">>, <<"CAPTURED", "REFUNDED">>,
   <<"FAILED", "CAPTURED">>}

\* An order that closed without money: only a proven capture reopens it.
ClosedUnpaid == {"EXPIRED", "FAILED"}

\* An order whose money was taken (and, for REFUNDED, given back).
Settled == {"PAID", "REFUNDED"}

\* Mutants: the target status is left among the sources; no late edge.
PaidOrderSources_KeepsTarget(proof) ==
  {"PENDING_PAYMENT", "PAID"} \cup (IF proof THEN ClosedUnpaid ELSE {})
PaidOrderSources_NoLateEdge(proof) == {"PENDING_PAYMENT"}

PaidOrderSources(proof) ==
  {"PENDING_PAYMENT"} \cup (IF proof THEN ClosedUnpaid ELSE {})

CapturedPaymentSources(proof) ==
  {"INITIATED", "AUTHORIZED"} \cup (IF proof THEN {"FAILED"} ELSE {})
=============================================================================
