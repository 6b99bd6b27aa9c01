-------------------------- MODULE MCPaymentSignals ---------------------------
EXTENDS PaymentSignals, TLC
CONSTANTS c1, c2, d1, d2, po1, po2
MCCalls == {c1, c2}
MCDeliveries == {d1, d2}
MCProviderOrders == {po1, po2}
MCSymmetry ==
  Permutations(MCCalls) \cup Permutations(MCDeliveries) \cup Permutations(MCProviderOrders)
=============================================================================
