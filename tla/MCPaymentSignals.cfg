CONSTANTS
  c1 = c1
  c2 = c2
  d1 = d1
  d2 = d2
  po1 = po1
  po2 = po2
  Calls <- MCCalls
  Deliveries <- MCDeliveries
  ProviderOrders <- MCProviderOrders
  None = None
  Looks = 2
  MaxPayments = 2
  MaxAttempts = 2
  MaxFaults = 1
SPECIFICATION Spec
SYMMETRY MCSymmetry
CHECK_DEADLOCK FALSE
INVARIANTS
  TypeOK
  ShownIsSaved
  AckedIsRecordedOrFailed
  WatchLooksOncePerOffset
