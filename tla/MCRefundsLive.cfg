CONSTANTS
  pay = pay
  dup = dup
  j1 = j1
  j2 = j2
  Primary = pay
  Duplicates = {}
  Jobs <- MCJobs
  MaxRefunds = 2
  MaxDeliveries = 1
  MaxFaults = 1
  MaxRetries = 1
CHECK_DEADLOCK FALSE
SPECIFICATION FairSpec
INVARIANTS
  FailedHasNoLiveRefund
PROPERTIES
  ProcessedIsSettled
