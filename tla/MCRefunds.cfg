CONSTANTS
  pay = pay
  dup = dup
  j1 = j1
  j2 = j2
  Primary = pay
  Duplicates <- MCDuplicates
  Jobs <- MCJobs
  MaxRefunds = 2
  MaxDeliveries = 1
  MaxFaults = 1
  MaxRetries = 0
CHECK_DEADLOCK FALSE
SYMMETRY MCSymmetry
SPECIFICATION Spec
INVARIANTS
  TypeOK
  CompletedIsProcessed
  RevokedOnlyByFullRefund
