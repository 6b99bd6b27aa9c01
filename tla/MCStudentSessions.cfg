CONSTANTS
  s1 = s1
  r1 = r1
  r2 = r2
  Sids <- MCSids
  Web <- MCSids
  Requests <- MCRequests
  None = None
  NumTokens = 3
  MaxNow = 2
  MaxFaults = 1
  WebTTL = 2
  MobileTTL = 2
  CacheTTL = 1
  TouchEvery = 2
CHECK_DEADLOCK FALSE
SYMMETRY MCSymmetry
SPECIFICATION Spec
INVARIANTS
  TypeOK
  RevokedStaysGone
  CurrentTokenWorks
  RevokedWithinCacheTTL
  WebDeadlineHolds
