CONSTANTS
  r1 = r1
  r2 = r2
  p1 = p1
  p2 = p2
  Signals <- MCSignals
  Pids <- MCPids
  NoPid = NoPid
  Providers = {"razorpay", "fake"}
  MaxAborts = 1
SPECIFICATION FairSpec
CHECK_DEADLOCK FALSE
INVARIANTS
  TypeOK
  HandlerAtMostOnce
  SettledIsCaptured
  DuplicatesAreExtra
  NoStrandedCapture
PROPERTIES
  ImplementsLifecycle
  CapturedIsSettled
