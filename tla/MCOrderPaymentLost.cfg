CONSTANTS
  r1 = r1
  r2 = r2
  p1 = p1
  p2 = p2
  Signals <- MCSignals
  Pids <- MCPids
  NoPid = NoPid
  Providers = {"razorpay"}
  MaxAborts = 0
SPECIFICATION Spec
INVARIANT AckedIsRecorded
CHECK_DEADLOCK FALSE
