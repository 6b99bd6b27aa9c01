CONSTANTS
  r1 = r1
  r2 = r2
  q1 = q1
  q2 = q2
  Requests = {r1}
  Questions = {q1}
  MaxJobs = 2
  MaxCrashes = 1
  MaxErrors = 1
  Concurrency = 1
CHECK_DEADLOCK FALSE
SPECIFICATION FairSpec
PROPERTIES
  BusySettles
