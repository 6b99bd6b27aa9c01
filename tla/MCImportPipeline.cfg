CONSTANTS
  r1 = r1
  r2 = r2
  q1 = q1
  q2 = q2
  Requests <- MCRequests
  Questions <- MCQuestions
  MaxJobs = 2
  MaxCrashes = 1
  MaxErrors = 1
  Concurrency = 1
CHECK_DEADLOCK FALSE
SYMMETRY MCSymmetry
SPECIFICATION Spec
CONSTRAINT MCOneFailure
ACTION_CONSTRAINT MCRequestsFail
INVARIANTS
  TypeOK
  InsertedOnce
  NoQuestionLost
