CONSTANTS
  w1 = w1
  w2 = w2
  NumAttempts = 1
  Slots <- MCSlots
  AllowRetake = TRUE
  Papers <- MCPapers
  Grace = 0
  Answers <- MCAnswers
  MaxNow = 3
CHECK_DEADLOCK FALSE
CONSTRAINT MCUpToOverlap
SYMMETRY MCSymmetry
SPECIFICATION Spec
INVARIANTS
  TypeOK
  TimeWithinPaper
  PaperTimeIsRunningTime
  SessionsInOrder
  ScoreIsOfStoredAnswers
PROPERTY
  ClosedStaysClosed
