CONSTANTS
  o1 = o1
  r1 = r1
  Orders <- MCOrders
  Requests <- MCRequests
  Sweeper = Sweeper
  MaxOthers = 2
  MaxFaults = 2
SPECIFICATION FairSpec
INVARIANT NumbersAreGapless
PROPERTY InvoicedInTheEnd
