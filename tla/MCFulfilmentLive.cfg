CONSTANTS
  o1 = o1
  o2 = o2
  o3 = o3
  a1 = a1
  w1 = w1
  w2 = w2
  Orders <- MCOneOrder
  Durations <- MCMonths
  Admins <- MCNobody
  AdminMonths <- MCAdminMonths
  NumGrants = 2
  Workers <- MCWorkers
  NoOne = NoOne
  Gone = Gone
  Days <- MCDays
  MaxFaults = 1
CHECK_DEADLOCK FALSE
SPECIFICATION FairSpec
PROPERTY PaidIsProvisioned
