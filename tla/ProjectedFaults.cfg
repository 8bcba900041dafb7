CONSTANTS
  u1 = u1
  r1 = r1
  r2 = r2
  t1 = t1
  t2 = t2
  k1 = k1
  c1 = c1
  a1 = a1
  w1 = w1
  w2 = w2
  NoKey = NoKey
  NoTask = NoTask
  Users <- OneUser
  Reqs <- TwoReqs
  UserOf <- AllByUser
  KeyOf <- RetriedKey
  SyncReqs <- SecondInline
  Tasks <- TwoTasks
  ReqOf <- OnePerReq
  Cost = 1
  MaxConcurrent = 2
  SeedCredits <- NoCredits
  Adjusts <- OneAdjust
  AdjustUser <- ToUser
  AdjustBy <- Grant
  Cancels <- OneCancel
  CancelOf <- OfFirst
  Workers <- OneWorker
  MaxFaults = 1
SPECIFICATION FairSpec
INVARIANT OutcomesAreTrue
PROPERTY ViewKeepsOutcome
PROPERTY ViewCatchesUp
PROPERTY HoldsSettle
CHECK_DEADLOCK FALSE
