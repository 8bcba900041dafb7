CONSTANTS
  u1 = u1
  t1 = t1
  k1 = k1
  t2 = t2
  c1 = c1
  a1 = a1
  w1 = w1
  w2 = w2
  NoKey = NoKey
  NoTask = NoTask
  NoBalance = NoBalance
  Users <- OneUser
  Tasks <- OneTask
  UserOf <- AllByUser
  Cost = 1
  MaxConcurrent = 1
  SeedCredits <- TwoCredits
  Adjusts <- OneAdjust
  AdjustUser <- ToUser
  AdjustBy <- Grant
  Cancels <- Nobody
  CancelOf <- OfFirst
  Workers <- TwoWorkers
  Scenes <- RecoverScenes
SPECIFICATION FairSpec
PROPERTY TasksEnd
PROPERTY OrphansRefunded
PROPERTY SnapshotsCatchUp
CHECK_DEADLOCK FALSE
