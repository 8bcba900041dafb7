CONSTANTS
  u1 = u1
  r1 = r1
  r2 = r2
  t1 = t1
  t2 = t2
  k1 = k1
  c1 = c1
  a1 = a1
  w1 = w1
  w2 = w2
  NoKey = NoKey
  NoTask = NoTask
  Users <- OneUser
  Reqs <- OneReq
  UserOf <- AllByUser
  KeyOf <- NoKeys
  SyncReqs <- Nobody
  Tasks <- OneTask
  ReqOf <- OnePerReq
  Cost = 1
  MaxConcurrent = 2
  SeedCredits <- OneCredit
  Adjusts <- Nobody
  AdjustUser <- ToUser
  AdjustBy <- Grant
  Cancels <- Nobody
  CancelOf <- OfFirst
  Workers <- OneWorker
  MaxFaults = 1
SPECIFICATION FairSpec
PROPERTY EventsArePublished
CHECK_DEADLOCK FALSE
