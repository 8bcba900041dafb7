CONSTANTS
  u1 = u1
  t1 = t1
  k1 = k1
  t2 = t2
  c1 = c1
  a1 = a1
  w1 = w1
  w2 = w2
  d1 = d1
  d2 = d2
  j1 = j1
  r1 = r1
  r2 = r2
  NoKey = NoKey
  NoTask = NoTask
  NoBalance = NoBalance
  Users <- OneUser
  Tasks <- OneTask
  UserOf <- AllByUser
  Cost = 1
  MaxConcurrent = 1
  SeedCredits <- TwoCredits
  Adjusts <- OneAdjust
  AdjustUser <- ToUser
  AdjustBy <- Grant
  Cancels <- OneCancel
  CancelOf <- OfFirst
  Workers <- TwoWorkers
  Scenes <- ServiceScenes
  Dispatchers <- TwoDispatchers
  MaxAttempts = 2
  NoEvent = NoEvent
  Tokens <- OneToken
  Requests <- TwoRequests
  OneDay = 2
  Life = 2
  BucketTtl = 3
  Horizon = 5
  MaxMishaps = 1
  NoToken = NoToken
  Verifiers <- TwoRequests
  JwksTtl = 1
  Lifespan = 3
  LastTick = 3
  KeyCount = 2
  MaxOutages = 1
SPECIFICATION ServiceFairSpec
INVARIANT CallbacksTrue
PROPERTY CallbacksEnd
PROPERTY RevokedIsRefused
PROPERTY KeysFollowed
CHECK_DEADLOCK FALSE
