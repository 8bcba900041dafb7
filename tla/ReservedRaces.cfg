CONSTANTS
  u1 = u1
  r1 = r1
  r2 = r2
  t1 = t1
  t2 = t2
  t3 = t3
  c1 = c1
  c2 = c2
  a1 = a1
  w1 = w1
  w2 = w2
  d1 = d1
  d2 = d2
  NoKey = NoKey
  NoTask = NoTask
  Users <- OneUser
  Reqs <- TwoReqs
  UserOf <- AllByUser
  KeyOf <- NoKeys
  SyncReqs <- FirstInline
  Tasks <- ThreeTasks
  ReqOf <- SingleBatch
  Cost = 1
  MaxConcurrent = 2
  SeedCredits <- ThreeCredits
  Adjusts <- OneAdjust
  AdjustUser <- ToUser
  AdjustBy <- Withdrawal
  Cancels <- TwoCancels
  CancelOf <- OfQueued
  Workers <- TwoWorkers
  MaxFaults = 1
  Dispatchers <- TwoDispatchers
  MaxAttempts = 2
  MaxHookFaults = 1
  NoEvent = NoEvent
SPECIFICATION SceneSpec
SYMMETRY Symmetric
INVARIANT HoldMatchesStatus
INVARIANT CreditsConserved
INVARIANT EventsMatchStatus
INVARIANT ActiveBounded
INVARIANT NotStranded
INVARIANT EventsHaveOnePlace
PROPERTY BillingSpec
CHECK_DEADLOCK FALSE
