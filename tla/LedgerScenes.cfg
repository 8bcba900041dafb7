CONSTANTS
  u1 = u1
  k1 = k1
  t1 = t1
  t2 = t2
  t3 = t3
  c1 = c1
  i1 = i1
  w1 = w1
  w2 = w2
  NoKey = NoKey
  NoTask = NoTask
  Users <- OneUser
  Tasks <- ThreeTasks
  UserOf <- AllByUser
  KeyOf <- KeyOfTwo
  Cost = 1
  MaxConcurrent = 1
  InitialCredits <- TwoCredits
  Topups <- OneTopup
  TopupUser <- ToUser
  TopupAmount = 2
  Cancels <- OneCancel
  CancelOf <- OfFirst
  Workers <- TwoWorkers
  Scenes <- NineScenes
SPECIFICATION ReadFairSpec
INVARIANT OutcomesArePaid
INVARIANT SlotsAccounted
INVARIANT PollsTellOutcomes
PROPERTY OutcomesReported
CHECK_DEADLOCK FALSE
