CONSTANTS
  u1 = u1
  u2 = u2
  s1 = s1
  s2 = s2
  c1 = c1
  c2 = c2
  p1 = p1
  a1 = a1
  a2 = a2
  a3 = a3
  k1 = k1
  NoKey = NoKey
  Users <- TwoUsers
  Subs <- TwoSubs
  OwnerOf <- AllOwned
  KeyOf <- SameKey
  Cost = 1
  SeedCredits <- OneCredit
  Cancels <- TwoCancels
  Polls <- OnePoll
  Topups <- ThreeTopups
  TopupKey <- RetriedTopup
  TopupUser <- ToUsers
  TopupAmount = 1
  MaxLost = 1
  MaxAborts = 1
  MaxRestarts = 1
SPECIFICATION SceneSpec
INVARIANT CompletedIsCharged
INVARIANT CancelledIsFree
INVARIANT CacheNeverAhead
INVARIANT FailedIsFree
INVARIANT OneChargePerKey
INVARIANT TopupsGrantOnce
INVARIANT NoHoldForgotten
PROPERTY TerminalIsFinal
PROPERTY BillingSpec
PROPERTY AcceptedEnds
PROPERTY CancelDuringComputeEnds
CHECK_DEADLOCK FALSE
