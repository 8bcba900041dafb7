CONSTANTS
  u1 = u1
  u2 = u2
  s1 = s1
  s2 = s2
  c1 = c1
  c2 = c2
  p1 = p1
  a1 = a1
  a2 = a2
  a3 = a3
  k1 = k1
  NoKey = NoKey
  Users <- OneUser
  Subs <- OneSub
  OwnerOf <- AllOwned
  KeyOf <- NoKeys
  Cost = 1
  SeedCredits <- TwoCredits
  Cancels <- Nobody
  Polls <- Nobody
  Topups <- Nobody
  TopupKey <- RetriedTopup
  TopupUser <- ToUsers
  TopupAmount = 1
  MaxLost = 1
  MaxAborts = 0
  MaxRestarts = 0
SPECIFICATION Spec
INVARIANT ReplayChargesNoFailure
CHECK_DEADLOCK FALSE
