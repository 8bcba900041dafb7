CONSTANTS
  u1 = u1
  k1 = k1
  t1 = t1
  t2 = t2
  t3 = t3
  c1 = c1
  a1 = a1
  w1 = w1
  w2 = w2
  NoKey = NoKey
  NoTask = NoTask
  Users <- OneUser
  Tasks <- ThreeTasks
  UserOf <- AllByUser
  KeyOf <- KeyOfTwo
  Credits <- TwoCredits
  Cost = 1
  MaxConcurrent = 2
  MaxRetries = 1
  Cancels <- OneCancel
  CancelOf <- OfFirst
  Adjusts <- OneAdjust
  AdjustUser <- ToUser
  AdjustBy <- Grant
  Workers <- TwoWorkers
  Scenes <- SevenScenes
SPECIFICATION ReadSpec
INVARIANT BooksBalance
PROPERTY TasksEnd
CHECK_DEADLOCK FALSE
PROPERTY PollsKeepOutcome
