SPECIFICATION FairPushAndPull
CONSTANTS
  PartCounts <- MCPartCounts
  MaxParts = 2
  Blocks = 2
  Workers <- MCWorkers
  MaxRetries = 3
  Budgets <- MCEither
INVARIANTS
  PullTypeOK
  SettledWhole
  SettledPullDecrypts
PROPERTIES
  BothEnd
CHECK_DEADLOCK FALSE
