SPECIFICATION FairPushAndPull
CONSTANTS
  Order <- MCOrder
  Bundles <- MCBundle
  Cuts <- MCTwoPieces
  Chunks = 2
  MaxSessions = 16
  MaxPulls = 2
  Budgets <- MCTwo
INVARIANTS
  PullTypeOK
  PlainEntriesRestore
  FinishedPiecesStay
  LedgerConsistent
  NoTargetForgotten
  OrphansFromMishaps
  PullAccounts
PROPERTIES
  NothingSentTwice
  AllPushed
CHECK_DEADLOCK FALSE
