SPECIFICATION Spec
CONSTANTS
  Order <- MCOrder
  Bundles <- MCNoBundle
  Cuts <- MCTwoPieces
  Chunks = 2
  MaxSessions = 14
  Budgets <- MCUnanswered
INVARIANTS
  EntriesRestore
CHECK_DEADLOCK FALSE
