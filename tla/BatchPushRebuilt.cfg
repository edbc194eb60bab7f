SPECIFICATION Spec
CONSTANTS
  Order <- MCOrder
  Bundles <- MCBundle
  Cuts <- MCTwoPieces
  Chunks = 2
  MaxSessions = 14
  Budgets <- MCRefused
INVARIANTS
  EntriesRestore
CHECK_DEADLOCK FALSE
