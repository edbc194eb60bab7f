SPECIFICATION Spec
CONSTANTS
  q1 = q1
  q2 = q2
  HeaderSize = 1
  TagSize = 1
  Jobs <- MCManyChunks
  Pulls <- MCOnePull
  FolderIds <- MCFolderIds
  Residue = 0
  Limit = 4
  Base = 2
  Budgets <- MCNoMishap
INVARIANTS
  WholeListingDecrypts
CHECK_DEADLOCK FALSE
