SPECIFICATION Spec
CONSTANTS
  q1 = q1
  q2 = q2
  HeaderSize = 1
  TagSize = 1
  Jobs <- MCJobs
  Pulls <- MCPulls
  FolderIds <- MCFolderIds
  Residue = 1
  Limit = 4
  Base = 2
  Budgets <- MCMishaps
SYMMETRY MCSymmetry
INVARIANTS
  TypeOK
  DoneMeansRestored
  WholeListingDecrypts
PROPERTIES
  FoundWhenPushed
  ExistingKept
CHECK_DEADLOCK FALSE
