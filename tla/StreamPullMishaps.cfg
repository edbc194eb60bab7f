SPECIFICATION FairSpec
CONSTANTS
  HeaderSize = 1
  TagSize = 1
  Anything = "any"
  BlockSize = 2
  WriteBuffer = 1
  PipeSize = 2
  Record = 3
  Pushes <- MCTwoPushes
  Downloads <- MCMixed
  Budgets <- MCMishaps
INVARIANTS
  TypeOK
  DoneMeansRestored
  NothingDropped
  SoundPullSucceeds
  NoPlaceholderLeft
PROPERTIES
  RemovesOnlyRead
  Ends
