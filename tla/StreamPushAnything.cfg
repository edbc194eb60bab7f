SPECIFICATION FairSpec
CONSTANTS
  HeaderSize = 1
  TagSize = 1
  Options <- MCOneOption
  Sources <- MCShort
  MaxAttempts = 2
  FileIds <- MCFileIds
  MaxStreams = 3
  Budget <- MCAnything
INVARIANTS
  PublishedUnlessDamaged
  SaltSavedFirst
PROPERTIES
  EventuallyDone
