SPECIFICATION Spec
CONSTANTS
  HeaderSize = 1
  TagSize = 1
  Options <- MCOneOption
  Sources <- MCSources
  MaxAttempts = 2
  FileIds <- MCFileIds
  MaxStreams = 1
  Budget <- MCBreak
INVARIANTS
  PublishedIntact
