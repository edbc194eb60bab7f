SPECIFICATION Spec
CONSTANTS
  HeaderSize = 1
  TagSize = 1
  Options <- MCTwoOptions
  Sources <- MCSources
  MaxAttempts = 2
  FileIds <- MCFileIds
  MaxStreams = 2
  Budget <- MCMishaps
INVARIANTS
  TypeOK
  PublishedIntact
  RecordedOnDrive
  DuplicatesFromMishaps
PROPERTIES
  NeverNeither
  ImplementsUpload
