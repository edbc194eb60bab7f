SPECIFICATION FairSpec
CONSTANTS
  HeaderSize = 1
  TagSize = 1
  BlockSize = 2
  PipeSize = 2
  MaxParts = 4
  Archives <- MCArchives
  PartSizes <- MCPartSizes
  Budget <- MCMishaps
INVARIANTS
  TypeOK
  CutsTheStream
  HandsOverWhatItHashed
  DoneMeansWhole
  OnePartOnDisk
PROPERTIES
  Ends
