SPECIFICATION Spec
CONSTANTS
  HeaderSize = 1
  TagSize = 1
  Anything = "any"
  BlockSize = 2
  WriteBuffer = 1
  PipeSize = 2
  Record = 3
  Pushes <- MCOneAligned
  Downloads <- MCAsPushed
  Budgets <- MCNoMishap
INVARIANTS
  SoundPullSucceeds
