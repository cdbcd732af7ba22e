SPECIFICATION LinkSpec
CONSTANTS
  CntMax = 2
  CapA = 1
  CapB = 2
  p = p
  q = q
  r = r
  Data <- MCShortData
  Bootable <- MCShortBootable
  Images <- MCShortFiles
  Batches <- MCBatches
  Faults <- AllFaults
  Blank = Blank
  Junk = Junk
  NoImage = NoImage
  PktMod = 4
  MaxErrors = 2
  WaitPolls = 1
  PressPolls = 1
INVARIANTS
  CountersInLockstep
PROPERTIES
  FallbackSurvives
