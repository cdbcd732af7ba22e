SPECIFICATION Spec
CONSTANTS
  CntMax = 2
  CapA = 1
  CapB = 2
  d = d
  Data <- MCData
  Bootable <- MCData
  Batches <- MCBatches
  Blank = Blank
  Junk = Junk
  NoImage = NoImage
  PktMod = 3
  MaxErrors = 2
  WaitPolls = 1
  PressPolls = 1
INVARIANTS
  TypeOK
  CountersInLockstep
  AppIsCertified
  RequestIsOneShot
  Inductive
PROPERTIES
  FallbackSurvives CommitInstalls ComesToRest
