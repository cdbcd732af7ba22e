SPECIFICATION LinkSpec
CONSTANTS
  CntMax = 2
  CapA = 2
  CapB = 3
  p = p
  q = q
  r = r
  Data <- MCData
  Bootable <- MCBootable
  Images <- MCImages
  Batches <- MCBatches
  Faults <- Impatient
  Blank = Blank
  Junk = Junk
  NoImage = NoImage
  PktMod = 4
  MaxErrors = 3
  WaitPolls = 2
  PressPolls = 2
INVARIANTS
  CertifiedPacketsChecked
CHECK_DEADLOCK FALSE
