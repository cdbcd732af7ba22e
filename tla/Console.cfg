SPECIFICATION ConsoleSpec
CONSTANTS
  CntMax = 2
  CapA = 1
  CapB = 1
  d = d
  Data <- MCData
  Bootable <- MCData
  Batches <- MCBatches
  Blank = Blank
  Junk = Junk
  NoImage = NoImage
  PktMod = 3
  MaxErrors = 2
  WaitPolls = 1
  PressPolls = 1
  Cmd <- MCCmd
  LineEnds <- MCLineEnds
  Chars <- MCChars
  MaxHeard = 5
INVARIANTS
  ConsoleTypeOK
  FiresOnCommand
  RequestIsMeant
PROPERTIES
  RequestReachesMemory RefinesBootloader
