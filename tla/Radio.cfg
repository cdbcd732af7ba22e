SPECIFICATION FairSpec
CONSTANTS
  Roles <- MCRoles
  SDIO_INIT_MAX_RETRY_COUNT = 2
  NumCommands = 1
  Sends <- MCSends
  MaxFrames = 2
  MaxFaults = 2
INVARIANTS
  TypeOK
PROPERTIES
  
  PassEnds
  FramesServed
  StreamStarts
