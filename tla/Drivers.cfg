SPECIFICATION DriversSpec
CONSTANTS
  VBlock = 2
  VCapacity = 2
  VNum = 5
  VIndexSize = 8
  VInstances = {1, 2}
  VLengths = {1, 2, 3}
  VPastEnd = FALSE
  VSeekFirst = TRUE
  ReadyTries = 2
  SpinTries = 2
  CapacityTries = 2
  ChunkBlocks = 2
  DiskBlocks = 3
  MayLoseDevice = TRUE
  StaleClients = FALSE
  Keyboards = {k1}
  Keys = {2, 3, 4}
  Slots = 2
  BufferSize = 2
  Delays <- MCDelays
  Rollover = FALSE
  IdeKinds = {"none", "ata", "atapi"}
  IdeSectors = 2
  IdeMax = 1
  IdeRetries = 2
  IdeStarting = FALSE
  SdCards = {"high", "mmc"}
  SdBlocks = 3
  SdBuffer = 2
  SdTries = 2
INVARIANTS
  MscSound
  SdSound
PROPERTIES
  DiskReadsRight
  
  
  DriversReturn
