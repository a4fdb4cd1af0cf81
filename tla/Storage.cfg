SPECIFICATION StorageSpec
CONSTANTS
  NCol = 3
  HSize = 5
  Letters = {"a"}
  UpOnTyped = FALSE
  NvUnits = 3
  NvSystem = 2
  Settings = {"v1"}
  OneSystem = TRUE
  DbBlock = 2
  DbBlocks = 3
  DbLengths = {1,3,4}
  PreReadFails = FALSE
  HcSize = 3
  HcSlots = 2
  HcAhead = 2
  HcBlocks = 4
  HcMaxCount = 3
  HcKeepsCold = TRUE
  FatSector = 2
  FatCsize = 2
  FatClusters = 3
  FatSizes = {0, 5, 9}
  FatAsked = {0, 1, 3, 4, 6}
  FatDiskFails = FALSE
  FsOn <- MCFsOn
  FsDescriptors = 3
  FatVolumes = 2
  FsSlots = {"i1", "i2"}
  FsAlone = {"iso9660", "grubfs"}
  RfKinds = {"ext2", "iso9660", "hfsplus"}
  RfBlock = 2
  RfSizes = {0, 1, 4, 7, 13}
  RfAsked = {0, 1, 2, 3, 5, 8, 13}
  RfPastEnd = FALSE
  RfDiskFails = FALSE
  RfLoadAgain = FALSE
INVARIANTS
  LineSound
  CacheRight
  FilesKeptApart
PROPERTIES
  
  
  FilesReadRight
