SPECIFICATION AlgSpec
CONSTANTS
  CellBits = 4
  LeftFirst = TRUE
  Bases = {2, 3, 10, 12}
  FvOddLabels = FALSE
  PtAll = FALSE
  ClockYears = {1904, 1905, 1906, 1907, 1908, 1999, 2000, 2001, 2002, 2003, 2004, 2039}
  ClockLeapEnd = FALSE
  PciAfter64 = FALSE
  PciBridgeRom = FALSE
  PciNestedSabre = FALSE
  PciUnitLo = {0, 1}
  GfSeeks = {"ext2fs", "minix", "fat12", "fat16", "fat32", "affs", "jfs", "xfs", "iso9660"}
  GfFailing = {"ext2fs", "minix"}
  GfUnread = {"iso9660"}
  GfAnew = {"ext2fs", "minix", "fat12", "fat16", "fat32", "affs", "jfs", "xfs", "iso9660"}
  GfWide = FALSE
  GfHoles = FALSE
  GfLeaves = FALSE
INVARIANTS
  ForthWordsRight
  FatVolumeRight
  
  DatesKept
  PciRoutes
  
