SPECIFICATION MemorySpec
CONSTANTS
  Parts = {"trans"}
  Hdr = 2
  Base = 4
  Top = 22
  Slack = 2
  MallocAlign = 1
  MallocSizes = {0, 1, 2, 6}
  Requests <- WordRequests
  AddrBits = 4
  PageSize = 2
  Min = 2
  Max = 12
  Reverse = TRUE
  FixedClaims <- SomeFixed
  Sizes = {2, 3, 4}
  Aligns = {1, 3}
  Shapes = {"whole", "tail"}
  NPages = 5
  Areas <- LowAreas
  Frame = {4}
  Mode = {"ram", "io"}
  DefaultMode <- IoAbove4
  Unmapped = Unmapped
  ManyUnmap = TRUE
  None = None
  NGroups = 2
  Tag = {"a", "b", "c"}
  Slots = 2
  MmuFrame <- AllFrames
  Firmware <- OneFirmware
  Guarded <- SomeGuarded
  Home <- OwnFrame
  Needs <- TwoPages
  Remaps <- NoFrames
  Refaults = FALSE
INVARIANT
  NoDanglingEntry
