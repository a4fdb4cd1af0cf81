SPECIFICATION Spec
CONSTANTS
  AddrBits = 4
  PageSize = 2
  RamSize = 8
  VirtTop = 14
  FreeBase = 2
  InitPhys = 10
  InitVirt = 8
  InitSize = 4
  FixedAddrs = {2, 4}
  FixedSizes = {2, 3}
  AlignedAddrs = {0}
  AlignedSizes = {2, 4}
  MethodSizes = {2}
INVARIANTS
  MappedWhileHeld
  FramesNotShared
  AvailableNotClaimed
