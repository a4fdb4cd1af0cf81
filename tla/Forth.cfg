SPECIFICATION ForthSpec
CONSTANTS
  HeapStart = 2 HeapCells = 10 HeapSizes = {1, 2, 3}
  MaxCells = 2 MaxFrames = 3 MaxStack = 2 PopThrough = FALSE
  Program <- MCProgram MaxLevels = 3 SubInSub = FALSE LeavesEarly = FALSE
INVARIANTS
  NoListedWordRunsFast
  CallsNest
PROPERTIES
  HeapListRight
  DebuggerReturns
