SPECIFICATION MCUsbSpec
CONSTANTS
  Parts = {"ohci"}
  Memory = 3
  Queues = {"kbd", "hub"}
  Async = "async"
  Idle = "idle"
  ReqCount <- TwoAndOne
  Slots = 1
  Timings = {1}
  Lengths = {1, 2}
  Outcomes = {"ok", "taken", "lost"}
  Swapped = FALSE
  RootPorts = {0, 1}
  HubPorts = {2}
  MaxAddress = 4
  MaxPlugs = 4
  ColdBoots <- OneBoot
  Races = FALSE
INVARIANTS
  
  FreedNotUsed
  ArrivalOrder
  BulkTogglesAgree
PROPERTIES
  CallsReturn
