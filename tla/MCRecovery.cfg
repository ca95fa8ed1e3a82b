\* Crashes at every step of two concurrent requests, and restarts.
SPECIFICATION SpecR
CONSTANTS
  None = None
  TicksPerSecond = 1
  MaxU64 = 3
  Slot = {s1, s2}
  Request <- Requests
  Content <- OldContent
  Frame <- Bytes
  Fault <- NoFault
  MaxTime = 1
  MaxCrashes = 1
SYMMETRY SlotSymmetry
INVARIANTS
  TypeOKR
  
PROPERTIES
  RestartKeepsObjects
