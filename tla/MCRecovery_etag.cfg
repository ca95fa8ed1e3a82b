\* A crash between a rename and the save of the cache record.
SPECIFICATION SpecR
CONSTANTS
  None = None
  TicksPerSecond = 1
  MaxU64 = 3
  Slot = {s1, s2}
  Request <- Requests
  Content <- OldContent
  Frame <- Bytes
  Fault <- NoFault
  MaxTime = 1
  MaxCrashes = 1
SYMMETRY SlotSymmetry
INVARIANTS
  EtagIsContentMd5
