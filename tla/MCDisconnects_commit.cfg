\* A client goes away between a rename and the update of the index.
SPECIFICATION SpecD
CONSTANTS
  None = None
  TicksPerSecond = 1
  MaxU64 = 3
  Slot = {s1, s2}
  Request <- Requests
  Content <- NoContent
  Frame <- Bytes
  Fault <- DiscardFault
  MaxTime = 0
SYMMETRY SlotSymmetry
INVARIANTS
  CommitIsOneUnit
