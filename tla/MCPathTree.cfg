\* Two requests at a time over three keys that are in each other's way.
SPECIFICATION SpecT
CONSTANTS
  None = None
  TicksPerSecond = 1
  MaxU64 = 3
  Slot = {s1, s2}
  Request <- TreeRequests
  Content <- NoContent
  Frame = {x}
  Fault <- TreeFaults
  MaxTime = 0
SYMMETRY SlotSymmetry
INVARIANTS
  TreesOnDisk
  RecordsAreOfTheObjects
PROPERTIES
  FailuresAreConflicts
