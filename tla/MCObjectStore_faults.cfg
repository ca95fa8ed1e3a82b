\* Two requests at a time, two objects, file operations may fail.
SPECIFICATION Spec
CONSTANTS
  None = None
  TicksPerSecond = 1
  MaxU64 = 3
  Slot = {s1, s2}
  Request <- FaultRequests
  Content <- FaultContent
  Frame <- RaceFrames
  Fault <- FileFaults
  MaxTime = 1
SYMMETRY SlotSymmetry
INVARIANTS
  LockDiscipline
  IndexMatchesDisk
PROPERTIES
  ImplementsAtomicStore
