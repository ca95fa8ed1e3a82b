\* Clients go away at any await: the lock is never lost.
SPECIFICATION SpecD
CONSTANTS
  None = None
  TicksPerSecond = 1
  MaxU64 = 3
  Slot = {s1, s2}
  Request <- Requests
  Content <- NoContent
  Frame <- Bytes
  Fault <- DiscardFault
  MaxTime = 0
SYMMETRY SlotSymmetry
INVARIANTS
  LockDiscipline
PROPERTIES
  NoLostUpdate
