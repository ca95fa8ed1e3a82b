\* Three requests at a time for one object; no failures, one instant.
SPECIFICATION Spec
CONSTANTS
  None = None
  TicksPerSecond = 1
  MaxU64 = 3
  Slot = {s1, s2, s3}
  Request <- RaceRequests
  Content <- RaceContent
  Frame <- RaceFrames
  Fault <- NoFault
  MaxTime = 0
SYMMETRY SlotSymmetry
INVARIANTS
  TypeOK
  LockDiscipline
  IndexMatchesDisk
  CacheMatchesIndex
  TruthfulGet
  ReadsAndDeletesDoNotFail
PROPERTIES
  NoLostUpdate
  ImplementsAtomicStore
