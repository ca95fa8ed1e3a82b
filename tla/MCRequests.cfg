\* Every small request against every small object.
SPECIFICATION Spec
CONSTANTS
  None = None
  TicksPerSecond = 2
  MaxU64 = 4
  Request <- AllRequests
  Frame <- Bytes
  Bodies <- SmallBodies
  MaxTime = 3
CHECK_DEADLOCK FALSE
INVARIANTS
  WritesProceedIffConditionsHold
  DeletesProceedIffConditionsHold
  RevalidationIsSound
  
  RangeIsWhatWasAsked
