\* A part uploaded again, with nobody else around.
SPECIFICATION SpecM
CONSTANTS
  None = None
  TicksPerSecond = 1
  MaxU64 = 3
  Slot = {s1}
  Request <- Requests
  Content <- NoContent
  Frame <- Bytes
  Fault <- Faults
  MaxTime = 0
  Upload <- Uploads
  Call <- Calls
  MaxPart = 2
  Hole = "hole"
INVARIANTS
  OnlyPreviousFilesAreRemoved
