\* Parts, Completes and Aborts of one upload, two requests at a time.
SPECIFICATION SpecM
CONSTANTS
  None = None
  TicksPerSecond = 1
  MaxU64 = 3
  Slot = {s1, s2}
  Request <- Requests
  Content <- NoContent
  Frame <- Bytes
  Fault <- Faults
  MaxTime = 0
  Upload <- Uploads
  Call <- Calls
  MaxPart = 2
  Hole = "hole"
SYMMETRY SlotSymmetry
INVARIANTS
  TypeOKM
  ListedPartsAreThere
  CompletedFromItsParts
  SizesAreTrue
  OnlyLatePartsAreLeft
PROPERTIES
  NoLostUpdate
  UploadsEndOnPurpose
