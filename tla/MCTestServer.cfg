\* A server embedded in a program, requests for one object with failures.
SPECIFICATION SpecE
CONSTANTS
  None = None
  TicksPerSecond = 1
  MaxU64 = 3
  Slot = {s1, s2}
  Request <- LiveRequests
  Content <- LiveContent
  Frame <- LiveFrames
  Fault <- LiveFaults
  MaxTime = 0
CHECK_DEADLOCK FALSE
INVARIANTS
  TypeOKE
  StoppedMeansQuiet
PROPERTIES
  CallsReturn
  EveryRequestIsAnswered
