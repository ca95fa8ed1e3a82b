\* Two transfers, one thread, a channel of one frame; file operations may fail.
SPECIFICATION FairSpec
CONSTANTS
  None = None
  s1 = s1
  s2 = s2
  Slot = {s1, s2}
  Frame <- Frames
  Body <- Bodies
  Capacity = 1
  Threads = 1
  Fault <- AllFaults
\* Transfers come to an end.
CHECK_DEADLOCK FALSE
INVARIANTS
  TypeOK
  NothingLost
  ClosedOnReturn
PROPERTIES
  ImplementsBodyTransfer
  AllTransfersEnd
