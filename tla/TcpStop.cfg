SPECIFICATION FairSpec
CONSTANTS
  Peers = {p1, p2}
  MaxClients = 1
  MaxBytes = 1
  BufferSize = 1
  Backlog = 3
  Uses <- StoppedOrInterrupted
  None = none
INVARIANTS StoryComplete
PROPERTIES EverybodyServed
CHECK_DEADLOCK FALSE
