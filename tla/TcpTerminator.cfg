SPECIFICATION Spec
CONSTANTS
  Peers = {p1}
  MaxClients = 1
  MaxBytes = 2
  BufferSize = 2
  Backlog = 3
  Uses <- LeftAlone
  None = none
INVARIANTS TerminatorInBuffer
CHECK_DEADLOCK FALSE
