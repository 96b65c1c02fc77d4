SPECIFICATION Spec
CONSTANTS
  Peers = {p1}
  MaxClients = 1
  MaxBytes = 1
  BufferSize = 2
  Backlog = 3
  Uses <- Stopped
  None = none
PROPERTIES OnlyOpenAdded
CHECK_DEADLOCK FALSE
