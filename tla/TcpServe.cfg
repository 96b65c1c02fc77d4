SPECIFICATION Spec
CONSTANTS
  Peers = {p1, p2, p3}
  MaxClients = 2
  MaxBytes = 2
  BufferSize = 2
  Backlog = 3
  Uses <- LeftAlone
  None = none
SYMMETRY Symmetry
INVARIANTS SlotsMatchFiles SleepsOnlyInSelect StoryComplete
PROPERTIES RefusedOnlyWhenFull
CHECK_DEADLOCK FALSE
