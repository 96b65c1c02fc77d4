SPECIFICATION Spec
CONSTANTS
  c1 = c1
  c2 = c2
  w1 = w1
  w2 = w2
  Clients = {c1, c2}
  Workers = {w1, w2}
  Settings <- MCSettings
  Nothing = nothing
  MaxItems = 2
  MaxCalls = 2
  MaxFiles = 2
  MaxSize = 2
  Sizes = {1, 3}
  MaxMessages = 6
  DayLength = 2
  RotationTimes = {0, 1}
  MaxNow = 4
  MaxWaiting = 2
INVARIANTS NothingLeft OneThreadInOrder NeverWritesClosed SizeBounded
           EachDayItsFile
PROPERTIES RingSpec ShutdownEnds EverythingHandled OnlyOldestLost
CHECK_DEADLOCK FALSE
