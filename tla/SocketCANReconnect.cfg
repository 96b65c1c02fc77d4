SPECIFICATION FairSpec
CONSTANTS
  Readers = {r1}
  MaxSockets = 2
  MaxBusFrames = 2
  MaxWrites = 1
  RxCapacity = 2
  Garbage = garbage
INVARIANTS ConnectedMeansServed PollNeverBlocks CopiesBounded
PROPERTIES LineSpec FrameReachesReader
CHECK_DEADLOCK FALSE
