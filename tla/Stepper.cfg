SPECIFICATION FairSpec
CONSTANTS
  Operations <- AllOperations
  Steps = {2}
  Duties = {50}
  MaxPulses = 3
  MaxLag = 1
INVARIANTS
  StoppedMeansStill
  NeverShort
  ReportedOnce
  EnabledWhenDriven
PROPERTIES MoveFinishes
CHECK_DEADLOCK FALSE
