SPECIFICATION Spec
CONSTANTS
  Duties = {0, 1, 255}
  Intervals = {0, 1}
  MsUs = 2
  Width = 100
  MaxTime = 9
  Users = {u1, u2}
  MaxTransferSize = 4
  CharRange = 2
  WordSizes = {8, 9, 16}
  Words = {0, 3}
  MaxUses = 2
INVARIANTS MotorAgrees OnInTime OnlyOverlapsLose 
CHECK_DEADLOCK FALSE
