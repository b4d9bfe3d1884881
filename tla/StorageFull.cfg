SPECIFICATION Spec
CONSTANTS
  SpareRatio = 1
  MinInterRowSpace = 1
  Matrices <- SmallMatrices
  NewValues <- SmallValues
  Priority <- Hash
  MaxFillin = 2
  MaxShiftPerRow = 3
  LeavesRoom = FALSE
  MaxDeleted = 2
  MaxSteps = 3
INVARIANT NoneOverlaps
CHECK_DEADLOCK FALSE
