SPECIFICATION Spec
CONSTANTS
  SpareRatio = 1
  MinInterRowSpace = 1
  Matrices <- SmallMatrices
  NewValues <- SmallValues
  Priority <- Hash
  MaxFillin = 2
  MaxShiftPerRow = 3
  LeavesRoom = TRUE
  MaxDeleted = 2
  MaxSteps = 3
INVARIANTS RowsExact ColumnsExact NoneOverlaps SizesExact BufferOrdered
CHECK_DEADLOCK FALSE
