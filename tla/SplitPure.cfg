SPECIFICATION Spec
CONSTANTS
  Unit = 4
  Kinds = {"integral", "continuous"}
  Scales <- SmallScales
  Low <- LowUnits
  High = 8
INVARIANTS
  SplitFeasible
  SplitSums
CHECK_DEADLOCK FALSE
