SPECIFICATION ObservedSpec
CONSTANTS
  NRows = 3
  NCols = 3
  Problems <- ConflictProblems
  MaxFillin = 10
  MaxRounds = 2
  Window = 3
INVARIANT OptimumKept
CHECK_DEADLOCK FALSE
