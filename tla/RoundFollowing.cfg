SPECIFICATION ObservedSpec
CONSTANTS
  NRows = 2
  NCols = 3
  Problems <- FollowingProblems
  MaxFillin = 10
  MaxRounds = 2
  Window = 3
INVARIANT OptimumKept
CHECK_DEADLOCK FALSE
