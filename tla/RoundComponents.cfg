SPECIFICATION ObservedSpec
CONSTANTS
  NRows = 3
  NCols = 6
  Problems <- OpenPairProblems
  MaxFillin = 10
  MaxRounds = 2
  Window = 3
INVARIANT PostsolveRestores
CHECK_DEADLOCK FALSE
