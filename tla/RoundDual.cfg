SPECIFICATION ObservedSpec
CONSTANTS
  NRows = 3
  NCols = 6
  Problems <- DualAndMergeProblems
  MaxFillin = 10
  MaxRounds = 2
  Window = 3
INVARIANTS
  TypeOK
  OptimumKept
  ProtectedSurvive
  ActivitiesExact
  StoragesAgree
  RemovedOnce
  WorkListsComplete
PROPERTY ImplementsContract
CHECK_DEADLOCK FALSE
