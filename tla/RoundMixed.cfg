SPECIFICATION ObservedSpec
CONSTANTS
  NRows = 3
  NCols = 3
  Problems <- MixedProblems
  MaxFillin = 10
  MaxRounds = 2
  Window = 3
INVARIANTS
  ProtectedSurvive
  ActivitiesExact
  StoragesAgree
  WorkListsComplete
PROPERTY ImplementsContract
CHECK_DEADLOCK FALSE
