SPECIFICATION Spec
CONSTANTS
  NRows = 2
  NCols = 3
  NoBound = NoBound
  Unit = 2
  BoundOffset = 2
  MaxReductions = 5
  Problems <- MCProblems
INVARIANTS
  TypeOK
  StepFeasible
  StepOptimal
  StepBasis
  StoredBoundsExact
  SavedRowFound
  Accepted
CHECK_DEADLOCK FALSE
