SPECIFICATION Spec
CONSTANTS
  Cols = {c1, c2}
  CoefChoices <- CoefValues
  LbChoices <- LbValues
  UbChoices <- UbValues
  SideChoices <- SideValues
  Window = 3
INVARIANTS
  ActivityExact
  StatusSound
  PropagationSound
  InfeasibleSound
CHECK_DEADLOCK FALSE
