SPECIFICATION FairSpec
CONSTANTS
  NP = 2
  Timing <- TimingTwo
  Enabled = {1, 2}
  DelayedInit = {2}
  Typed = {}
  SelfSkipping = {2}
  Sequential = TRUE
  MaxRounds = 1
  MaxOnlyBound = 1
  CanInterrupt = TRUE
  CertifyChoices = {TRUE, FALSE}
  MaxApplies = 2
  MaxSize = 1
  MaxFound = 2
  RoundCap = 3
  CallCap = 1
INVARIANTS RoundsBounded InfeasibilityReported
PROPERTY EveryCallEnds
CHECK_DEADLOCK FALSE
