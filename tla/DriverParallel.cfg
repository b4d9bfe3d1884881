SPECIFICATION FairSpec
CONSTANTS
  NP = 4
  Timing <- TimingFour
  Enabled = {1, 2, 3, 4}
  DelayedInit = {4}
  Typed = {3}
  SelfSkipping = {4}
  Sequential = FALSE
  MaxRounds <- Unlimited
  MaxOnlyBound = 1
  CanInterrupt = TRUE
  CertifyChoices = {FALSE}
  MaxApplies = 1
  MaxSize = 1
  MaxFound = 2
  RoundCap = 1
  CallCap = 2
INVARIANTS TypeOK CleanRound TrivialBeforeClass NobodyLeftOut PostponedCharged
PROPERTY Termination
CHECK_DEADLOCK FALSE
