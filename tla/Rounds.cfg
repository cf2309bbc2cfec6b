CONSTANTS
  MaxRev = 3
  MaxHuman = 2
  MaxRuns = 2
  Limits = {2}
  Compositions <- BareAndCrowded
  Horizon = 5
  Delays = {1}
  MaxDelay = 2
  Setups <- AlonePairWorking
SPECIFICATION MCSpec
INVARIANTS
  RemindersHold
  RoundsHold
PROPERTIES
  RoundSteps
  RoundsMove
CHECK_DEADLOCK FALSE
