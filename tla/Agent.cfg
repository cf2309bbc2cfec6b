CONSTANTS
  p1 = p1
  p2 = p2
  p3 = p3
  Routes = {p1, p2, p3}
  NoPolicy = NoPolicy
  AlwaysMode = {p2}
  Retries <- Budgets
  Compactions = 1
  Setups <- TwoSetups
  RequestSteps = 1
  Attempts <- Caps
  Plugins = 2
  CrashSetups <- Turns
  Messages = {m1, m2}
  MaxSteps = 2
  MaxCancels = 2
  MaxMaintenance = 1
SPECIFICATION MCSpec
INVARIANTS
  AgentSafe
  RecoveryHolds
  TurnsHold
PROPERTIES
  TurnSteps
  AgentAnswers
  CallsGetResults
CHECK_DEADLOCK FALSE
