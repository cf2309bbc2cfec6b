CONSTANTS
  NCalls = 3
  MaxParallel = 2
  MaxReclass = 2
  CodeCalls = 3
  CodeParallel = 2
  CodeChanges = 1
  Askers = {c1, c2}
  Switches = 2
  Jobs = {j1, j2}
  Agents = {a1}
  NoOwner = NoOwner
  JobWaits = {w1}
  Limit = 1
SPECIFICATION MCSpec
INVARIANTS
  StepSafe
  DispatchHolds
  ApprovalsHold
  JobsHold
PROPERTIES
  AbortedStaysQuiet
  ToolsSettle
CHECK_DEADLOCK FALSE
