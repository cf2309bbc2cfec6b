SPECIFICATION Spec
CONSTANTS
  Approvals = {a1, a2, a3}
  MaxGen = 3
  Features = {"early"}
INVARIANTS NoPromptLost
CHECK_DEADLOCK FALSE
