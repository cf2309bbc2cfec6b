CONSTANTS
  o1 = o1
  o2 = o2
  Parts = {"pool"}
  Callers = {}
  MaxEvents = 0
  Keys = {}
  Top = 0
  MaxCalls = 0
  MaxFaults = 0
  MaxCrashes = 0
  Openers = {o1, o2}
  Setups <- WideAndDeep
SPECIFICATION MCSpec
INVARIANTS
  PreparedHolds
PROPERTIES
  PreparedMoves
  CallsAnswered
CHECK_DEADLOCK FALSE
