CONSTANTS
  Calls = {a, b}
  Setups <- QueuedAtOnceNarrated
SPECIFICATION Spec
INVARIANTS
  RunHolds
PROPERTIES
  RunSettles
