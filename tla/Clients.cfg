CONSTANTS
  MaxAttempts = 2
  MaxStable = 1
  MaxQueue = 2
  create = create
  resume = resume
  configured = configured
  o1 = o1
  Approvals = {p1, p2}
  MaxGen = 3
  Attempts = {create, resume, configured}
  Owners = {o1}
  OwnerOf <- FiberOf
  Kind <- KindOf
  Loop = Loop
  None = None
SPECIFICATION MCSpec
INVARIANTS
  SupervisorSafe
  ReplayHolds
  FactoryHolds
PROPERTIES
  ClientSteps
  ClientsSettle
CHECK_DEADLOCK FALSE
