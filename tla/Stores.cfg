CONSTANTS
  c1 = c1
  c2 = c2
  k1 = k1
  k2 = k2
  Parts = {"queue", "file", "domain"}
  Callers = {c1, c2}
  MaxEvents = 3
  Keys = {k1, k2}
  Top = 1
  MaxCalls = 2
  MaxFaults = 2
  MaxCrashes = 1
  Openers = {}
  Setups <- OnlyFaultless
SPECIFICATION MCSpec
INVARIANTS
  QueueSafe
  FilesHold
PROPERTIES
  ImplementsDurableLog
  DomainIsStore
  StoresSettle
CHECK_DEADLOCK FALSE
