CONSTANTS
  Threshold = 4
  Retain = 2
  Retries = 1
  PruneOver = 2
  MaxSeq = 6
  MaxFaults = 1
  MaxCrashes = 1
SPECIFICATION Spec
INVARIANTS
  SurfaceHolds
PROPERTIES
  CompactionSteps
CHECK_DEADLOCK FALSE
