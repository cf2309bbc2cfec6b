CONSTANTS
  Market = Market
  None = None
  Plugins = {b1, b2}
  Custom = {c1}
  MaxVersion = 3
  Prints <- PrintsOf
  MaxCrashes = 2
  Rollbacks = FALSE
  MaxRestarts = 3
  MaxAbnormal = 2
  Imports = {i1, i2}
  Folder = {1, 2, 3}
  Parts <- PartsOf
  ImportCrashes = 1
  Names = {s1, s2}
  MarketVersions = 2
  MaxStops = 2
SPECIFICATION MCSpec
INVARIANTS
  ProvisionSafe
  ShellHolds
  LibrariesHold
PROPERTIES
  DesktopSteps
  DesktopRecovers
CHECK_DEADLOCK FALSE
