SPECIFICATION FSpec
CONSTANTS
  Paths <- MCPaths
  MaxPath = 8
  Digits = {"0", "1"}
  Disks <- MCDisks
  Root = "root"
  Deleted = "E5"
  Lower <- Upper
INVARIANTS PartFits ParsesPath NothingLost OpensNamed FindsNamed HoldsOnly
PROPERTY OpenEnds
CHECK_DEADLOCK FALSE
