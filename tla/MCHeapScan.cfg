SPECIFICATION ScanSpec
CONSTANTS
  TotalBlocks = 5
  Tables <- MCTables
  Totals <- MCTotals
INVARIANTS FirstFit
CHECK_DEADLOCK FALSE
