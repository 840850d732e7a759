SPECIFICATION Spec
CONSTANTS
  Grain = 2
  Quantities = {0, 5, 9}
  Workbooks <- SmallWorkbooks
  FactSets <- SmallFacts
  ManualRows <- SmallManualRows
  Refreshers = {r1}
  MaxImports = 1
  MaxRefreshes = 1
  MaxAsks = 1
  MaxCrashes = 0
INVARIANTS ErpMissingNeverDecides
CHECK_DEADLOCK FALSE
