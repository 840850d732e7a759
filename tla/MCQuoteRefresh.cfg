SPECIFICATION Spec
CONSTANTS
  Grain = 2
  Quantities = {0, 5, 9}
  Workbooks <- SmallWorkbooks
  FactSets <- SmallFacts
  ManualRows <- SmallManualRows
  Refreshers = {r1, r2}
  MaxImports = 2
  MaxRefreshes = 2
  MaxAsks = 1
  MaxCrashes = 1
SYMMETRY Symmetry
CONSTRAINT QuotesBeforeOverlap
INVARIANTS TypeOK AutoQuoteWithinBoundaries ManualRowsWin OverridesFollowErp GuardrailsInSync
CHECK_DEADLOCK FALSE
