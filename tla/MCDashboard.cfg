SPECIFICATION Spec
CONSTANTS
  Nothing = Nothing
  Absent = Absent
  Windows = {w1, w2}
  Tables <- SmallTables
  Overrides <- SmallOverrides
  Seed <- SmallSeed
  Stores <- SmallStores
  Tax = 2
  FxInputs <- SmallFx
  UsdInputs <- SmallUsd
  CnyInputs <- SmallCny
  ModelLists <- SmallModelLists
  Margins = {100}
  Names = {n1, n2}
  MaxSteps = 3
SYMMETRY Symmetry
INVARIANTS RebuiltPageShowsDb CurrenciesAgree ReloadShowsTheSame
