SPECIFICATION Spec
CONSTANTS
  Processes = {p1, p2}
  Nobody = Nobody
  Stamps = {s1, s2}
  NoStamp = NoStamp
  m1 = m1
  m2 = m2
  m3 = m3
  Workbook <- ThreeModels
  Flows <- SkipPricedOnly
  SaveEvery = 2
  MaxErrors = 2
  MaxDeaths = 0
SYMMETRY Symmetry
INVARIANTS FinishedRunCoversAll
CHECK_DEADLOCK FALSE
