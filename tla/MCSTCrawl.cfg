SPECIFICATION Spec
CONSTANTS
  Processes = {p1, p2}
  Nobody = Nobody
  Stamps = {s1, s2}
  NoStamp = NoStamp
  m1 = m1
  m2 = m2
  m3 = m3
  Workbook <- ThreeModels
  Flows <- AllFlows
  SaveEvery = 2
  MaxErrors = 2
  MaxDeaths = 1
SYMMETRY Symmetry
INVARIANTS TypeOK ResumeNeverSkips LostResultsBounded StaleLockNeverBlocks LockReleased
CHECK_DEADLOCK FALSE
