SPECIFICATION Spec
CONSTANTS
  Requests = {r1, r2}
  Engines = {"sqlite", "postgresql"}
  Names = {n1, n2}
  Texts = {t1, t2}
  Samples = {s1}
  Items = {i1}
  Nothing = Nothing
  MaxRules = 3
  MaxVersions = 5
  MaxCalls = 6
SYMMETRY Symmetry
INVARIANTS NewestVersionIsRule HistoryIsItsOwn LinkIsLive
CHECK_DEADLOCK FALSE
