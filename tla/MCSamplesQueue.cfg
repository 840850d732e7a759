SPECIFICATION Spec
CONSTANTS
  Requests = {r1, r2}
  Engines = {"sqlite"}
  Jobs = {j1, j2}
  Nothing = Nothing
  Pages <- SmallPages
  MaxSamples = 2
  MaxCalls = 4
INVARIANTS QueueItemKeepsItsSample
CHECK_DEADLOCK FALSE
