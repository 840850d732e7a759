SPECIFICATION Spec
CONSTANTS
  Requests = {r1, r2}
  Engines = {"sqlite", "postgresql"}
  Jobs = {j1, j2}
  Nothing = Nothing
  Pages <- SmallPages
  MaxSamples = 3
  MaxCalls = 5
SYMMETRY Symmetry
INVARIANTS OnePrimaryPerLead CounterExact AuditTellsStatus QueueHoldsApproved SentOnce
CHECK_DEADLOCK FALSE
