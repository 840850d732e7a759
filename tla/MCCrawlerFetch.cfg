SPECIFICATION Spec
CONSTANTS
  Requests = {r1, r2}
  Nothing = Nothing
  Calls <- SmallCalls
  Pages <- SmallPages
  Hosts = {"h", "g"}
  Delay = 2
  StartTimes = {0, 2}
  Horizon = 3
INVARIANTS FetchesSpaced WaitBounded FailsForAReason PreviewIsThePage
PROPERTIES EveryPreviewEnds
CHECK_DEADLOCK FALSE
