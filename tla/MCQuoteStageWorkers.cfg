SPECIFICATION FairSpec
CONSTANTS
  Workers <- StageWorkers
  Serves <- ServesOwnStage
  Quotes = {q1, q2}
  NoQuote = NoQuote
  MaxTasks = 2
  MaxDecisions = 3
  MaxCrashes = 1
INVARIANTS ExclusiveWork LogLossBounded OrphanDecisionsBounded
PROPERTIES ImplementsLife EveryTaskFinishes
CHECK_DEADLOCK FALSE
