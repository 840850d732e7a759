SPECIFICATION Spec
CONSTANTS
  Workers = {d1, d2}
  Serves <- ServesAll
  Quotes = {q1, q2}
  NoQuote = NoQuote
  MaxTasks = 1
  MaxDecisions = 2
  MaxCrashes = 0
SYMMETRY Symmetry
INVARIANTS TypeOK EvidenceBeforeProgress DecisionOwned EvidenceAgreesWithDecision
CHECK_DEADLOCK FALSE
