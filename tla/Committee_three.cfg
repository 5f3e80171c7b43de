\* Three analysts on two threads, a budget that may or may not last.
SPECIFICATION Spec
CONSTANTS
  Roles = {"fundamentals", "technical", "risk"}
  Debate <- OneTurn
  MaxParallel = 2
  Cap = 7
  Worst <- WorstCases
  Prices <- ActualCosts
\* A run ends.
CHECK_DEADLOCK FALSE
INVARIANTS
  Budgeted
  MoneyAddsUp
  EndsInOrder
PROPERTIES
  RunEnds
