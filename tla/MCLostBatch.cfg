SPECIFICATION Spec
CONSTANTS
  Crane = {"C1", "C2", "C3"}
  Order <- MCOrder
  DueSets <- MCDueSets
  MaxRetries = 1
  MaxFailures = 2
  Workers = 2
  HistoryLimit = 1
  DurationMin = 1
  DurationMax = 6
  Batches = 3
INVARIANT UnusableIsReplaced
CHECK_DEADLOCK FALSE
