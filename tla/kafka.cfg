SPECIFICATION Spec
CONSTANTS
  NumWorkers = 2
  BatchSize = 2
  InputSize = 1
  MaxAttempts = 3
  Traffic <- TwoWays
  Partitions = {1, 2}
  Balance <- BySource
  MaxFaults = 3
INVARIANTS TypeOK OrderedPerWorker TwiceOnlyUnanswered StopDrains
PROPERTY StopReturns
CHECK_DEADLOCK FALSE
