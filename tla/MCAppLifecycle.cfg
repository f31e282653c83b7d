CONSTANTS
  NumWorkers = 3
  MqMax = 2
  MaxTasks = 3
  MaxEvents = 3
CHECK_DEADLOCK FALSE
SPECIFICATION FairSpec
INVARIANTS FailedHoldsNothing WorkersInBuffers
PROPERTIES LeavesNoTasks ComesUp
