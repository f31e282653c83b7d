CONSTANTS
  NumWorkers = 2
  MqMax = 2
  MaxTasks = 1
  MaxEvents = 1
CHECK_DEADLOCK FALSE
SPECIFICATION Spec
INVARIANTS RunningSignalReleases
