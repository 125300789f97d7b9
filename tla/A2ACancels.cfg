SPECIFICATION LiveSpec
CONSTANTS
  Task = {"s", "t"}
  PoolSize = 1
  Batch = 2
  MaxProgress = 3
  MaxCancels = 2
CHECK_DEADLOCK FALSE
INVARIANTS ProgressComplete
PROPERTIES CancelReaches
