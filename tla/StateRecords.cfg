SPECIFICATION Spec
CONSTANTS
  NumCalls = 4
  MaxAttempts = 2
  MaxFaults = 2
  PageLimit = 1
INVARIANTS CursorComplete
PROPERTIES RecordIsAtomic
CHECK_DEADLOCK FALSE
