SPECIFICATION LiveSpec
CONSTANTS
  Adapters = {"codex", "opencode", "antigravity", "app-server"}
  Systems = {"posix", "nt"}
  Lines = {"text", "call_a"}
  IdleLimit = 1
  TimeLimit = 1
  MaxCalls = 2
  MaxRepeats = 1
  MaxChildren = 0
  MaxUnread = 1
CHECK_DEADLOCK FALSE
INVARIANTS
  OutputComplete
  StopsAtBudget
  HonestSuccess
PROPERTIES
  StopKillsGroup
  CancelStops
  TurnEnds
