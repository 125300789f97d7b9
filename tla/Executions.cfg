SPECIFICATION LiveSpec
CONSTANTS
  Providers = {"p", "q"}
  Preferred = "p"
  Persistent = {"p"}
  Profiles = {"main", "spare", "last"}
  FirstProfile = "main"
  ProviderOf <- MCProviderOf
  Fallbacks <- MCFallbacks
  FallbackOn <- MCFallbackOn
  ReadOnly = {"last"}
  Timeout = 2
  MaxAttempts = 2
  MinRemaining = 1
  MaxPast = 1
  MaxFaults = 1
INVARIANTS OneLateTurn WorktreeKnown SessionsEnd RecoveryInTime  HealthyFirst
PROPERTIES ExecuteReturns
CHECK_DEADLOCK FALSE
