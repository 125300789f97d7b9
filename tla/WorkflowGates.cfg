SPECIFICATION Spec
CONSTANTS
  t1 = t1
  t2 = t2
  t3 = t3
  p1 = p1
  p2 = p2
  Task = {t1, t2}
  Proc = {p1, p2}
  NoProc = NoProc
  DependsOn <- MCDependsOn
  Pools <- MCPools
  EventKinds = {}
  MaxEvents = 0
CHECK_DEADLOCK FALSE
INVARIANTS
  DependentsWaitForGates
