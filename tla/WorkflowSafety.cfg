SPECIFICATION Spec
CONSTANTS
  t1 = t1
  t2 = t2
  t3 = t3
  p1 = p1
  p2 = p2
  Task = {t1, t2, t3}
  Proc = {p1, p2}
  NoProc = NoProc
  DependsOn <- MCDependsOn
  Pools <- MCPools
  EventKinds = {"crash", "stall", "store", "cancel", "shutdown"}
  MaxEvents = 1
SYMMETRY ProcSymmetry
CHECK_DEADLOCK FALSE
INVARIANTS
  TypeOK
  Capacity
  DependenciesHonoured
  ResultReadable
