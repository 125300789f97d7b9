CONSTANTS
  Proc = {p1, p2}
  Turn = {t1, t2, t3}
  NoProc = NoProc
  NoTurn = NoTurn
  Hosted = {}
  MaxFaults = 2
  MaxCalls = 0
  MaxEvents = 2
SPECIFICATION Spec
SYMMETRY Symmetric
INVARIANTS TypeOK TurnMutex OwnerIsLocal ResultReady
PROPERTY ReconcileSparesOwners
CHECK_DEADLOCK FALSE
