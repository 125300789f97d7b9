CONSTANTS
  Proc = {p1, p2}
  Turn = {t1, t2}
  NoProc = NoProc
  NoTurn = NoTurn
  Hosted = {p1}
  MaxFaults = 1
  MaxCalls = 1
  MaxEvents = 1
SPECIFICATION LiveSpec
PROPERTIES CancelDelivered NoZombie
CHECK_DEADLOCK FALSE
