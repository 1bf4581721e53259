CONSTANTS
  p1 = p1
  p2 = p2
  p3 = p3
  p4 = p4
  p5 = p5
  p6 = p6
  Proc = {p1, p2, p3, p4, p5, p6}
  Cpu = {c1, c2}
  NULL = NULL
  MAX_PRIO = 2
  MAX_QUEUE_SIZE = 3
  prio <- FourOnTop
SPECIFICATION BypassFairSpec
INVARIANTS
  SchedTypeOK
  OneHome
  Tracked
  RequeueHasRoom
  BudgetsInRound
  BoundedBypass
PROPERTIES
  RoundsAreFair
  NoStarvation
CHECK_DEADLOCK FALSE
