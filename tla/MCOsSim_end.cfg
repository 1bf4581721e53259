CONSTANTS
  p1 = p1
  p2 = p2
  p3 = p3
  Proc = {p1}
  Cpu = {c1, c2}
  Ld = ld
  NULL = NULL
  MAX_PRIO = 2
  MAX_QUEUE_SIZE = 3
  prio <- OnePrio
  order <- OneOrder
  MaxStart = 0
  Sizes <- OneSize
  TimeSlots = {2}
SPECIFICATION OsFairSpec
PROPERTIES
  SimulationEnds
CHECK_DEADLOCK FALSE
