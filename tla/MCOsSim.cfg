CONSTANTS
  p1 = p1
  p2 = p2
  p3 = p3
  Proc = {p1, p2, p3}
  Cpu = {c1, c2}
  Ld = ld
  NULL = NULL
  MAX_PRIO = 2
  MAX_QUEUE_SIZE = 3
  prio <- ThreePrio
  order <- ThreeOrder
  MaxStart = 1
  Sizes <- ThreeSizes
  TimeSlots = {0, 1, 2}
SPECIFICATION OsFairSpec
INVARIANTS
  OsTypeOK
  NoProcessAbandoned
  RunsToItsEnd
  WorkConserving
PROPERTIES
  UsesSchedCorrectly
  OneInstructionPerSlot
  FreshQuantum
  AllProcessesFinish
CHECK_DEADLOCK FALSE
