SPECIFICATION Spec
CONSTANTS
  Proc = {p1, p2}
  NULL = NULL
  NCPU = 1
  NFrames = 2
  NSlots = 2
  MaxPages = 2
  MaxInc = 2
  Value = {1, 2}
  MAX_QUEUE_SIZE = 2
SYMMETRY Symmetry
INVARIANTS
  DataIntact
  FifoIsResident
PROPERTIES
  ReadYourWrites
