SPECIFICATION FairSpec
CONSTANTS
  Proc = {p1, p2}
  NULL = NULL
  NCPU = 2
  NFrames = 1
  NSlots = 2
  MaxPages = 2
  MaxInc = 2
  Value = {}
  MAX_QUEUE_SIZE = 2
INVARIANTS
  PagingTypeOK
  FrameHasOneOwner
  SlotHasOneOwner
  AllMemoryReturned
PROPERTIES
  InstructionsEnd
