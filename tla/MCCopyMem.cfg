SPECIFICATION CopySpec
CONSTANTS
  Proc = {p1, p2}
  Rgid = {a, b, c}
  PoolId = {k}
  NULL = NULL
  PAGESZ = 2
  KBASE = 100
  Bounds <- Instances
SYMMETRY Symmetry
CHECK_DEADLOCK FALSE
INVARIANTS
  RegionsAreDisjoint
  EveryByteOnce
  GrowthServesTheRequest
  UsedIsMapped
  ScanFindsLowestRun
  KernelMemReturned
  GivenFramesStay
  ObjectsAreDistinct
PROPERTIES
  StoresAreExact
