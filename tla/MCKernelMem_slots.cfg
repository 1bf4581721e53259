SPECIFICATION KernelSpec
CONSTANTS
  Proc = {p1, p2}
  Rgid = {a, b}
  PoolId = {k}
  NULL = NULL
  PAGESZ = 2
  KBASE = 100
  Bounds <- TwoPagePool
SYMMETRY Symmetry
CHECK_DEADLOCK FALSE
INVARIANTS
  SlotRegionsAreDisjoint
