SPECIFICATION OutOfMemorySpec
CONSTANTS
  Proc = {p1}
  Rgid = {a, b, c}
  PAGESZ = 2
  KBASE = 100
  Bounds <- OneHeap
SYMMETRY Symmetry
INVARIANTS
  RegionsAreDisjoint
CHECK_DEADLOCK FALSE
