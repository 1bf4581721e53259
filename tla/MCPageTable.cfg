SPECIFICATION Spec
CONSTANTS
  p1 = p1
  p2 = p2
  Proc <- Procs
  Levels = 3
  LevelBits = 1
  OffBits = 1
  TopBits = 1
  Entry = {0, 1}
  NTables = 7
  MaxRange = 16
CHECK_DEADLOCK FALSE
INVARIANTS
  TablesFormTrees
PROPERTY
  ImplementsPageMap
