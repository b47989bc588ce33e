SPECIFICATION Spec
CONSTANTS
  Procs = {p1, p2}
  Paths = {w1}
  Ids = {i1, i2, i3}
  None = None
  Commands = {"acquire", "warm", "run", "sync", "release", "gc"}
  Locking = TRUE
  Ties = {TRUE, FALSE}
  CutShort = FALSE
  ListFails = FALSE
SYMMETRY Interchangeable
INVARIANTS
  TypeOK
  PooledTreesAreReady
  AssignmentsKeepTheirTree
  NoOrphanTree
  OperationsStayFenced
  OneWriterPerTree
PROPERTIES
  ChildrenKeepTheirTree
CHECK_DEADLOCK FALSE
