SPECIFICATION Spec
CONSTANTS
  Procs = {p1, p2}
  Paths = {w1}
  Ids = {i1, i2, i3}
  None = None
  Commands = {"acquire", "release", "gc"}
  Locking = TRUE
  Ties = {FALSE}
  CutShort = FALSE
  ListFails = TRUE
INVARIANTS
  RemovedTreesAreNotCapacity
CHECK_DEADLOCK FALSE
