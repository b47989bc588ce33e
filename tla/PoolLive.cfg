SPECIFICATION FairSpec
CONSTANTS
  Procs = {p1, p2}
  Paths = {w1}
  Ids = {i1, i2, i3}
  None = None
  Commands = {"acquire", "run", "gc"}
  Locking = TRUE
  Ties = {FALSE}
  CutShort = FALSE
  ListFails = FALSE
PROPERTIES
  AbandonedWorkIsRecovered
CHECK_DEADLOCK FALSE
