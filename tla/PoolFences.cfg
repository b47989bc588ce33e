SPECIFICATION Spec
CONSTANTS
  Procs = {p1, p2}
  Paths = {w1}
  Ids = {i1, i2, i3}
  None = None
  Commands = {"acquire", "run", "release", "gc"}
  Locking = FALSE
  Ties = {TRUE, FALSE}
  CutShort = TRUE
  ListFails = TRUE
SYMMETRY Interchangeable
INVARIANTS
  StateStaysDecodable
  NoChildForgotten
  PoolIsDrained
PROPERTIES
  FencedTransitions
  RenewalWins
CHECK_DEADLOCK FALSE
