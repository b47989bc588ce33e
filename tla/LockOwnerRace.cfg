SPECIFICATION Spec
CONSTANTS
  p1 = p1
  p2 = p2
  p3 = p3
  t1 = t1
  t2 = t2
  t3 = t3
  Legacy = Legacy
  None = None
  Procs = {p1, p2, p3}
  Tokens = {t1, t2, t3}
  Hosts <- Single
SYMMETRY Interchangeable
INVARIANT RetiredOwnerIsGone
CHECK_DEADLOCK FALSE
