SPECIFICATION Spec
CONSTANTS
  Commands = {c1, c2}
  Ttls = {3, 9}
  MaxTime = 6
  Renewals = 1
  Jumps = {}
  MaxInterval = 3
  None = None
SYMMETRY Interchangeable
PROPERTY KeepersRemoveOnlyTheirOwn
CHECK_DEADLOCK FALSE
