SPECIFICATION Spec
CONSTANTS
  Procs = {p1, p2}
  Ids = {i1, i2}
  Versions = {v1, v2}
  Kinds = {"plain", "pooled"}
  None = None
SYMMETRY Interchangeable
PROPERTIES
  ReturnsIntactProjections
CHECK_DEADLOCK FALSE
