SPECIFICATION Spec
CONSTANTS
  Commands = {c1, c2}
  Ttls = {3, 6}
  MaxTime = 4
  Renewals = 1
  Jumps = {2}
  MaxInterval = 2
  None = None
SYMMETRY Interchangeable
INVARIANTS
  TypeOK
  TimelyWorkIsKept
PROPERTIES
  RenewalsMoveForward
  RenewedLeaseHolds
CHECK_DEADLOCK FALSE
