SPECIFICATION FairSpec
CONSTANTS
  a1 = a1
  a2 = a2
  a3 = a3
  r1 = r1
  r2 = r2
  None = None
  Procs = {p1, p2}
  Repos = {r1, r2}
  Asgs = {a1, a2, a3}
  RepoOf <- TwoRepos
  Ports = {x1, x2}
  Names = 1
  LockFails = TRUE
INVARIANTS
  TypeOK
  PortsAreExclusive
  RepositoryPortsAreExclusive
  PublishedPortsAreReserved
PROPERTY NoReservationLeaks
