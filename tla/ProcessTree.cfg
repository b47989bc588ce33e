SPECIFICATION FairSpec
CONSTANTS
  MaxForks = 2
  Releasers = {r1}
  None = none
INVARIANTS
  TypeOK
  RecordOutlivesTree
  SignalsStayInTheTree
PROPERTY
  TreesAreForgotten
