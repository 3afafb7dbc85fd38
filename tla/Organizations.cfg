SPECIFICATION Spec
CONSTANTS
  Node = {n1, n2}
  Domain = {d1, d2}
  Name = {o1}
  None = None
  MaxUpdates = 3
INVARIANTS
  TypeOK
  OwnersListTheirNodes
  OrderIrrelevant
  UnchangedFileChangesNothing
  TrustedQuorumsIntersect
SYMMETRY Symmetry
CHECK_DEADLOCK FALSE
