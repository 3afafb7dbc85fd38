SPECIFICATION Spec
CONSTANTS
  Node = {n1, n2}
  Org = {}
  Address = {a1, a2}
  Info = {v, w}
  WatcherInfo = {w}
  NoEntity = NoEntity
  DayLength = 1
  ValidatorDays = 1
  WatcherDays = 1
  MaxTime = 3
  FailingWrites = {}
INVARIANTS
  InactiveNodesArchived
SYMMETRY Symmetry
CHECK_DEADLOCK FALSE
