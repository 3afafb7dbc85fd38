SPECIFICATION Spec
CONSTANTS
  Node = {n1, n2}
  Org = {o1}
  Address = {a1}
  Info = {w}
  WatcherInfo = {w}
  NoEntity = NoEntity
  DayLength = 2
  ValidatorDays = 1
  WatcherDays = 1
  MaxTime = 3
  FailingWrites = {"homeDomain"}
INVARIANTS
  DisjointHistory
  CompletedUpdateMeasured
  UntrackedOrganizationEnds
  LatestNetworkReadable
SYMMETRY Symmetry
CHECK_DEADLOCK FALSE
