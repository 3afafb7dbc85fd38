SPECIFICATION Spec
CONSTANTS
  Node = {n1}
  Org = {}
  Address = {a1, a2}
  Info = {v, w}
  WatcherInfo = {w}
  NoEntity = NoEntity
  DayLength = 2
  ValidatorDays = 1
  WatcherDays = 1
  MaxTime = 2
  FailingWrites = {"archive"}
INVARIANTS
  SingleActiveSnapShot
CHECK_DEADLOCK FALSE
