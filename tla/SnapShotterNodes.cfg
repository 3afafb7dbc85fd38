SPECIFICATION Spec
CONSTANTS
  Node = {n1}
  Org = {}
  Address = {a1, a2}
  Info = {v, w}
  WatcherInfo = {w}
  NoEntity = NoEntity
  DayLength = 1
  ValidatorDays = 1
  WatcherDays = 1
  MaxTime = 3
  FailingWrites = {"archive", "createUpdated"}
INVARIANTS
  TypeOK
  SnapShotsRecordNetwork
  AddressFlapsDamped
PROPERTIES
  HistoryImmutable
  ShowsHistory
SYMMETRY Symmetry
CHECK_DEADLOCK FALSE
