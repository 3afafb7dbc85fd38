SPECIFICATION Spec
CONSTANTS
  User = {u1}
  Source = {s1, s2}
  EventType = {t1}
  Slot = {a1, a2}
  CoolOff = 1
  MaxTime = 2
  MaxPending = 2
INVARIANTS
  TypeOK
  DoubleOptIn
  MutedOnlyIfDelivered
  UnmutedUntilDelivered
  LatestConfirmationCounts
PROPERTIES
  NotAgainDuringCoolOff
SYMMETRY Symmetry
CHECK_DEADLOCK FALSE
