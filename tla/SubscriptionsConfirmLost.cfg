SPECIFICATION Spec
CONSTANTS
  User = {u1}
  Source = {s1, s2}
  EventType = {t1}
  Slot = {a1}
  CoolOff = 1
  MaxTime = 1
  MaxPending = 2
INVARIANTS
  ConfirmationNotLost
SYMMETRY Symmetry
CHECK_DEADLOCK FALSE
