SPECIFICATION Spec
CONSTANTS
  Entity = {e1}
  MaxUpdate = 3
  MaxDay = 1
INVARIANTS
  TypeOK
  CountedOnce
  AtMostAlwaysAvailable
  NoneLeftOut
CHECK_DEADLOCK FALSE
