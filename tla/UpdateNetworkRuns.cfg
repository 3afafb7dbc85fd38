SPECIFICATION Spec
CONSTANTS
  Run = {r1, r2}
  FirstRun = r1
INVARIANTS
  TypeOK
  OneRunAtATime
  SaveNotCutShort
PROPERTIES
  KeepsUpdating
  SignalEndsProcess
  EndsByItself
CHECK_DEADLOCK FALSE
