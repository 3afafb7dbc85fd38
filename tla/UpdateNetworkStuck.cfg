SPECIFICATION Spec
CONSTANTS
  Run = {r1, r2}
  FirstRun = r1
PROPERTIES
  UpdatesEveryThreeMinutes
CHECK_DEADLOCK FALSE
