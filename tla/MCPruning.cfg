SPECIFICATION Spec
CONSTANTS
  HEARTBEAT_TIME = 2
  ValidUntils = {1}
  MaxTime = 1
  MaxStates = 2
  MaxPosts = 2
  MaxPrunes = 1
  MaxFaults = 0
INVARIANTS
  TypeOK
PROPERTIES
  ApprovedSurvivesPruning
CHECK_DEADLOCK FALSE
