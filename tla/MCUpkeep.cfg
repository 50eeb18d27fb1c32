SPECIFICATION FairSpec
CONSTANTS
  HEARTBEAT_TIME = 1
  ValidUntils = {1, 9}
  MaxTime = 2
  MaxStates = 0
  MaxPosts = 2
  MaxPrunes = 1
  MaxFaults = 1
INVARIANTS
  HeartbeatsApart
PROPERTIES
  NewestHeartbeatSurvives
  HeartbeatsGoOn
CHECK_DEADLOCK FALSE
