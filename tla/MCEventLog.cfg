SPECIFICATION FairSpec
CONSTANTS
  creator = creator
  visitor = visitor
  NoUid = NoUid
  None = None
  CreatorUids <- MCCreatorUids
  Rules <- MCRules
  Processes = {p1}
  Requests = {"view", "close", "retarget", "hijack"}
  Body <- MCBody
  TargetingRules <- MCTargetingRules
  InitialRules = "showAll"
  Shows <- MCShows
  Throttles = {TRUE}
  EVENTS_FIND_LIMIT = 1
  Faults = {"failed", "unconfirmed", "crash"}
  MaxFaults = 1
INVARIANTS
  TypeOK
  OnlyTheCreatorSteers
PROPERTIES
  FollowsTheLog
  AckedIsReached
