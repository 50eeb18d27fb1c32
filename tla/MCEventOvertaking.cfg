SPECIFICATION Spec
CONSTANTS
  creator = creator
  visitor = visitor
  NoUid = NoUid
  None = None
  CreatorUids <- MCCreatorUids
  Rules <- MCRules
  Processes = {p1, p2}
  Requests = {"view", "close"}
  Body <- MCBody
  TargetingRules <- MCTargetingRules
  InitialRules = "showAll"
  Shows <- MCShows
  Throttles = {TRUE}
  EVENTS_FIND_LIMIT = 2
  Faults = {}
  MaxFaults = 1
INVARIANT
  NothingSkipped
