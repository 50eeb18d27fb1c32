SPECIFICATION Spec
CONSTANTS
  creator = creator
  visitor = visitor
  NoUid = NoUid
  None = None
  CreatorUids <- MCCreatorUids
  Rules <- MCRules
  Processes = {p1, p2}
  Requests = {"view", "view2", "batch"}
  Body <- MCBody
  TargetingRules <- MCTargetingRules
  InitialRules = "showAll"
  Shows <- MCShows
  Throttles = {TRUE, FALSE}
  EVENTS_FIND_LIMIT = 1
  Faults = {"failed", "unconfirmed", "crash"}
  MaxFaults = 1
INVARIANTS
  AckedIsKept
  RecordedOnce
  SkippedOnlyByOvertaking
SYMMETRY Symmetry
