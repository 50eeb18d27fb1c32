SPECIFICATION FairSpec
CONSTANTS
  Us = "us"
  Limits <- MCLimits
  Channels = {"short", "new", "lasting", "lasting2", "dear"}
  Def <- MCDef
  InitialChannels <- MCInitialChannels
  Requests = {"one", "twin", "other"}
  Posted <- MCPosted
  CHANNELS_FIND_LIMIT = 1
  MaxTime = 3
  MaxLate = 1
INVARIANTS
  TypeOK
  StoredOnceAndSound
PROPERTIES
  TickedOnceUnlessDisturbed
  OneTickAtATime
  LastingChannelsAreTicked
CHECK_DEADLOCK FALSE
