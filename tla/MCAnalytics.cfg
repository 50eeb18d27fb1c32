SPECIFICATION FairSpec
CONSTANTS
  toBalancesKey <- MCtoBalancesKey
  NoPublisher = "none"
  Malformed = "malformed"
  Channels = {"red", "blue"}
  Creator <- MCCreator
  Bodies <- MCBodies
  MaxRequests = 2
  MaxTime = 3
  MaxCrashes = 1
INVARIANTS
  TypeOK
  SummedUpOnce
  NotesAddUp
  RoutesAgree
PROPERTY
  IsSummedUpInTheEnd
CHECK_DEADLOCK FALSE
