SPECIFICATION Spec
CONSTANTS
  Leader = Leader
  Follower = Follower
  None = None
  Unread = Unread
  BadRoot = BadRoot
  Creator = Creator
  Pub = Pub
  DepositAmount = 4
  Fees <- MCFees
  Trees <- MCTrees
  EmptyTree <- EmptyMap
  Aggregates <- MCAggregates
  MergeAggrs <- MCMergeAggrs
  AfterFees <- MCAfterFees
  ValidTransition <- MCValidTransition
  Health <- MCHealth
  Full <- MCFull
  HEALTH_UNSIGNABLE_PROMILLES = 750
  HEALTH_THRESHOLD_PROMILLES = 950
  EVENTS_FIND_LIMIT = 2
  LeaderTicks = {l1}
  FollowerTicks = {f1}
  Faults = {"lose", "abort"}
  Misreports <- MCMisreports
  MaxAggrs <- MCMaxAggrs
  MaxTotal = 2
  MaxFaults = 1
INVARIANTS
  TypeOK
  ApprovalsAreJustified
PROPERTIES
  FollowerLedger
  AnswersOnce
  ApprovesByItsOwnAccounting
