SPECIFICATION FairSpec
CONSTANTS
  Leader = Leader
  Follower = Follower
  None = None
  Unread = Unread
  BadRoot = BadRoot
  Creator = Creator
  Pub = Pub
  DepositAmount = 4
  Fees <- MCFees
  Trees <- MCTrees
  EmptyTree <- EmptyMap
  Aggregates <- MCAggregates
  MergeAggrs <- MCMergeAggrs
  AfterFees <- MCAfterFees
  ValidTransition <- MCValidTransition
  Health <- MCHealth
  Full <- MCFull
  HEALTH_UNSIGNABLE_PROMILLES = 750
  HEALTH_THRESHOLD_PROMILLES = 950
  EVENTS_FIND_LIMIT = 1
  LeaderTicks = {l1}
  FollowerTicks = {f1}
  Faults = {"lose", "late", "abort"}
  Misreports <- NoMisreports
  MaxAggrs <- MCMaxAggrs
  MaxTotal = 2
  MaxFaults = 1
INVARIANT
  AccountingIsExact
PROPERTIES
  AgreementIsReached
  SpentChannelIsClosed
  FollowerCatchesUp
  LeaderCatchesUp
