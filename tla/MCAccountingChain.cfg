SPECIFICATION Spec
CONSTANTS
  DepositAmount = 10
  Fees <- MCFees
  Validators = {leader, follower}
  Aggregates <- MCAggregates
INVARIANTS
  NeverOverspends
  ExhaustedWhenDepositIsSpent
  PerfectHealthMeansAgreement
PROPERTY
  OwnTreesAreValidTransitions
