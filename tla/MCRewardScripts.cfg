SPECIFICATION Spec
CONSTANTS
  Owners = {"ann", "bob"}
  PerSecond = 3
  Starts = 1
  Ends = 3
  REWARD_NUM = 1
  REWARD_DEN = 2
  OPEN_FEE = 1
  DaysInMonth = 2
  Histories <- MCHistories
  AmountOf <- MCAmountOf
  Deposits = {4, 20}
  MaxTime = 4
  MaxLogs = 3
  MaxRuns = 3
  MaxFaults = 1
INVARIANTS
  TypeOK
  RecordsAreBacked
  OneChannelPerMonth
PROPERTY
  SignedTreesOnlyGrow
CHECK_DEADLOCK FALSE
