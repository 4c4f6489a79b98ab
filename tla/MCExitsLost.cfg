CONSTANTS
  MaxSales = 2
  MaxLot = 1
  PollLimit = 2
  SeedLimit = 2
SPECIFICATION Safety
INVARIANT KnownMeansRecorded
CHECK_DEADLOCK FALSE
