CONSTANTS
  MaxSales = 3
  MaxLot = 2
  PollLimit = 3
  SeedLimit = 3
SPECIFICATION AccountingSpec
INVARIANT AccountingTypeOK PollsOnce
PROPERTY EverySaleSeen
CHECK_DEADLOCK FALSE
