SPECIFICATION Spec
CONSTANTS
  s1 = s1
  s2 = s2
  Symbols = {s1, s2}
  PoolSymbols = {s2}
  SeedMax = 1
  BatchSize = 1
  Tries = 2
  SmallBatch = 1
  ManyFailed = 15
  WeakLimit = 2
  ExpandMax = 2
  EventMax = 1
  MaxWeak = 1
  MaxDrops = 1
PROPERTY SeedsServed
