SPECIFICATION Spec
CONSTANTS
  s1 = s1
  s2 = s2
  Symbols = {s1, s2}
  Unknown = Unknown
  FloatOf <- MCFloatOf
  Kinds <- MCKinds
  HotMax = 1
  PoolMax = 1
  ProcessMax = 1
  BatchMax = 2
  QueueMax = 2
  EventMax = 1
  DeferMax = 1
  MaxScans = 2
  MaxRefreshes = 1
  MaxTicks = 2
INVARIANT HotOverflowExplained
INVARIANT PoolOverflowExplained
CHECK_DEADLOCK FALSE
