\* Two trading days from the last hours of the first, one symbol, two starts.
SPECIFICATION Spec
CONSTANTS
  Symbols = {s1}
  LastDay = 2
  Holidays = {}
  FirstTimes = {3}
  MaxBoots = 2
INVARIANT TypeOK
INVARIANT NightlyOnce
INVARIANT ResetInTime
 
 
PROPERTY Reported
\* The last boundary of the last day may find the process stopped for good.
CHECK_DEADLOCK FALSE
