CONSTANTS
  Symbols = {AIIO, BENF}
  MaxPositions = 1
  MaxEntries = 1
  MaxExits = 1
  MaxSurprises = 1
SPECIFICATION Spec
INVARIANT TypeOK LastEntry EntryBudget
PROPERTY CyclesResume
CHECK_DEADLOCK FALSE
