CONSTANTS
  Symbols = {AIIO}
  MaxQty = 2
  MaxShort = 1
  PendingGrace = 1
  MissLimit = 2
  MaxTrades = 1
  MaxDecisions = 1
SPECIFICATION Spec
INVARIANT TypeOK NoUnattendedPosition MissesAreReal
PROPERTY PatientUntrack Converges
CHECK_DEADLOCK FALSE
