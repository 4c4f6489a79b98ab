CONSTANTS
  ScoreThreshold = 80
  MaxFloat = 20
  WideSpreads = TRUE
  MaxHod = 1200
  MaxHodOther = 1000
  FreshScouts = TRUE
  ReclaimScouts = TRUE
  DollarRisk = 50
  MaxShares = 500
  MaxHeld = 1000
  Scripts <- McScripts
  Looks <- McLooks
  Configs <- McConfigs
  News <- McNews
  Markets <- McMarkets
SPECIFICATION CycleSpec
CHECK_DEADLOCK FALSE
INVARIANTS OrderBounded ScoutsStaySmall ScoredOrScout
