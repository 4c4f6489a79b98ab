CONSTANTS
  MinReclaim = 3500
  RewardRisk = 30000
  AddReward = 10000
  Scripts <- McScripts
  Episodes <- McEpisodes
  Accounts <- McAccounts
  Sizings <- McSizings
  Slips = {8800, 9900, 10000, 10250}
SPECIFICATION Spec
INVARIANTS PlanTradeable OrderBounded BracketSound
CHECK_DEADLOCK FALSE
