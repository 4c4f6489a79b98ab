CONSTANTS
  Symbols = {AIIO}
  Runners = {CYCN}
  MaxEntries = 2
  Patience = 3
  Contexts = {{}, {"clwt"}, {"level_pullaway"}, {"curl"}, {"second_leg"}, {"prior_runner"}, {"post_target"}, {"fresh_continuation"}, {"equal_high"}, {"level_break"}, {"failed_recovery"}, {"halt_resume"}, {"low_price_proof"}, {"high_base"}, {"parabolic"}, {"trend_pullback"}, {"second_leg_vwap"},
    {"level_break", "second_leg_vwap"}, {"clwt", "low_price_proof"}, {"curl", "equal_high"}, {"prior_runner", "high_base"}, {"post_target", "parabolic"}, {"halt_resume", "failed_recovery"}, {"prior_runner", "second_leg"}, {"level_pullaway", "curl"}}
SPECIFICATION Spec
INVARIANTS ReplayParity BuysInWindow OneBurst
PROPERTY BuysOnlyForgiven
CHECK_DEADLOCK FALSE
