\* Long runs of evaluations under two hysteresis settings.
SPECIFICATION Spec
CONSTANTS
  Policies <- TwoSettings
  MaxTick = 4
  MaxInARow = 4
INVARIANTS TypeOK FenceHoldsRestriction
PROPERTIES RelaxationEarned
