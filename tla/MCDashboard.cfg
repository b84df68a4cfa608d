SPECIFICATION FairSpec
CONSTANTS
  MaxRetries = 2
  Cap = 2
  MaxSwitches = 1
  MaxDrops = 1
  MaxMessages = 3
  MaxDismissals = 2
CHECK_DEADLOCK FALSE
INVARIANTS
  OnlySupersededAreLost
  ChartAppendsOnce
  AlertsWaitForDismissal
  StatusIsTrue
PROPERTIES
  StreamSettles
