SPECIFICATION Spec
CONSTANTS
  NodeCount = 3
  Ratios <- MCRatios
  Profiles <- MCProfiles
  Scenarios <- MCScenarios
  Duration = 8
  Window = 2
  Base = 1
  Intervals = {1, 2}
  Outages = {1, 2}
  MaxOutages = 1
CHECK_DEADLOCK FALSE
INVARIANTS
  QuietWhileDown
  DrainsAreReplaced
  OutputIsComplete
