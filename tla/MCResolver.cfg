SPECIFICATION FairSpec
CONSTANTS
  a = a
  b = b
  None = None
  Containers = {a, b}
  Inodes = {1, 2}
  MaxPid = 2
  MaxForks = 1
  MaxFailures = 1
CHECK_DEADLOCK FALSE
INVARIANTS
  NamesAreRecent
PROPERTIES
  SteadyIsFound
  Converges
  CancelEnds
