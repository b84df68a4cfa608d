SPECIFICATION Spec
CONSTANTS
  h1 = h1
  h2 = h2
  t1 = t1
  n1 = n1
  None = None
  Handlers = {h1, h2}
  Ticks = {t1}
  Nodes = {n1}
  MaxTime = 2
  Warning = 0
  Critical = 1
  MaxRetries = 1
SYMMETRY Symmetry
CHECK_DEADLOCK FALSE
INVARIANTS
  TypeOK
  AlertsAreOvertakings
  MemoryNeverAlerts
  ToldIsStored
  AlertFollowsHeartbeat
