SPECIFICATION Spec
CONSTANTS
  h1 = h1
  h2 = h2
  n1 = n1
  None = None
  Handlers = {h1, h2}
  Ticks = {}
  Nodes = {n1}
  MaxTime = 2
  Warning = 0
  Critical = 1
  MaxRetries = 0
CHECK_DEADLOCK FALSE
INVARIANTS
  SilenceRaisesAlert
