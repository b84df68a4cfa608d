SPECIFICATION Spec
CONSTANTS
  MaxRetries = 5
  Cap = 2
  MaxSwitches = 1
  MaxDrops = 1
  MaxMessages = 3
  MaxDismissals = 2
CHECK_DEADLOCK FALSE
PROPERTY LostIsRetried
