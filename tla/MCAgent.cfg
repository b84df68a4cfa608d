SPECIFICATION FairSpec
CONSTANTS
  e1 = e1
  e2 = e2
  e3 = e3
  bad = bad
  w1 = w1
  Events = {e1, e2, e3, bad}
  Malformed = {bad}
  Workers = {w1}
  ChanCap = 2
  BatchSize = 2
CHECK_DEADLOCK FALSE
INVARIANTS
  TypeOK
  EventsAreAccounted
  StoredOnceInOrder
  CleanExit
PROPERTIES
  NothingHangs
