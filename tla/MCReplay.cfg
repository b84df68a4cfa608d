SPECIFICATION Spec
CONSTANTS
  Absent = Absent
  Events <- MCEvents
  Queries <- MCQueries
  Start = 4
  MaxTime = 6
  Ms = 2
  Hour = 2
  Retention = 3
  DefaultSize = 2
  StableUpTo = 3
CHECK_DEADLOCK FALSE
INVARIANTS
  RepeatsAreExplained
  NothingIsSkipped
  PagesAreInOrder
