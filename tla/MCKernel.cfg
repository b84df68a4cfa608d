SPECIFICATION FairSpec
CONSTANTS
  p1 = p1
  p2 = p2
  g1 = g1
  c1 = c1
  c2 = c2
  Free = Free
  Posts = {p1, p2}
  Gets = {g1}
  Conns = {c1, c2}
  MaxTime = 2
  MaxLevel = 3
  Batches <- MCBatches
CHECK_DEADLOCK FALSE
INVARIANTS
  FeedIsCausal
  OneFailureOneEvent
  PredictionsMatchFeed
  AnnouncedThenListed
PROPERTIES
  AllAnswered
