SPECIFICATION FairSpec
CONSTANTS
  c1 = c1
  c2 = c2
  h1 = h1
  NoMsg = NoMsg
  Conns = {c1, c2}
  Prompt = {c1}
  Callers = {h1}
  MaxCalls = 3
  QueueCap = 1
  SendCap = 1
CHECK_DEADLOCK FALSE
INVARIANTS
  TypeOK
  NeverPanics
  GapFree
PROPERTIES
  DropsOnlyLaggards
  ImplementsFeed
  NobodyWaits
  EndedIsReleased
  PromptCatchesUp
