SPECIFICATION FairSpec
CONSTANTS
  NoTask = NoTask
  Tasks = {t1}
  Chats = {c1}
  Kinds = {"memory", "continuous"}
  MaxIterations = 2
  MaxResets = 1
  MaxBadImages = 1
  MaxRaises = 1
INVARIANT TypeOK
PROPERTY LoopStallsOnlyByRaise
PROPERTY LoopProgress
CHECK_DEADLOCK FALSE
