SPECIFICATION FairSpec
CONSTANTS
  NoTask = NoTask
  Tasks = {t1, t2, t3}
  Chats = {}
  Kinds = {"remote", "in_sight", "memory", "check"}
  MaxIterations = 1
  MaxResets = 0
  MaxBadImages = 1
  MaxRaises = 1
INVARIANT OneUnacknowledgedTask
INVARIANT LiveTaskTracked
INVARIANT ConfirmedMeansStarted
PROPERTY ImplementsImageLoop
CHECK_DEADLOCK FALSE
