SPECIFICATION Spec
CONSTANTS
  NoTask = NoTask
  Tasks = {t1, t2}
  Chats = {c1, c2}
  Kinds = {"remote", "in_sight", "continuous"}
  MaxIterations = 1
  MaxResets = 0
  MaxBadImages = 0
  MaxRaises = 1
SYMMETRY Symmetry
PROPERTY LoopStallsOnlyByRaise
INVARIANT ConfirmedMeansStarted
CHECK_DEADLOCK FALSE
