SPECIFICATION Spec
CONSTANTS
  NoTask = NoTask
  Tasks = {t1, t2}
  Chats = {}
  Kinds = {"remote", "in_sight"}
  MaxIterations = 1
  MaxResets = 0
  MaxBadImages = 0
  MaxRaises = 0
INVARIANT TrackedTaskWasSent
