SPECIFICATION Spec
CONSTANTS
  NoTask = NoTask
  Tasks = {t1, t2}
  Chats = {c1}
  Kinds = {"remote"}
  MaxIterations = 1
  MaxResets = 0
  MaxBadImages = 0
  MaxRaises = 0
SYMMETRY Symmetry
INVARIANT OneUnacknowledgedTask
