SPECIFICATION Spec
CONSTANTS
  NoTask = NoTask
  Tasks = {t1, t2}
  Chats = {c1}
  Kinds = {"remote", "continuous"}
  MaxIterations = 1
  MaxResets = 0
  MaxBadImages = 0
  MaxRaises = 0
SYMMETRY Symmetry
PROPERTY StaleTerminalTouchesNothing
CHECK_DEADLOCK FALSE
