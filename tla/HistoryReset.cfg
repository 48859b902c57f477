SPECIFICATION Spec
CONSTANTS
  NUM_HISTORY_TO_SUMMARIZE = 1
  Threads = {s1, s2}
  MaxAdds = 5
  MaxResets = 1
SYMMETRY Symmetry
PROPERTY ResetForgets
CHECK_DEADLOCK FALSE
