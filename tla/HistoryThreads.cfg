SPECIFICATION FairSpec
CONSTANTS
  NUM_HISTORY_TO_SUMMARIZE = 1
  Threads = {s1, s2}
  MaxAdds = 7
  MaxResets = 1
INVARIANT SummarizersBounded
INVARIANT BatchStillThere
PROPERTY SwapLosesOnlyLateAdds
PROPERTY SummarizingEnds
CHECK_DEADLOCK FALSE
