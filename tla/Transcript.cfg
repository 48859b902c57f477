SPECIFICATION Spec
CONSTANTS
  Contents <- MCContents
  Summaries = {"yo"}
  Plain <- MCPlain
  MULTIMODAL_HISTORY_COUNT = 4
  max_recent_generic_images = 1
  max_recent_pre_action_images = 2
  NUM_HISTORY_TO_SUMMARIZE = 2
  MaxEntries = 5
  None = None
INVARIANT NewestShown
INVARIANT LatestImagesShown
INVARIANT SameText
