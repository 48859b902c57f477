SPECIFICATION FairSpec
CONSTANTS
  Skills = {drive, wave}
  Locals = {goto_in_sight}
  Navigate = drive
  MaxRetries = 10
  NoTask = NoTask
INVARIANT NobodyLeftBehind
INVARIANT RetriesBounded
PROPERTY NothingLost
PROPERTY TasksRegistered
PROPERTY CallEnds
CHECK_DEADLOCK FALSE
