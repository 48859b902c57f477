SPECIFICATION FairSpec
CONSTANTS
  Conns = {c1, c2}
  Keys = {k1}
  Owner <- MCOwner
  None = None
  Stop = Stop
  TTL = 2
  Interval = 2
  WarnSize = 0
  MinVersion = 3
  Delay = 1
  MaxTime = 3
  MaxMessages = 1
INVARIANT RegistryListsLive
PROPERTY OpensRecentlyGranted
PROPERTY WarningsApart
PROPERTY StoppedBrainsTakeNothing
PROPERTY DroppedIsClosed
