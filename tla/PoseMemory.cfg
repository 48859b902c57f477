SPECIFICATION Spec
CONSTANTS
  Users = {u1, u2}
  Explorer = u1
  Names = {home}
  Places = {1, 3, 5, 7}
  Sees <- MCSees
  Near <- MCNear
  Visits <- MCVisits
  MaxNodes = 3
  Takes = {1}
  MaxFaults = 1
  NoImage = NoImage
  Absent = Absent
  Torn = Torn
INVARIANT Bounded
INVARIANT ImagesMatch
INVARIANT FoundWhereSeen
INVARIANT EvictsRedundantFirst
PROPERTY ImplementsStore
