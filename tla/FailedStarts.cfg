SPECIFICATION Spec
CONSTANTS
  Groups = {downstairs}
  Playlists = {morning, evening}
  Others = others
  Empty = empty
  None = None
  FirstGroup = downstairs
  Capacity = 2
  ResultCapacity = 3
  PollBelow = 1
  MaxEvents = 2
  MaxActs = 4
INVARIANT FailedStartLeavesNoLabel
CHECK_DEADLOCK FALSE
