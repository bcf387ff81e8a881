SPECIFICATION Spec
CONSTANTS
  Groups = {downstairs, upstairs}
  Playlists = {morning, evening}
  Others = others
  Empty = empty
  None = None
  FirstGroup = downstairs
  Capacity = 4
  ResultCapacity = 4
  PollBelow = 1
  MaxEvents = 0
  MaxActs = 2
INVARIANT LabelIsOfGroup
CHECK_DEADLOCK FALSE
