SPECIFICATION FairSpec
CONSTANTS
  Groups = {downstairs, upstairs}
  Playlists = {morning, evening}
  Others = others
  Empty = empty
  None = None
  FirstGroup = downstairs
  Capacity = 4
  ResultCapacity = 4
  PollBelow = 1
  MaxEvents = 1
  MaxActs = 2
INVARIANTS TypeOK PendingIsUnderWay
PROPERTIES LabelFollowsSource ChangedQueueLosesLabel
CHECK_DEADLOCK FALSE
