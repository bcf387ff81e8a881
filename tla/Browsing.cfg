CONSTANTS
  QueueOf <- TwoQueues
  Library <- OneFolder
  PageSize = 2
  Ahead = 1
  Deltas <- OneRow
  Capacity = 2
  MaxActs = 4
SPECIFICATION Spec
INVARIANTS TypeOK RowsInPlace ListIsCurrent
PROPERTY PlaylistsAreFound
CHECK_DEADLOCK FALSE
