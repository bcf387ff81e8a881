CONSTANTS
  QueueOf <- TwoQueues
  Library <- OneFolder
  PageSize = 2
  Ahead = 1
  Deltas <- OneRow
  Capacity = 2
  MaxActs = 4
SPECIFICATION Spec
INVARIANT FavoritesHaveNoRowTwice
CHECK_DEADLOCK FALSE
