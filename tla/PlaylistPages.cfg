CONSTANTS
  QueueOf <- NoQueue
  Library <- PlaylistsOnly
  PageSize = 1
  Ahead = 1
  Deltas <- Down
  Capacity = 2
  MaxActs = 6
SPECIFICATION Spec
INVARIANT PlaylistsHaveNoGap
CHECK_DEADLOCK FALSE
