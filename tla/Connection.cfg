SPECIFICATION FairSpec
CONSTANTS
  Capacity = 2
  ResultCapacity = 2
  RetryBelow = 1
  PollBelow = 2
  GroupSize = 1
  MaxPresses = 1
  MaxOutages = 1
  MaxMoves = 1
INVARIANTS TypeOK ColdHasAPlan OneDiscovery
PROPERTY ColdConnects
CHECK_DEADLOCK FALSE
