SPECIFICATION FairSpec
CONSTANTS
  Capacity = 2
  ResultCapacity = 2
  RetryBelow = 1
  PollBelow = 2
  GroupSize = 1
  MaxPresses = 0
  MaxOutages = 1
  MaxMoves = 1
PROPERTY NewAddressIsFound
CHECK_DEADLOCK FALSE
