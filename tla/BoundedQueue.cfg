SPECIFICATION QueueSpec
CONSTANTS
  Consumers = {c1, c2}
  Keys = {command, volume}
  Coalesced = {volume}
  Capacity = 2
  MaxSent = 4
INVARIANTS QueueTypeOK NoSleepBesideWork Delivery OnePendingPerKey StopIsPrompt
CHECK_DEADLOCK FALSE
