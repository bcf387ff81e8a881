SPECIFICATION FairSpec
CONSTANTS
  kitchen = kitchen
  office = office
  attic = attic
  downstairs = downstairs
  upstairs = upstairs
  Rooms = {kitchen, office, attic}
  Groups = {downstairs, upstairs}
  Members <- Household
  Coordinator <- Coordinators
  Mean <- Average
  Relative = {downstairs}
  FirstGroup = downstairs
  MaxVolume = 2
  Step = 1
  Loudness <- AtFirst
  Capacity = 4
  ResultCapacity = 4
  PollBelow = 1
  MaxEvents = 1
  MaxActs = 2
INVARIANTS TypeOK CardShowsTarget RequestsLand
PROPERTY NumbersSettle
CHECK_DEADLOCK FALSE
