SPECIFICATION Spec
CONSTANTS
  kitchen = kitchen
  office = office
  gA = gA
  gB = gB
  gC = gC
  Rooms = {kitchen, office}
  GroupIds = {gA, gB, gC}
  Households <- TwoRooms
  None = None
  MaxRefreshes = 1
PROPERTY RefreshKeepsCard
CHECK_DEADLOCK FALSE
