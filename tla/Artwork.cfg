CONSTANTS
  None = None
  c1 = c1
  c2 = c2
  Covers = {c1, c2}
  Browsers = {"Playlists"}
  VisibleRows = 1
  MaxRows = 2
  Capacity = 2
  ResultCapacity = 1
  Sizes = {1, 2}
  MaxActs = 3
  FirstSize = 2
  FirstScreen = "Queue"
  RowLists <- RowListsValue
  Photos <- PhotosValue
SPECIFICATION Spec
INVARIANTS TypeOK AwaitedIsUnderWay NoGhostCover
PROPERTIES CoversArrive WorkerStops
CHECK_DEADLOCK FALSE
