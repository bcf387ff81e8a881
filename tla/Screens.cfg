CONSTANTS
  Essential = {"Back", "Confirm", "ExitButton"}
  Plain = {"Queue", "Playlists"}
  Shortcuts = {"Menu", "Rooms"}
  MaxActs = 5
  MaxJumps = 2
SPECIFICATION Spec
INVARIANTS TypeOK QuestionsAreMeant
PROPERTY NoDeadEnd
CHECK_DEADLOCK FALSE
