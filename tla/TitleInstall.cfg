SPECIFICATION FoldersSpec
CONSTANTS
  Tags = {v1, b2}
  Builds = {b2}
  None = None
  Shipped = 1
  MaxPlays = 3
  MaxFaults = 2
  InRoots = {"home", "ssd"}
  BuiltinApps = "home"
  NoRoot = "nowhere"
  Shapes = {"build", "appimage"}
  MaxTag = 1
  MaxSaves = 2
  MaxMoveFaults = 1
  MaxEdits = 1
INVARIANTS
  SavesFollow
  OneStory
  StaysPlayable
  SavesMoveAlong
CHECK_DEADLOCK FALSE
