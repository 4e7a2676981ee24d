SPECIFICATION InstallRootsSpec
CONSTANTS
  InRoots = {"home", "ssd"}
  BuiltinApps = "home"
  NoRoot = "nowhere"
  Shapes = {"build", "appimage"}
  MaxTag = 1
  MaxSaves = 2
  MaxMoveFaults = 1
  MaxEdits = 1
PROPERTY KeepSavesKeeps
CHECK_DEADLOCK FALSE
