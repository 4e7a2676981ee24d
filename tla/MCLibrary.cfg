SPECIFICATION LibrarySpec
CONSTANTS
  Titles = {1, 2, 3}
  Paths = {"a", "b", "c"}
  Contents = {"x", "y"}
  Catalogs <- MCCatalogs
  TitlePlatform <- MCTitlePlatform
  FolderPlatform <- MCFolderPlatform
  Identity <- MCIdentity
  NeedsCue <- MCNeedsCue
  MaxDumps = 3
  MaxScans = 2
  Romm = TRUE
  Emulators = TRUE
  CopyFails = TRUE
  Bridges = {"link"}
  MaxPlays = 2
  MaxClock = 3
  MaxChores = 3
  MaxNoise = 1
  LateUpdates = FALSE
  Ports = {1, 2}
  MaxTag = 2
  EngineOf <- MCEngineOf
  KeyOf <- MCKeyOf
  SlotOf <- MCSlotOf
  HasBios = TRUE
  MaxBuilds = 3
  MaxCrashes = 1
  MaxFaults = 1
  Roms = {1}
INVARIANTS
  LibraryTypeOK
  RebuildHeals
  ProgressKept
  OneRelease
  BiosFitsRuntime
CHECK_DEADLOCK FALSE
