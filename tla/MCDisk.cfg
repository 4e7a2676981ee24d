SPECIFICATION DiskSpec
CONSTANTS
  Folders = {"a"}
  Files = {"setup", "state"}
  MaxWrites = 2
  MaxMoves = 2
  Pins = {"none", "a"}
  Portable = FALSE
  Stores = {"runner", "module"}
  Updaters = {"page", "startup", "command"}
  MaxRelease = 3
  LastRelease <- MCLast
  NewMajor <- MCNewMajor
  NewLoads = 2
  DevAbi = 2
  MaxLatest = 3
  MaxSyncs = 3
  Blocks = 3
  MaxRev = 2
  Ranges = {TRUE, FALSE}
  MaxCalls = 4
  Titles = {1, 2}
  Digested = {1}
  Parts = 2
  Urls = 2
  MaxRequests = 3
  MaxOffers = 2
  MaxChanges = 3
  MaxReads = 1
  MaxCli = 1
  MaxBad = 1
  Games = {1, 2}
  Names = {"name", "other"}
  NameOf <- MCNameOf
  Launchers = {"launcher"}
  Profiles = {1, 2}
  Lines = {1, 2, 3}
  MaxEvents = 3
  Consoles = {1, 2}
  BiosTitles = {1, 2}
  BiosCatalogs <- MCBiosCatalogs
  BiosPaths = {"old", "flat"}
  Images = {"x", "y"}
  BiosRoots = {"first", "second"}
  ConsoleOf <- MCConsoleOf
  FolderOf <- MCFolderOf
  RootOf <- MCRootOf
  Kinds <- MCKinds
  Genuine <- MCGenuine
  Sized <- MCSized
  Hinted <- MCHinted
  MaxImages = 2
  MaxBiosScans = 2
INVARIANTS
  DiskTypeOK
  WorkSurvives
  MoveFindsWork
  StateNeverAhead
  OneWholeFile
  SavedIsKept
  AsRetroLeftIt
  BiosHeals
PROPERTIES
  ChoiceNeverDrops
  LoneNeverOverInUse
  SearchOutageKeepsMarks
CHECK_DEADLOCK FALSE
