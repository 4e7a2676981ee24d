SPECIFICATION FairSpec
CONSTANTS
  a = a
  b = b
  psx = psx
  snes = snes
  Titles <- MCTitles
  Platforms <- MCPlatforms
  PlatformOf <- MCPlatformOf
  Roots = {r1, r2}
  DefaultRoot = r1
  NoTitle = NoTitle
  AllPlatforms = AllPlatforms
  NoRoot = NoRoot
  NoJob = NoJob
  MaxRequests = 3
INVARIANTS
  TagNamesWorker
  SlotIsHeld
PROPERTIES
  ImplementsService
  QueueDrains
  ExitFollowsRestart
CHECK_DEADLOCK FALSE
