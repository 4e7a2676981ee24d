SPECIFICATION SaveSyncSpec
CONSTANTS
 Romm = FALSE
 CopyFails = FALSE
 Emulators = FALSE
 Bridges = {"link"}
 MaxPlays = 2
 MaxClock = 3
 MaxChores = 2
 MaxNoise = 1
 LateUpdates = TRUE
INVARIANT SavesOutliveUpdates
CHECK_DEADLOCK FALSE
