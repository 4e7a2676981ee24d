SPECIFICATION PlaysSpec
CONSTANTS
  Slots = {1, 2}
  MaxClicks = 5
  MaxAskedClicks = 3
  MaxMovies = 2
  Discs = {1, 2}
  Packs = {"p"}
  MaxChoices = 3
  MaxFailed = 1
  Features = {1, 2}
  DefaultOn = {1}
  MaxEdits = 3
  MaxGame = 1
  MaxBroken = 1
  Games = {"g", "h"}
  MaxValues = 2
  MaxUnsaved = 1
INVARIANTS
  PlaysTypeOK
  CleanMeansSaved
PROPERTIES
  RequestSettles
  AskedFirst
  MatchRunsOn
  StartsAsChosen
  EditIsLocal
CHECK_DEADLOCK FALSE
