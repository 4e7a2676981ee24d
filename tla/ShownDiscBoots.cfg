SPECIFICATION ChoicesSpec
CONSTANTS
  Discs = {1, 2}
  Packs = {"p"}
  MaxChoices = 2
  MaxFailed = 0
PROPERTY ShownDiscBoots
CHECK_DEADLOCK FALSE
