SPECIFICATION FairSpec
CONSTANTS
  FULL = 1
  LEVEL_MAX = 2
  LEVEL_MIN = 1
  TEMP_MIN = 1
  TEMP_MAX = 3
  BYTE = 3
  WORD = 4
  Requests = {0, 1}
  Fades = {2}
  InitFade = 0
  Temps = {1, 3}
  Colours = {2}
INVARIANTS AtRestAsSet WhiteInBudget
PROPERTIES NeverBack ComesToRest
