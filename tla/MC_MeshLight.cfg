SPECIFICATION Spec
CONSTANTS
  FULL = 2
  LEVEL_MAX = 4
  LEVEL_MIN = 1
  TEMP_MIN = 2
  TEMP_MAX = 4
  BYTE = 4
  WORD = 8
  STEP = 3
  LIMIT_MIN = 1
  LIMIT_MAX = 5
  TEMP_DEFAULT = 3
  Requests = {0, 2, 7}
  Deltas <- MCDeltas
  Temps = {0, 1, 4}
  Colours = {2}
  Ranges <- MCRanges
  TempRanges <- MCTempRanges
  MaxAsked = 4
INVARIANTS LitWhenOn DefaultReportsOn SetSurvives MixInRange
