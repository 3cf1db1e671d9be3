CONSTANTS
  d = d
  a = a
  b = b
  Blank = Blank
  Torn = Torn
  Values <- MCValues
  Def = d
  RECORD_DATA_NUM = 3
  TailLen = 1
  MaxEvt = 2
  MaxSet = 5
  MaxLoss = 3
SPECIFICATION Spec
INVARIANT BackupCoversWrap
CHECK_DEADLOCK FALSE
