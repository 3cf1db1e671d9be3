SPECIFICATION FairSpec
CONSTANTS
  Clients = {1, 2}
  Ids = {1}
  Tids = {0, 1}
  NoClient = 0
  NoId = 0
  NoTid = 255
  WRAP = 6
  WINDOW = 2
  RETRY = 1
  LOSSES = 1
PROPERTIES TakenOnce RefusedIsRepeat Answered
