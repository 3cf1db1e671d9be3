SPECIFICATION FairSpec
CONSTANTS
  Idx = {0, 1}
  NoIdx = 255
  NONE = NONE
  GOOGLE = GOOGLE
  AMANZON = AMANZON
  TRY_MAX = 1
  MaxEvents = 1
  MaxFrames = 2
INVARIANTS Reachable OneClient RequestInHand
PROPERTIES ReplyIsToAsker CreateAnswered
