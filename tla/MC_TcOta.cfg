SPECIFICATION MCSpec
CONSTANTS
  PAGE = 2
  SECTOR = 3
  IMAGE_SIZE = 6
  UPDATE_MAX = 5
  a = a
  b = b
  Zero = a
  Blank = Blank
  Token = {a, b}
  Frames <- MCFrames
  MaxFrame = 2
  Image <- MCImage
  Packet = 3
  Resume = "start"
  MaxFail = 3
INVARIANTS ErasedAhead AckedIsHeld DoneIsWhole
PROPERTIES FirstPageLast BodySealed ImplementsTransfer SessionEnds
CHECK_DEADLOCK FALSE
