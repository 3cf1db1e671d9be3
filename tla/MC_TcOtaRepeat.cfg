SPECIFICATION SessionSpec
CONSTANTS
  PAGE = 2
  SECTOR = 3
  IMAGE_SIZE = 9
  UPDATE_MAX = 6
  a = a
  b = b
  Zero = a
  Blank = Blank
  Token = {a, b}
  Frames <- MCFrames
  MaxFrame = 2
  Image <- MCImage
  Packet = 3
  Resume = "repeat"
  MaxFail = 1
INVARIANT DoneIsWhole
