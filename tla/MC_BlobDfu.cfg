CONSTANTS
  Ids = {i1, i2}
  NoId = NoId
  BlobSizes = {3, 5, 8, 9}
  BlockSizes = {0, 1, 3, 4}
  Mtus = {1, 4}
  ChunkSizes = {0, 1, 2}
  MaxChunkSize = 2
  MaxChunks = 3
  MaxBlocks = 3
  Bits = 2
  ReplyBlocks = 2
  BYTE = 4
  WORD = 8
SPECIFICATION Spec
INVARIANTS BitmapTrue BlockWhole PhasesAgree
PROPERTY ImplementsTransfer
