\* a and b are chunked (chunks of 2 and 3 bytes), w is one-shot; f is a foreign
\* header that a reader accepts, g one whose chunk size is out of range.
CONSTANTS
  a = a
  b = b
  w = w
  f = f
  g = g
  Junk = Junk
  Artifacts = {a, b, w}
  Foreign = {f, g}
  OneShot = {w}
  ChunkSize <- MCChunkSize
  Sizes = {0, 1, 6, 7}
  MinChunk = 2
  HeaderSize = 2
  HeaderMax = 4
  Tag = 1
  MaxChunks = 3
  MaxFaults = 1
SPECIFICATION Spec
INVARIANTS
  TypeOK
  SealedOnce
  ReleasedInOrder
  WholeOnSuccess
  OnlyIntactDecrypts
  IntactDecrypts
CHECK_DEADLOCK FALSE
