CONSTANTS
  Reserved = 1
  InitialSize = 1
  Data = {0, 255}
  WordSizes = {1, 2}
  MaxPut = 2
  MaxRead = 2
  MaxCaps = 6
  SizeArray <- MCSizeArray
  PoolSize = 2
  ChunkSize = 2
  Alignment = 2
  MaxCapacity = 13
  InitSizes = {6, 7, 10}
  IncrSizes = {0, 3}
  AllocSizes = {1, 3}
  MaxBlocks = 2
  Vars = {1, 2, 3}
  AnyValues <- MCValues
  Cells = {1, 2, 3, 4}
  Octets = {0, 1, 62, 77, 128, 255}
  MaxBytes = 4
  Text = {0, 43, 45, 47, 61, 65, 122}
  MaxText = 3
  Plain <- MCPlain
  RsaLens = {5, 6, 7}
  BuffLen = 5
  DecryptMax = 7
  MaxPieces = 2
  MaxFds = 2
  MaxRsaCalls = 3
SPECIFICATION MCSpec
INVARIANTS RoundTrip RsaIsSound
PROPERTIES BufferIsQueue PoolsAreSound AnyIsValue Returns
CHECK_DEADLOCK FALSE
