SPECIFICATION FairSpec
CONSTANTS
  MaxBufferSize = 3
  OverflowTimeout = 1
  WriteTimeout = 1
  DisconnectTimeout = 1
  ChunkBytes = 2
  ChunkBuffers = 2
  BufferSizes = {1, 3}
  MaxBytes = 5
INVARIANTS
  TypeOK
  NoStall
  OverflowExact
  FailedOnce
  ShutdownFlushes
PROPERTIES
  StreamSpec
  DisconnectCompletes
CHECK_DEADLOCK FALSE
