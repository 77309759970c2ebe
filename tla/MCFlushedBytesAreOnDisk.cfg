SPECIFICATION FairSpec
CONSTANTS
  BufferMinSizes = {2}
  MaxBytes = 5
  MaxChunk = 3
  MaxFlushes = 2
  MaxErrors = 2
  MaxEmpty = 1
INVARIANT
  FlushedBytesAreOnDisk
CHECK_DEADLOCK FALSE
