SPECIFICATION FairSpec
CONSTANTS
  BufferMinSizes = {0, 2}
  MaxBytes = 4
  MaxChunk = 3
  MaxFlushes = 2
  MaxErrors = 2
  MaxEmpty = 1
INVARIANTS
  BytesInOrder
  PendingAccounted
  RetryHandshake
  FlushedCommandsAreWritten
PROPERTIES
  ThreadEnds
  RetryIsTaken
CHECK_DEADLOCK FALSE
