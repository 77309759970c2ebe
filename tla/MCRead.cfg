SPECIFICATION FairSpec
CONSTANTS
  Tasks = {t1, t2}
  NoTask = NoTask
  FileLen = 4
  BufferSizes = {0, 1, 2}
  MaxErrors = 1
INVARIANTS
  BytesInOrder
  EofIsEof
  SendFindsThreadIdle
PROPERTIES
  PollAnswered
CHECK_DEADLOCK FALSE
