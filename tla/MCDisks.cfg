SPECIFICATION MCSpec
CONSTANTS
  MinReserve = 2
  Hole = 2
  Garbage = 2
  MaxWrites = 3
  MaxReaders = 2
  MaxFaults = 2
  MaxChunks = 3
  MaxChunk = 3
  MaxRows = 2
  MaxErrors = 1
INVARIANTS
  WriterIsAlone
  WrittenIsInTheFile
  PaddingIsCutOff
  BodyInOrder
  ZeroIsTheEnd
  EncodedIsDecodable
  TornIsRefused
CHECK_DEADLOCK FALSE
