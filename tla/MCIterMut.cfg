SPECIFICATION Spec
CONSTANTS
  Torn = Torn
  Iterator = Iterator
  MaxChunks = 3
  MaxLen = 2
  MaxItems = 2
  MaxSkip = 1
  MaxWrites = 2
  MaxFailures = 2
INVARIANTS
  HandlesNameTheirItems
  NoSilentLoss
PROPERTY
  DropsFlushAlone
CHECK_DEADLOCK FALSE
