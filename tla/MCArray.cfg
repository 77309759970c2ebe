SPECIFICATION MCSpec
CONSTANTS
  MaxChunks = 3
  MaxLen = 2
  MaxItems = 3
  MaxSkip = 2
  MaxFutures = 2
  SizeGuess = 2
  MaxSecrets = 5
  MaxWidth = 2
  MaxContainers = 3
INVARIANTS
  KeysTileEntries
  RefusesOnlyOutside
  IterEndsAtTheEnd
  ShrinkKeepsTheQuery
  PositionStaysInside
  SecretKeysTile
  BuildsInOrder
PROPERTIES
  ImplementsFlatArray
  BuildEnds
CHECK_DEADLOCK FALSE
