SPECIFICATION FairSpec
CONSTANTS
  Futures = {f1, f2, f3}
  Values = {a, b}
  NoValue = NoValue
  MaxCalls = 2
  MaxFailures = 1
INVARIANTS
  SingleInitialiser
  ReturnsTheValue
  WaiterIsQueued
PROPERTIES
  ImplementsOnceCell
  EveryCallEnds
CHECK_DEADLOCK FALSE
