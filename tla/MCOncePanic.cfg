SPECIFICATION FairSpec
CONSTANTS
  Futures = {f1, f2, f3}
  Values = {a, b}
  NoValue = NoValue
  MaxCalls = 1
  MaxFailures = 1
INVARIANT NoPanic
CHECK_DEADLOCK FALSE
