SPECIFICATION Spec
SYMMETRY Symmetry
CONSTANTS
  Threads = {t1, t2, t3, t4}
  Values = {v1, v2, v3}
  NoValue = NoValue
  Nobody = Nobody
  MaxFailures = 2
INVARIANTS
  LoadsAgree
  MemoryIsSaved
PROPERTY
  ImplementsValueStore
CHECK_DEADLOCK FALSE
