SPECIFICATION FairSpec
CONSTANTS
  Values = {a, b, c}
  Parts = {v}
  a = a
  b = b
  c = c
  v = v
  None = none
  MaxHandles = 1
  MaxRefs = 3
INVARIANTS CountsExact NoDangling OnlyGarbageGoes AssertsHold
CHECK_DEADLOCK FALSE
PROPERTIES ImplementsHeap EngineEnds
