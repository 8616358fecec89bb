SPECIFICATION Spec
CONSTANTS
  a = a
  b = b
  c = c
  Modules = {a, b}
  None = None
  Graphs <- TwoModules
  Reentry = TRUE
INVARIANT AssertsHold
