SPECIFICATION Spec
CONSTANTS
  MaxPromises = 3
  MaxThens = 2
  MaxChain = 1
  MaxFrames = 2
  undefined = undefined
  error = error
  Undefined = undefined
  TypeError = error
  Values <- MCValues
  Thenable = thenable
  BadThen = badthen
  Drains = TRUE
INVARIANTS OneChance NoPromiseForgotten EachReactionOnce OneResume AdoptsOutcome
CHECK_DEADLOCK FALSE
