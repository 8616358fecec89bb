SPECIFICATION Spec
CONSTANTS
  MaxPromises = 2
  MaxThens = 2
  MaxChain = 0
  MaxFrames = 2
  undefined = undefined
  error = error
  Undefined = undefined
  TypeError = error
  Values <- MCValues
  Thenable = thenable
  BadThen = badthen
  Drains = FALSE
INVARIANT AwaitWaits
CHECK_DEADLOCK FALSE
