SPECIFICATION FairSpec
CONSTANTS
  a = a
  b = b
  c = c
  Modules = {a, b, c}
  None = None
  Graphs <- MCGraphs
  Reentry = FALSE
INVARIANTS AssertsHold LinkedTogether DependenciesFirst PromiseAnswers NoWakeupLost
PROPERTIES RunsOnce TraversalsEnd
