\* A careful host and a careless one: two modules, four functions, two nested
\* callbacks.
CONSTANTS
  Names = {"a", "a_b", "ax"}
  Methods = {"c", "b_c"}
  GlobalKeys = {"print"}
  MangledKey <- MCMangledKey
  RealName <- MCRealName
  Fns = {f1, f2, f3, f4}
  Defs = {d1, d2}
  NoFn = NoFn
  NoDef = NoDef
  MaxDepth = 2
  Hosts <- MCHosts
SPECIFICATION Spec
SYMMETRY Symmetry
CHECK_DEADLOCK FALSE
INVARIANTS
  TypeOK
  BoundToOwn
  ExportsAreOwn
  HoldersHaveReferences
  CleanTeardown
  KeysFindCallbacks
PROPERTIES
  ExportsAreFinal
