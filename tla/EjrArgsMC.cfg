\* A host that hands over only what it owns: four JSArgs, two lists, calls and callbacks nested to three.
CONSTANTS
  Args = {a1, a2, a3, a4}
  Lists = {l1, l2}
  NoArg = NoArg
  NoList = NoList
  MaxCount = 2
  MaxDepth = 3
SPECIFICATION Spec
SYMMETRY Symmetry
CHECK_DEADLOCK FALSE
INVARIANTS
  TypeOK
  OwnedOnce
  NothingUnreachable
  MemorySafe
