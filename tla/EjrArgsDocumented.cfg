\* A host that does with its lists what each of the texts says.
CONSTANTS
  Args = {a1, a2, a3, a4}
  Lists = {l1, l2}
  NoArg = NoArg
  NoList = NoList
  MaxCount = 2
  MaxDepth = 1
SPECIFICATION Spec
SYMMETRY Symmetry
CHECK_DEADLOCK FALSE
INVARIANTS
  ListsAsDocumented
