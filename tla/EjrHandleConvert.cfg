\* A host that converts whatever value it likes, once, and then frees the handle.
CONSTANTS
  Objects = {o1, o2}
  MaxIds = 2
  MaxDepth = 1
  MaxHeld = 1
  HostRules = {"no_release_in_use"}
SPECIFICATION Spec
SYMMETRY Symmetry
CHECK_DEADLOCK FALSE
INVARIANTS
  NoOverRelease
