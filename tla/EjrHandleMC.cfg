\* A careful host: two cells, four ids, one callback inside one call.
CONSTANTS
  Objects = {o1, o2}
  MaxIds = 4
  MaxDepth = 2
  MaxHeld = 1
  HostRules = {"plain_conversions", "no_release_in_use"}
SPECIFICATION Spec
SYMMETRY Symmetry
\* A closed process (aborted, terminated) really stops.
CHECK_DEADLOCK FALSE
INVARIANTS
  TypeOK
  RefsAccounted
  BorrowedAlive
PROPERTIES
  ImplementsSession
