\* A host that calls whatever it likes: three ids, three errors, one kept reason
\* that several promises may share and one of its own.
CONSTANTS
  MaxIds = 3
  MaxErrors = 3
  Reasons = {r1, r2}
SYMMETRY AnyReason
SPECIFICATION Spec
CHECK_DEADLOCK FALSE
INVARIANTS
  TypeOK
  ReportsOwnError
  ErrorReportedOnce
PROPERTIES
  LostErrorsStayLost
