CONSTANTS
  Requests = {r1, r2, r3}
  Names = {n1, n2, n3}
  AutoNames = {2, a1}
  MaxManual = 2
  MaxTotal = 3
  MaxDay = 3
  PostgreSQL = TRUE
  Faults = {"task", "db"}
SPECIFICATION Spec
SYMMETRY MCSymmetry
INVARIANTS
  TypeOK
  SnapshotLimit
PROPERTIES
  AutosReplaced
CHECK_DEADLOCK FALSE
