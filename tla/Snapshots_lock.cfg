CONSTANTS
  Requests = {r1, r2}
  Names = {n1}
  AutoNames = {}
  MaxManual = 2
  MaxTotal = 3
  MaxDay = 0
  PostgreSQL = TRUE
  Faults = {}
SPECIFICATION Spec
PROPERTIES
  EveryRequestAnswered
CHECK_DEADLOCK FALSE
