CONSTANTS
  Clients = {c1, c2, c3}
  Functions = {f1, f2, f3, f4}
  Triggers = {t1}
  Exprs = {e1, e2}
  MaxFunctions = 1
  MaxCrashes = 1
  Faults = {"db"}
SPECIFICATION Spec
SYMMETRY MCSymmetry
INVARIANTS
  TypeOK
  
  
  FunctionLimit
CHECK_DEADLOCK FALSE
