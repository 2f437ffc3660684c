CONSTANTS
  Vms = {v1, v2}
  Day = 2
  Lease = 1
  Extension = 3
  Window = 1
  Grace = 1
  Soon = 1
  Keep = 4
  MaxNow = 11
  Faults = {"stop"}
SPECIFICATION Spec
SYMMETRY MCSymmetry
INVARIANTS
  TypeOK
  ExpiredIsDown
  LeaseBounded
PROPERTIES
  DeletedOnlyOverdue
  
