CONSTANTS
  Vms = {v1, v2, v3}
  Ips = {i1, i2}
  Subdomains = {s1, s2, s3}
  Ports = {p1}
  MaxRoutes = 2
  MaxStale = 2
  Faults = {"call", "db"}
SPECIFICATION Spec
SYMMETRY MCSymmetry
INVARIANTS
  TypeOK
  SyncedIsServed
CHECK_DEADLOCK FALSE
