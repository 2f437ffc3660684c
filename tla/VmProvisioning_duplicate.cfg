CONSTANTS
  j1 = j1
  j2 = j2
  j3 = j3
  user = user
  admin = admin
  Jobs = {j1}
  Users <- MCUsers
  JobUser <- MCJobUser
  Limited = {user}
  MaxVms = 2
  Vmids = {100, 101, 102}
  MaxProbes = 2
  Ips = {100, 101}
  Faults = {}
  Deletable = {}
  MaxCrashes = 1
SPECIFICATION Spec
INVARIANTS
  OneVmPerJob
CHECK_DEADLOCK FALSE
