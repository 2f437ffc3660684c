CONSTANTS
  j1 = j1
  j2 = j2
  j3 = j3
  user = user
  admin = admin
  Jobs = {j1, j3}
  Users <- MCUsers
  JobUser <- MCJobUser
  Limited = {user}
  MaxVms = 1
  Vmids = {100, 101, 102}
  MaxProbes = 2
  Ips = {100, 101}
  Faults = {"clone", "slow", "stuck", "gateway", "lost", "pve", "db"}
  Deletable = {j1}
  MaxCrashes = 1
SPECIFICATION Spec
INVARIANTS
  TypeOK
  UserVmLimit
  AddressesUnique
  VmidOnlyWhenCompleted
PROPERTIES
  TerminalStable
CHECK_DEADLOCK FALSE
