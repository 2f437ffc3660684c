CONSTANTS
  j1 = j1
  j2 = j2
  j3 = j3
  user = user
  admin = admin
  Jobs = {j1, j2, j3}
  Users <- MCUsers
  JobUser <- MCJobUser
  Limited = {user}
  MaxVms = 1
  Vmids = {100, 101, 102}
  MaxProbes = 2
  Ips = {100, 101}
  Faults = {"reject", "clone", "slow", "config", "start"}
  Deletable = {j1, j2}
  MaxCrashes = 0
SPECIFICATION RetrySpec
INVARIANTS
  FailedLeavesNothing
  NoVmWithoutRecord
  NatBacked
  RunningIpsUnique
PROPERTIES
  OrdersPromise
  RowsEventuallyDeleted
CHECK_DEADLOCK FALSE
