CONSTANTS
  j1 = j1
  j2 = j2
  j3 = j3
  user = user
  admin = admin
  Jobs = {j1, j2, j3}
  Users <- MCUsers
  JobUser <- MCJobUser
  Limited = {user}
  MaxVms = 2
  Vmids = {100, 101, 102}
  MaxProbes = 2
  Ips = {100, 101}
  Faults = {"slow", "gateway", "start"}
  Deletable = {}
  MaxCrashes = 2
SPECIFICATION FairSpec
INVARIANTS
  NoJobLost
  ReadyServed
PROPERTIES
  StartedInOrder
  EveryJobDecided
CHECK_DEADLOCK FALSE
