CONSTANTS
  Vmids = {1}
  Ips = {51}
  Defaults <- MCTcpDefault
  CustomExts = {30000}
  Internals = {22}
  Subnets = {}
  MaxCustom = 1
  Faults = {"check", "refuse", "lost", "rollback", "remove", "create"}
  Early = TRUE
SPECIFICATION Spec
INVARIANTS
  TypeOK
  CustomPortServed
