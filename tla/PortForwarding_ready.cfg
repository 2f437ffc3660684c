CONSTANTS
  Vmids = {1, 2}
  Ips = {51, 52}
  Defaults <- MCOneDefault
  CustomExts = {30000, 30001}
  Internals = {22}
  Subnets = {}
  MaxCustom = 1
  Faults = {"check", "refuse", "lost", "create"}
  Early = FALSE
SPECIFICATION Spec
INVARIANTS
  RulesBacked
  OneTarget
PROPERTIES
  RollbackRestores
