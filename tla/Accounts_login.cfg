CONSTANTS
  Emails = {e1}
  Projects = {p1}
  Clients = {c1, c2}
  MaxAttempts = 1
  MaxCodes = 2
  Faults = {"db"}
  Logins = {l1, l2}
  Callbacks = {k1, k2}
  StoreLimit = 0
SPECIFICATION Spec
SYMMETRY MCSymmetry
INVARIANTS
  OAuthTypeOK
  OneRecordPerRole
  
  PasswordByOwnCode
  OneSessionPerLogin
  OAuthAccountsHaveNoPassword
CHECK_DEADLOCK FALSE
