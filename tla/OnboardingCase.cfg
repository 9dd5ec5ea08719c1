SPECIFICATION Spec
CONSTANTS
  one = one
  other = other
  Account = {a1, a2}
  Address = {one, other}
  Lower <- ToLower
  External = {x1}
  Req = {r1, r2}
  None = None
  AutoVerify = FALSE
  MaxFaults = 0
PROPERTIES JoinsExistingAccount
CHECK_DEADLOCK FALSE
