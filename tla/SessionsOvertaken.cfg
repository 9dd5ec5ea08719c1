SPECIFICATION Spec
CONSTANTS
  User = {ann}
  Verified = {ann}
  Password = {p1, p2}
  Key = {k1}
  Req = {r1, r2}
  None = None
  MaxTime = 1
  RefreshTTL = 1
  ResetTTL = 1
  MaxFaults = 0
PROPERTIES NoSessionOutlivesChange
CHECK_DEADLOCK FALSE
