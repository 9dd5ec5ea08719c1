SPECIFICATION WebSpec
CONSTANTS
  User = {ann}
  Verified = {ann}
  Password = {p1, p2}
  Key = {k1}
  Req = {r1, r2}
  Browser = {b1}
  None = None
  Keep = Keep
  Clear = Clear
  MaxTime = 1
  RefreshTTL = 2
  AccessTTL = 1
  ResetTTL = 1
  MaxFaults = 0
PROPERTIES LogoutRevokes
CHECK_DEADLOCK FALSE
