SPECIFICATION Spec
CONSTANTS
  User = {ann}
  Verified = {ann}
  Password = {p1, p2}
  Key = {k1}
  Req = {r1, r2}
  None = None
  MaxTime = 2
  RefreshTTL = 2
  ResetTTL = 1
  MaxFaults = 1
SYMMETRY Interchangeable
INVARIANTS TypeOK RetiredIsRevoked SpentIsUsed
PROPERTIES DepartureIsFinal OnlyLoginReopens LedgerSpec
CHECK_DEADLOCK FALSE
