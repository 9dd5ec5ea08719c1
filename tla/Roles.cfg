SPECIFICATION Spec
CONSTANTS
  admin = admin
  chef = chef
  User = {ann}
  Client = {c1}
  Req = {r1, r2}
  None = None
  Text = {admin, chef}
  AdminText = admin
  Name <- Names
  MaxTime = 2
  AccessTTL = 1
  MaxFaults = 1
SYMMETRY Interchangeable
INVARIANTS RolesTypeOK OneRoleOpensTheGate GrantsHold PowerFadesInTime
CHECK_DEADLOCK FALSE
