SPECIFICATION FairSpec
CONSTANTS
  admin = admin
  client = client
  chief = chief
  eater = eater
  Pod = {p1, p2}
  Role = {admin, client}
  Account = {chief, eater}
  RoleDefs <- TwoRoles
  Users <- TwoUsers
  Manager = {chief}
  None = None
  MaxEdition = 2
  MaxFailures = 1
INVARIANTS SeederTypeOK SeededAccountsHaveRoles ManagersAreAttached SomeSeedingGoesOn
PROPERTIES SeedingConverges ValidAttachmentIsKept
CHECK_DEADLOCK FALSE
