SPECIFICATION Spec
CONSTANTS
  one = one
  other = other
  Account = {a1, a2}
  Address = {one, other}
  Lower <- AsIs
  External = {x1}
  Req = {r1, r2}
  None = None
  AutoVerify = FALSE
  MaxFaults = 1
SYMMETRY Interchangeable
INVARIANTS OnboardingTypeOK EntersLinkedAccount UnverifiedKeepsTicket AttachedOnlyIfCertified
PROPERTIES DeletedIsJoinedNoMore DirectorySpec
CHECK_DEADLOCK FALSE
