SPECIFICATION Spec
CONSTANTS
  Browser = {b1, b2}
  Provider = {google, microsoft}
  Enabled = {google, microsoft}
  State = {s1, s2}
  Code = {k1, k2}
  Req = {r1, r2}
  None = None
  Denied = Denied
SYMMETRY Interchangeable
INVARIANTS OAuthTypeOK SignedInWhereBegun
PROPERTIES CodeSignsInOnce RefusedForAReason AnsweredStateIsDead
CHECK_DEADLOCK FALSE
