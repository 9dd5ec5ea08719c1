SPECIFICATION RolloutSpec
CONSTANTS
  Pod = {a1, a2, b1, b2}
  OldPod = {a1, a2}
  Replicas = 2
  MaxSurge = 1
  MaxUnavailable = 0
  MaxRetries = 2
  MaxOutages = 0
  MaxCrashes = 0
INVARIANTS ServiceStaysReachable
CHECK_DEADLOCK FALSE
