SPECIFICATION RolloutFairSpec
CONSTANTS
  Pod = {a1, a2, b1, b2}
  OldPod = {a1, a2}
  Replicas = 2
  MaxSurge = 1
  MaxUnavailable = 0
  MaxRetries = 2
  MaxOutages = 1
  MaxCrashes = 1
INVARIANTS StartupTypeOK RepositoryMatchesConnection ReadyPodsAnswer
PROPERTIES EveryPodServes DialingEnds RolloutCompletes
CHECK_DEADLOCK FALSE
