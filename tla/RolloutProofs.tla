--------------------------- MODULE RolloutProofs ---------------------------
(***************************************************************************)
(* Theorems about Rollout, for every set of pods, number of replicas and   *)
(* setting of maxSurge and maxUnavailable.                                 *)
(***************************************************************************)
EXTENDS Rollout, StartupProofs, FiniteSetTheorems

RolloutTypeOK ==
  /\ phase \in [Pod -> {"absent", "old", "new", "gone"}]
  /\ ready \subseteq Old \cup New
  /\ crashes \in 0 .. MaxCrashes

\* The probe was answered by the process that still runs.
ReadyServes == \A p \in ready : main[p] = "serving"

\* As long as no container crashes, maxUnavailable bounds the pods missing.
EnoughAreReady == crashes = 0 => Cardinality(ready) >= Replicas - MaxUnavailable

RolloutInv ==
  /\ StartupInv /\ RolloutTypeOK
  /\ configured /\ migrated
  /\ ReadyServes /\ EnoughAreReady

LEMMA PodsAreFinite ==
  ASSUME NEW S \in SUBSET Pod
  PROVE  IsFiniteSet(S) /\ Cardinality(S) \in Nat
BY RolloutAssumption, FS_Subset, FS_CardinalityType

LEMMA RolloutStart == RolloutInit => RolloutInv
<1> SUFFICES ASSUME RolloutInit PROVE RolloutInv
  OBVIOUS
<1>1. StartupTypeOK
  BY StartupAssumption, RolloutAssumption DEF RolloutInit, StartupTypeOK
<1>2. ASSUME NEW p \in Pod PROVE Handshake(p)
  <2>1. CASE p \in OldPod
    <3>1. /\ dialer[p] = "done" /\ main[p] = "serving" /\ ~timedOut[p]
          /\ conn[p] /\ closed[p] /\ repo[p]
      BY <2>1 DEF RolloutInit
    <3> QED
      BY <3>1 DEF Handshake, DialingOver
  <2>2. CASE p \notin OldPod
    <3>1. dialer[p] = "off" /\ main[p] = "off" /\ ~closed[p] /\ ~repo[p]
      BY <2>2 DEF RolloutInit
    <3> QED
      BY <3>1 DEF Handshake
  <2> QED
    BY <2>1, <2>2
<1>5. phase \in [Pod -> {"absent", "old", "new", "gone"}] /\ crashes \in 0 .. MaxCrashes
  BY RolloutAssumption DEF RolloutInit
<1>6. ready \subseteq Old \cup New /\ ReadyServes
  BY RolloutAssumption DEF RolloutInit, ReadyServes, Old, New
<1>3. EnoughAreReady
  BY RolloutAssumption DEF RolloutInit, EnoughAreReady
<1>4. configured /\ migrated
  BY DEF RolloutInit
<1> QED
  BY <1>1, <1>2, <1>3, <1>4, <1>5, <1>6 DEF RolloutInv, StartupInv, RolloutTypeOK

\* Removing a pod resets it whether or not its container was running.
LEMMA ResetKeeps ==
  ASSUME StartupInv, NEW p \in Pod, Reset(p, "off", "off"), UNCHANGED <<external, migrated>>
  PROVE  StartupInv'
<1> USE StartupAssumption DEF StartupInv, StartupTypeOK, external
<1>1. StartupTypeOK'
  BY DEF Reset
<1>2. Handshake(p)'
  BY DEF Reset, Handshake
<1>3. ASSUME NEW q \in Pod \ {p} PROVE Handshake(q)'
  BY DEF Reset, Handshake, DialingOver
<1> QED
  BY <1>1, <1>2, <1>3

LEMMA StartupInRollout ==
  ASSUME StartupInv, [RolloutNext]_rolloutVars
  PROVE  StartupInv'
<1>1. CASE UNCHANGED rolloutVars
  BY <1>1, StartupStep DEF rolloutVars, podVars, vars
<1>2. CASE Outage
  BY <1>2, StartupStep DEF Outage, Next
<1>3. ASSUME NEW p \in Pod,
             CreatePod(p) \/ CrashPod(p) \/ RestartPod(p) \/ RunPod(p)
      PROVE  StartupInv'
  BY <1>3, StartupStep DEF CreatePod, CrashPod, RestartPod, RunPod, Next
<1>4. ASSUME NEW p \in Pod, BecomeReady(p) PROVE StartupInv'
  BY <1>4, StartupStep DEF BecomeReady, podVars, vars
<1>5. ASSUME NEW p \in Pod, RemoveOldPod(p) PROVE StartupInv'
  BY <1>5, ResetKeeps DEF RemoveOldPod
<1> QED
  BY <1>1, <1>2, <1>3, <1>4, <1>5 DEF RolloutNext

LEMMA RolloutTyping ==
  ASSUME RolloutTypeOK, [RolloutNext]_rolloutVars
  PROVE  RolloutTypeOK'
<1> USE RolloutAssumption DEF RolloutTypeOK, Old, New
<1>1. CASE UNCHANGED rolloutVars \/ Outage
  BY <1>1 DEF rolloutVars, Outage
<1>2. ASSUME NEW p \in Pod, CreatePod(p) PROVE RolloutTypeOK'
  BY <1>2 DEF CreatePod
<1>3. ASSUME NEW p \in Pod, BecomeReady(p) PROVE RolloutTypeOK'
  BY <1>3 DEF BecomeReady
<1>4. ASSUME NEW p \in Pod, RemoveOldPod(p) PROVE RolloutTypeOK'
  BY <1>4 DEF RemoveOldPod
<1>5. ASSUME NEW p \in Pod, CrashPod(p) \/ RestartPod(p) \/ RunPod(p)
      PROVE  RolloutTypeOK'
  BY <1>5 DEF CrashPod, RestartPod, RunPod
<1> QED
  BY <1>1, <1>2, <1>3, <1>4, <1>5 DEF RolloutNext

\* A process that serves does so until it is stopped or removed.
LEMMA ServingLasts ==
  ASSUME StartupTypeOK, RolloutTypeOK, ReadyServes, [RolloutNext]_rolloutVars
  PROVE  ReadyServes'
<1> USE RolloutAssumption DEF StartupTypeOK, RolloutTypeOK, ReadyServes
<1>1. CASE UNCHANGED rolloutVars \/ Outage
  BY <1>1 DEF rolloutVars, podVars, perPod, Outage, ChangeDatabase
<1>2. ASSUME NEW p \in Pod, CreatePod(p) PROVE ReadyServes'
  <2>1. p \notin ready
    BY <1>2 DEF CreatePod, Old, New
  <2> QED
    BY <1>2, <2>1 DEF CreatePod, Boot, Reset
<1>3. ASSUME NEW p \in Pod, BecomeReady(p) PROVE ReadyServes'
  BY <1>3 DEF BecomeReady, Health, podVars, perPod
<1>4. ASSUME NEW p \in Pod, RemoveOldPod(p) PROVE ReadyServes'
  BY <1>4 DEF RemoveOldPod, Reset, Old, New
<1>5. ASSUME NEW p \in Pod, CrashPod(p) PROVE ReadyServes'
  BY <1>5 DEF CrashPod, Stop, Reset, Old, New
<1>6. ASSUME NEW p \in Pod, RestartPod(p) PROVE ReadyServes'
  BY <1>6 DEF RestartPod, Boot, Reset, Old, New
<1>7. ASSUME NEW p \in Pod, RunPod(p) PROVE ReadyServes'
  BY <1>7 DEF RunPod, Run, Dial, Migrate, StopWaiting, BuildRepository, Old, New
<1> QED
  BY <1>1, <1>2, <1>3, <1>4, <1>5, <1>6, <1>7 DEF RolloutNext

\* The guard of the controller counts what the step leaves.
LEMMA CapacityStep ==
  ASSUME RolloutTypeOK, EnoughAreReady, [RolloutNext]_rolloutVars
  PROVE  EnoughAreReady'
<1> USE RolloutAssumption DEF RolloutTypeOK, EnoughAreReady
<1>1. CASE UNCHANGED rolloutVars \/ Outage
  BY <1>1 DEF rolloutVars, Outage
<1>2. ASSUME NEW p \in Pod, CreatePod(p) \/ RestartPod(p) \/ RunPod(p) PROVE EnoughAreReady'
  BY <1>2 DEF CreatePod, RestartPod, RunPod
<1>3. ASSUME NEW p \in Pod, BecomeReady(p) PROVE EnoughAreReady'
  <2>1. ready' = ready \cup {p} /\ p \notin ready /\ ready \in SUBSET Pod
    BY <1>3 DEF BecomeReady, Old, New
  <2>2. Cardinality(ready') = Cardinality(ready) + 1 /\ Cardinality(ready) \in Nat
    BY <2>1, PodsAreFinite, FS_AddElement
  <2> QED
    BY <1>3, <2>2 DEF BecomeReady
<1>4. ASSUME NEW p \in Pod, RemoveOldPod(p) PROVE EnoughAreReady'
  BY <1>4 DEF RemoveOldPod
<1>5. ASSUME NEW p \in Pod, CrashPod(p) PROVE EnoughAreReady'
  BY <1>5 DEF CrashPod
<1> QED
  BY <1>1, <1>2, <1>3, <1>4, <1>5 DEF RolloutNext

\* No step takes DATABASE_URL or the schema away.
LEMMA SchemaStays ==
  ASSUME StartupTypeOK, configured, migrated, [RolloutNext]_rolloutVars
  PROVE  configured' /\ migrated'
<1> USE DEF StartupTypeOK, external
<1>1. CASE UNCHANGED rolloutVars \/ Outage
  BY <1>1 DEF rolloutVars, podVars, Outage, ChangeDatabase
<1>2. ASSUME NEW p \in Pod, CreatePod(p) \/ BecomeReady(p) \/ RemoveOldPod(p)
      PROVE  configured' /\ migrated'
  BY <1>2 DEF CreatePod, BecomeReady, RemoveOldPod, Boot, podVars
<1>3. ASSUME NEW p \in Pod, CrashPod(p) \/ RestartPod(p) \/ RunPod(p)
      PROVE  configured' /\ migrated'
  BY <1>3 DEF CrashPod, RestartPod, RunPod, Boot, Stop, Run, Dial, Migrate, StopWaiting,
              BuildRepository
<1> QED
  BY <1>1, <1>2, <1>3 DEF RolloutNext

LEMMA RolloutStep == RolloutInv /\ [RolloutNext]_rolloutVars => RolloutInv'
<1> SUFFICES ASSUME RolloutInv, [RolloutNext]_rolloutVars PROVE RolloutInv'
  OBVIOUS
<1> QED
  BY StartupInRollout, RolloutTyping, ServingLasts, CapacityStep, SchemaStays
  DEF RolloutInv, StartupInv

THEOREM RolloutInvariance == RolloutSpec => []RolloutInv
BY RolloutStart, RolloutStep, PTL DEF RolloutSpec

\* The variables of the pods keep their types through every update, crash and
\* outage.
THEOREM PodsAreTyped == RolloutSpec => []StartupTypeOK
<1>1. RolloutInv => StartupTypeOK
  BY DEF RolloutInv, StartupInv
<1> QED
  BY <1>1, RolloutInvariance, PTL

\* Whatever the controller and the kubelet do, a pod has a repository only if it
\* connected, and one that was not timed out has a repository unless every
\* attempt failed or there was nothing to dial.
THEOREM UpdatesMatchConnections == RolloutSpec => []RepositoryMatchesConnection
<1>1. RolloutInv => RepositoryMatchesConnection
  BY DEF RolloutInv, StartupInv, Handshake, DialingOver, RepositoryMatchesConnection
<1> QED
  BY <1>1, RolloutInvariance, PTL

\* With PostgreSQL up, the only pods that receive traffic and do not answer are
\* those whose start was not over within the 3 seconds or failed to connect, and
\* as long as no container crashed some pod receives traffic, provided the update
\* may not remove every pod. So ServiceStaysReachable fails by no other cause.
THEOREM OnlyLateStartsDoNotAnswer ==
  ASSUME MaxUnavailable < Replicas
  PROVE  RolloutSpec => []ReadyPodsAnswer
<1>1. ASSUME RolloutInv PROVE ReadyPodsAnswer
  <2>1. ASSUME crashes = 0 PROVE ready # {}
    BY <1>1, <2>1, FS_EmptySet, RolloutAssumption DEF RolloutInv, EnoughAreReady
  <2>2. ASSUME dbUp, NEW p \in ready, ~timedOut[p], tries[p] # MaxRetries
        PROVE  Api(p) = 200
    <3>1. p \in Pod /\ main[p] = "serving"
      BY <1>1, <2>2 DEF RolloutInv, RolloutTypeOK, ReadyServes, Old, New
    <3>2. repo[p]
      BY <1>1, <2>2, <3>1
      DEF RolloutInv, StartupInv, StartupTypeOK, Handshake, DialingOver
    <3> QED
      BY <1>1, <2>2, <3>1, <3>2 DEF RolloutInv, Api
  <2> QED
    BY <2>1, <2>2 DEF ReadyPodsAnswer
<1> QED
  BY <1>1, RolloutInvariance, PTL

\* A container that does not run has left nothing behind in its pod.
OffIsReset ==
  \A p \in Pod : main[p] = "off" =>
    /\ dialer[p] = "off" /\ tries[p] = 0
    /\ ~conn[p] /\ ~closed[p] /\ ~timedOut[p] /\ ~repo[p]

LEMMA OffIsResetInit == RolloutInit => OffIsReset
<1> SUFFICES ASSUME RolloutInit, NEW p \in Pod, main[p] = "off"
             PROVE  /\ dialer[p] = "off" /\ tries[p] = 0
                    /\ ~conn[p] /\ ~closed[p] /\ ~timedOut[p] /\ ~repo[p]
  BY DEF OffIsReset
<1>1. p \notin OldPod
  BY DEF RolloutInit
<1>2. ~conn[p] /\ closed = conn /\ repo = conn
  <2>1. conn = [q \in Pod |-> q \in OldPod] /\ closed = conn /\ repo = conn
    BY DEF RolloutInit
  <2>2. conn[p] = (p \in OldPod)
    BY <2>1, Zenon
  <2> QED
    BY <1>1, <2>1, <2>2
<1>3. dialer[p] = "off" /\ tries[p] = 0 /\ timedOut[p] = FALSE
  BY <1>1 DEF RolloutInit
<1> QED
  BY <1>2, <1>3

LEMMA OffIsResetStep ==
  ASSUME StartupInv, OffIsReset, [RolloutNext]_rolloutVars
  PROVE  OffIsReset'
<1> USE StartupAssumption DEF StartupInv, StartupTypeOK, OffIsReset, external
<1>1. CASE UNCHANGED rolloutVars \/ Outage
  BY <1>1 DEF rolloutVars, podVars, perPod, Outage, ChangeDatabase
<1>2. ASSUME NEW p \in Pod, CreatePod(p) \/ RestartPod(p) PROVE OffIsReset'
  BY <1>2 DEF CreatePod, RestartPod, Boot, Reset
<1>3. ASSUME NEW p \in Pod, BecomeReady(p) PROVE OffIsReset'
  BY <1>3 DEF BecomeReady, podVars, perPod
<1>4. ASSUME NEW p \in Pod, RemoveOldPod(p) \/ CrashPod(p) PROVE OffIsReset'
  BY <1>4 DEF RemoveOldPod, CrashPod, Stop, Reset
<1>5. ASSUME NEW p \in Pod, RunPod(p) PROVE OffIsReset'
  <2>1. CASE Dial(p)
    BY <2>1 DEF Dial, Finish
  <2>2. CASE Migrate(p)
    BY <2>2 DEF Migrate, Finish
  <2>3. CASE StopWaiting(p)
    BY <2>3 DEF StopWaiting
  <2>4. CASE BuildRepository(p)
    BY <2>4 DEF BuildRepository
  <2> QED
    BY <1>5, <2>1, <2>2, <2>3, <2>4 DEF RunPod, Run
<1> QED
  BY <1>1, <1>2, <1>3, <1>4, <1>5 DEF RolloutNext

\* To remove a pod is to stop its container, or to do nothing to one that is
\* not running.
LEMMA RemovalStopsThePod ==
  ASSUME StartupTypeOK, OffIsReset, NEW p \in Pod, RemoveOldPod(p)
  PROVE  Stop(p) \/ UNCHANGED vars
<1> USE DEF RemoveOldPod
<1>1. CASE main[p] # "off"
  BY <1>1 DEF Stop
<1>2. CASE main[p] = "off"
  <2>1. UNCHANGED perPod
    BY <1>2 DEF StartupTypeOK, OffIsReset, Reset, perPod
  <2> QED
    BY <2>1 DEF vars
<1> QED
  BY <1>1, <1>2

\* Whatever the controller and the kubelet do, each pod only ever takes the steps
\* of its start-up, a stop or none: the update refines the start-up of its pods.
THEOREM PodsRunAsStartupSays == RolloutSpec => [][Next]_vars
<1>1. ASSUME StartupInv, OffIsReset, [RolloutNext]_rolloutVars PROVE [Next]_vars
  <2>1. CASE UNCHANGED rolloutVars
    BY <2>1 DEF rolloutVars, podVars, vars
  <2>2. CASE Outage
    BY <2>2 DEF Outage, Next
  <2>3. ASSUME NEW p \in Pod, CreatePod(p) \/ CrashPod(p) \/ RestartPod(p) \/ RunPod(p)
        PROVE  [Next]_vars
    BY <2>3 DEF CreatePod, CrashPod, RestartPod, RunPod, Next
  <2>4. ASSUME NEW p \in Pod, BecomeReady(p) PROVE [Next]_vars
    BY <2>4 DEF BecomeReady, podVars, vars
  <2>5. ASSUME NEW p \in Pod, RemoveOldPod(p) PROVE [Next]_vars
    BY <1>1, <2>5, RemovalStopsThePod DEF StartupInv, Next
  <2> QED
    BY <1>1, <2>1, <2>2, <2>3, <2>4, <2>5 DEF RolloutNext
<1>2. RolloutInv => StartupInv
  BY DEF RolloutInv
<1> QED
  BY <1>1, <1>2, OffIsResetInit, OffIsResetStep, RolloutInvariance, PTL DEF RolloutSpec

\* No update, crash or restart keeps a pod from coming to an end of its start:
\* each step of its own brings it nearer, and nobody else's sends it back.
THEOREM UpdatesStartPods == RolloutSpec => [][StepsRunOut]_vars
<1>1. RolloutInv => StartupInv
  BY DEF RolloutInv
<1> QED
  BY <1>1, StartsStep, RolloutInvariance, PodsRunAsStartupSays, PTL

(***************************************************************************)
(* What nothing repairs.                                                   *)
(***************************************************************************)
\* The update is over, and left pods that serve without a repository.
OutOfService ==
  /\ Old = {} /\ Cardinality(New) = Replicas
  /\ \A p \in New : main[p] = "serving" /\ ~repo[p]

\* db is read once (main.go:107). An update that went through while PostgreSQL was
\* away leaves a service of which every ready pod replies 500, and neither the
\* return of PostgreSQL nor the controller nor the pods end that: only a crash of
\* a container does, since the process is then another one.
THEOREM RecoveryRepairsNothing ==
  RolloutSpec => /\ [](OutOfService => \A p \in ready : Health(p) = 200 /\ Api(p) = 500)
                 /\ [][OutOfService => OutOfService' \/ crashes' = crashes + 1]_rolloutVars
<1>1. ASSUME RolloutInv, OutOfService, NEW p \in ready PROVE Health(p) = 200 /\ Api(p) = 500
  <2>1. p \in New
    BY <1>1 DEF RolloutInv, RolloutTypeOK, OutOfService
  <2> QED
    BY <1>1, <2>1 DEF OutOfService, Health, Api
<1>2. ASSUME RolloutInv, OutOfService, [RolloutNext]_rolloutVars, crashes' # crashes + 1
      PROVE  OutOfService'
  <2>1. UNCHANGED phase /\ \A p \in New : main'[p] = main[p] /\ repo'[p] = repo[p]
    <3>1. ASSUME NEW p \in Pod, RestartPod(p)
          PROVE  UNCHANGED phase /\ \A q \in New : main'[q] = main[q] /\ repo'[q] = repo[q]
      BY <1>2, <3>1 DEF OutOfService, RestartPod, Boot
    <3>2. ASSUME NEW p \in Pod, RunPod(p)
          PROVE  UNCHANGED phase /\ \A q \in New : main'[q] = main[q] /\ repo'[q] = repo[q]
      BY <1>2, <3>2 DEF OutOfService, New, RolloutInv, StartupInv, StartupTypeOK, RunPod, Run, Dial,
                        Migrate, StopWaiting, BuildRepository
    <3>3. ASSUME NEW p \in Pod, CreatePod(p) \/ RemoveOldPod(p) PROVE FALSE
      <4>1. Cardinality(New) = Replicas /\ Replicas \in Nat /\ Old = {}
        BY <1>2, RolloutAssumption DEF OutOfService
      <4> QED
        BY <3>3, <4>1 DEF CreatePod, RemoveOldPod
    <3>4. ASSUME NEW p \in Pod, BecomeReady(p)
          PROVE  UNCHANGED phase /\ \A q \in New : main'[q] = main[q] /\ repo'[q] = repo[q]
      BY <3>4 DEF BecomeReady, podVars, perPod
    <3>5. CASE Outage \/ UNCHANGED rolloutVars
      BY <3>5 DEF Outage, ChangeDatabase, perPod, podVars, rolloutVars
    <3> QED
      BY <1>2, <3>1, <3>2, <3>3, <3>4, <3>5 DEF RolloutNext, CrashPod
  <2> QED
    BY <1>2, <2>1 DEF OutOfService, Old, New
<1>3. RolloutInv => (OutOfService => \A p \in ready : Health(p) = 200 /\ Api(p) = 500)
  BY <1>1
<1>4. RolloutInv /\ [RolloutNext]_rolloutVars =>
        [OutOfService => OutOfService' \/ crashes' = crashes + 1]_rolloutVars
  BY <1>2
<1> QED
  BY <1>3, <1>4, RolloutInvariance, PTL DEF RolloutSpec
=============================================================================
