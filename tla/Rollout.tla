------------------------------ MODULE Rollout ------------------------------
(***************************************************************************)
(* A rolling update of the deployment (k8s/deployment.yaml): Kubernetes    *)
(* replaces the pods of the old version by pods of the new one, and goes   *)
(* by GET /health alone to tell a pod that is ready. Every pod starts as   *)
(* module Startup says. The controller is external: it is modelled by what *)
(* replicas, maxSurge, maxUnavailable and the readiness probe ask of it.   *)
(* The liveness probe asks /health for the first time 15 s after the       *)
(* start, when main has served for 12 s, and never fails.                  *)
(***************************************************************************)
EXTENDS Startup, FiniteSets

CONSTANTS
  OldPod,          \* the pods that serve when the update begins
  Replicas,        \* spec.replicas
  MaxSurge,        \* rollingUpdate.maxSurge
  MaxUnavailable,  \* rollingUpdate.maxUnavailable
  MaxCrashes       \* bound on the crashes of containers

ASSUME RolloutAssumption ==
  /\ OldPod \subseteq Pod
  /\ IsFiniteSet(Pod)
  /\ Cardinality(OldPod) = Replicas
  /\ Replicas \in Nat /\ MaxSurge \in Nat /\ MaxUnavailable \in 0 .. Replicas
  /\ MaxCrashes \in Nat

VARIABLES
  phase,   \* absent, old, new or gone
  ready,   \* the endpoints of the Service
  crashes

podVars == <<external, migrated, perPod>>
rolloutVars == <<podVars, phase, ready, crashes>>

Old == {p \in Pod : phase[p] = "old"}
New == {p \in Pod : phase[p] = "new"}

\* The old pods connected in time when they started, the new ones are to come.
\* No container starts without DATABASE_URL: the secretKeyRef is not optional.
RolloutInit ==
  /\ configured = TRUE
  /\ dbUp = TRUE /\ migrated = TRUE
  /\ outages = 0
  /\ tries = [p \in Pod |-> 0]
  /\ timedOut = [p \in Pod |-> FALSE]
  /\ dialer = [p \in Pod |-> IF p \in OldPod THEN "done" ELSE "off"]
  /\ main = [p \in Pod |-> IF p \in OldPod THEN "serving" ELSE "off"]
  /\ conn = [p \in Pod |-> p \in OldPod]
  /\ closed = conn
  /\ repo = conn
  /\ phase = [p \in Pod |-> IF p \in OldPod THEN "old" ELSE "absent"]
  /\ ready = OldPod
  /\ crashes = 0

CreatePod(p) ==
  /\ phase[p] = "absent"
  /\ Cardinality(Old \cup New) < Replicas + MaxSurge
  /\ Cardinality(New) < Replicas
  /\ phase' = [phase EXCEPT ![p] = "new"]
  /\ Boot(p)
  /\ UNCHANGED <<ready, crashes>>

\* Mutant: no readiness probe, a container that runs is ready.
ReadyWhenRunning(p) ==
  /\ p \in (Old \cup New) \ ready
  /\ main[p] # "off"
  /\ ready' = ready \cup {p}
  /\ UNCHANGED <<podVars, phase, crashes>>

\* The readiness probe.
BecomeReady(p) ==
  /\ p \in (Old \cup New) \ ready
  /\ Health(p) = 200
  /\ ready' = ready \cup {p}
  /\ UNCHANGED <<podVars, phase, crashes>>

RemoveOldPod(p) ==
  /\ p \in Old
  /\ Cardinality(ready \ {p}) >= Replicas - MaxUnavailable
  /\ phase' = [phase EXCEPT ![p] = "gone"]
  /\ ready' = ready \ {p}
  /\ Reset(p, "off", "off")
  /\ UNCHANGED <<external, migrated, crashes>>

\* The container of a pod dies, and the kubelet starts it again.
CrashPod(p) ==
  /\ crashes < MaxCrashes
  /\ crashes' = crashes + 1
  /\ ready' = ready \ {p}
  /\ Stop(p)
  /\ UNCHANGED phase

RestartPod(p) ==
  /\ p \in Old \cup New
  /\ Boot(p)
  /\ UNCHANGED <<phase, ready, crashes>>

RunPod(p) == Run(p) /\ UNCHANGED <<phase, ready, crashes>>
Outage == ChangeDatabase /\ UNCHANGED <<phase, ready, crashes>>

RolloutNext ==
  \/ Outage
  \/ \E p \in Pod : \/ CreatePod(p) \/ BecomeReady(p) \/ RemoveOldPod(p)
                    \/ CrashPod(p) \/ RestartPod(p) \/ RunPod(p)

RolloutSpec == RolloutInit /\ [][RolloutNext]_rolloutVars

\* Kubernetes acts on what it sees, the two goroutines of a pod run, the timer
\* fires. Nothing is assumed of PostgreSQL.
RolloutFairSpec ==
  /\ RolloutSpec
  /\ \A p \in Pod : /\ WF_rolloutVars(CreatePod(p)) /\ WF_rolloutVars(BecomeReady(p))
                    /\ WF_rolloutVars(RemoveOldPod(p)) /\ WF_rolloutVars(RestartPod(p))
                    /\ WF_rolloutVars(RunPod(p) /\ main'[p] # main[p])
                    /\ WF_rolloutVars(RunPod(p) /\ dialer'[p] # "off" /\ main'[p] = main[p])

(***************************************************************************)
(* Properties.                                                             *)
(***************************************************************************)
\* /health vouches for a pod exactly as far as its start went: with PostgreSQL up,
\* a pod that receives traffic answers, unless its start (connection, migration
\* and seeding) was not over within the 3 seconds or none of its attempts
\* succeeded. As long as no container crashed, some pod receives traffic.
ReadyPodsAnswer ==
  /\ crashes = 0 => ready # {}
  /\ dbUp => \A p \in ready : Api(p) = 200 \/ timedOut[p] \/ tries[p] = MaxRetries

\* The update always completes, whatever PostgreSQL does meanwhile, because no
\* probe depends on it.
RolloutCompletes == <>[](Old = {} /\ New \subseteq ready /\ Cardinality(New) = Replicas)

(***************************************************************************)
(* What the documentation says and the code does not do.                   *)
(***************************************************************************)
\* docs/ARCHITECTURE.md:441, "Le service reste accessible pendant tout le
\* processus": with PostgreSQL up, some pod that receives traffic answers.
ServiceStaysReachable == dbUp => \E p \in ready : Api(p) = 200
=============================================================================
