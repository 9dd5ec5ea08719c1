--------------------------- MODULE StartupProofs ---------------------------
(* Theorems about Startup, for every set of pods and every number of attempts. *)
EXTENDS Startup, TLAPS

\* The goroutine has nothing left to do: it connected, gave up or had no DSN.
DialingOver(p) == conn[p] \/ tries[p] = MaxRetries \/ ~configured

\* What the channel tells main, on which RepositoryMatchesConnection rests: it is
\* closed only once the outcome is known, so a main that was not timed out reads
\* db after its last assignment.
Handshake(p) ==
  /\ dialer[p] = "dialing" => tries[p] < MaxRetries
  /\ dialer[p] = "migrating" => conn[p]
  /\ closed[p] => dialer[p] = "done" /\ DialingOver(p)
  /\ main[p] \in {"building", "serving"} /\ ~timedOut[p] => closed[p]
  /\ main[p] \in {"off", "waiting", "building"} => ~repo[p]
  /\ main[p] = "serving" /\ ~timedOut[p] => repo[p] = conn[p]
  /\ repo[p] => conn[p]

StartupInv == StartupTypeOK /\ \A p \in Pod : Handshake(p)

LEMMA StartupInit == Init => StartupInv
BY StartupAssumption DEF Init, StartupInv, StartupTypeOK, Handshake

LEMMA StartupTyping ==
  ASSUME StartupInv, [Next]_vars
  PROVE  StartupTypeOK'
<1> USE StartupAssumption DEF StartupInv, StartupTypeOK, vars, external, perPod
<1>1. CASE UNCHANGED vars
  BY <1>1
<1>2. CASE ChangeDatabase
  BY <1>2 DEF ChangeDatabase
<1>3. ASSUME NEW p \in Pod, Boot(p) \/ Stop(p) PROVE StartupTypeOK'
  <2>1. CASE Boot(p)
    BY <2>1 DEF Boot, Reset
  <2>2. CASE Stop(p)
    BY <2>2 DEF Stop, Reset
  <2> QED
    BY <1>3, <2>1, <2>2
<1>4. ASSUME NEW p \in Pod, Dial(p) PROVE StartupTypeOK'
  <2>1. tries[p] < MaxRetries
    BY <1>4 DEF Dial, Handshake
  <2> QED
    <3>1. tries' \in [Pod -> 0 .. MaxRetries]
      BY <1>4, <2>1 DEF Dial
    <3>2. /\ dialer' \in [Pod -> {"off", "dialing", "migrating", "done"}]
          /\ conn' \in [Pod -> BOOLEAN] /\ closed' \in [Pod -> BOOLEAN]
      BY <1>4 DEF Dial, Finish
    <3> QED
      BY <1>4, <3>1, <3>2 DEF Dial
<1>5. ASSUME NEW p \in Pod, Migrate(p) PROVE StartupTypeOK'
  BY <1>5 DEF Migrate, Finish
<1>6. ASSUME NEW p \in Pod, StopWaiting(p) PROVE StartupTypeOK'
  BY <1>6 DEF StopWaiting
<1>7. ASSUME NEW p \in Pod, BuildRepository(p) PROVE StartupTypeOK'
  BY <1>7 DEF BuildRepository
<1> QED
  BY <1>1, <1>2, <1>3, <1>4, <1>5, <1>6, <1>7 DEF Next, Run

\* A step of one pod keeps its handshake.
LEMMA HandshakeStep ==
  ASSUME StartupTypeOK, NEW p \in Pod, Handshake(p),
         Boot(p) \/ Stop(p) \/ Run(p)
  PROVE  Handshake(p)'
<1> USE StartupAssumption DEF StartupTypeOK, Handshake, DialingOver, external, perPod
<1>1. CASE Boot(p)
  BY <1>1 DEF Boot, Reset
<1>2. CASE Stop(p)
  BY <1>2 DEF Stop, Reset
<1>3. CASE Dial(p)
  BY <1>3 DEF Dial, Finish
<1>4. CASE Migrate(p)
  BY <1>4 DEF Migrate, Finish
<1>5. CASE StopWaiting(p)
  BY <1>5 DEF StopWaiting
<1>6. CASE BuildRepository(p)
  BY <1>6 DEF BuildRepository
<1> QED
  BY <1>1, <1>2, <1>3, <1>4, <1>5, <1>6 DEF Run

\* It leaves the other pods alone.
LEMMA HandshakeFrame ==
  ASSUME StartupTypeOK, NEW p \in Pod, Boot(p) \/ Stop(p) \/ Run(p),
         NEW q \in Pod \ {p}, Handshake(q)
  PROVE  Handshake(q)'
<1>1. /\ dialer'[q] = dialer[q] /\ tries'[q] = tries[q] /\ conn'[q] = conn[q]
      /\ closed'[q] = closed[q] /\ main'[q] = main[q]
      /\ timedOut'[q] = timedOut[q] /\ repo'[q] = repo[q]
      /\ configured' = configured
  BY DEF StartupTypeOK, Boot, Stop, Reset, Run, Dial, Migrate, Finish, StopWaiting,
         BuildRepository, external
<1> QED
  BY <1>1 DEF Handshake, DialingOver

LEMMA StartupStep == StartupInv /\ [Next]_vars => StartupInv'
<1> SUFFICES ASSUME StartupInv, [Next]_vars PROVE StartupInv'
  OBVIOUS
<1>1. StartupTypeOK'
  BY StartupTyping
<1>2. CASE UNCHANGED vars \/ ChangeDatabase
  <2>1. UNCHANGED <<configured, perPod>>
    BY <1>2 DEF vars, external, ChangeDatabase
  <2> QED
    BY <1>1, <2>1 DEF StartupInv, Handshake, DialingOver, perPod
<1>3. ASSUME NEW p \in Pod, Boot(p) \/ Stop(p) \/ Run(p) PROVE StartupInv'
  BY <1>1, <1>3, HandshakeStep, HandshakeFrame DEF StartupInv
<1> QED
  BY <1>2, <1>3 DEF Next

THEOREM StartupInvariance == Spec => []StartupInv
BY StartupInit, StartupStep, PTL DEF Spec

\* The channel orders main after the goroutine: a pod whose connection, migration
\* and seeding were over within the 3 seconds lacks a repository only if every
\* attempt failed or there was nothing to dial. Of a pod that was timed out no
\* more is said than that it has no repository without a connection: it may lack
\* one although it connected at once.
THEOREM RepositoriesMatchConnections == Spec => []RepositoryMatchesConnection
<1>1. StartupInv => RepositoryMatchesConnection
  BY DEF StartupInv, Handshake, DialingOver, RepositoryMatchesConnection
<1> QED
  BY <1>1, StartupInvariance, PTL

(***************************************************************************)
(* How long a start lasts.                                                 *)
(***************************************************************************)
\* The steps the goroutine, and main, may still take.
DialsLeft(p) ==
  CASE dialer[p] = "dialing" -> (MaxRetries - tries[p]) + 1
    [] dialer[p] = "migrating" -> 1
    [] OTHER -> 0

WaitsLeft(p) ==
  CASE main[p] = "waiting" -> 2
    [] main[p] = "building" -> 1
    [] OTHER -> 0

\* Neither the goroutine nor main goes round in circles.
StepsRunOut ==
  \A p \in Pod :
    \/ Boot(p) \/ Stop(p)
    \/ Run(p) /\ DialsLeft(p)' + WaitsLeft(p)' < DialsLeft(p) + WaitsLeft(p)
    \/ DialsLeft(p)' = DialsLeft(p) /\ WaitsLeft(p)' = WaitsLeft(p)

LEMMA StartsStep == StartupInv /\ [Next]_vars => StepsRunOut
<1> SUFFICES ASSUME StartupInv, [Next]_vars PROVE StepsRunOut
  OBVIOUS
<1>1. ASSUME NEW p \in Pod, Run(p)
      PROVE  DialsLeft(p)' + WaitsLeft(p)' < DialsLeft(p) + WaitsLeft(p)
  <2> USE StartupAssumption DEF StartupInv, StartupTypeOK, DialsLeft, WaitsLeft
  <2>1. CASE Dial(p)
    <3>1. tries[p] \in Nat /\ tries[p] < MaxRetries /\ main' = main
      BY <2>1 DEF Dial, Handshake
    <3> QED
      BY <2>1, <3>1 DEF Dial, Finish
  <2>2. CASE Migrate(p)
    BY <2>2 DEF Migrate, Finish
  <2>3. CASE StopWaiting(p)
    <3>1. DialsLeft(p)' = DialsLeft(p) /\ DialsLeft(p) \in Nat
      BY <2>3 DEF StopWaiting
    <3> QED
      BY <2>3, <3>1 DEF StopWaiting
  <2>4. CASE BuildRepository(p)
    <3>1. DialsLeft(p)' = DialsLeft(p) /\ DialsLeft(p) \in Nat
      BY <2>4 DEF BuildRepository
    <3> QED
      BY <2>4, <3>1 DEF BuildRepository
  <2> QED
    BY <1>1, <2>1, <2>2, <2>3, <2>4 DEF Run
<1>2. ASSUME NEW p \in Pod, NEW q \in Pod \ {p}, Boot(q) \/ Stop(q) \/ Run(q)
      PROVE  DialsLeft(p)' = DialsLeft(p) /\ WaitsLeft(p)' = WaitsLeft(p)
  <2>1. dialer'[p] = dialer[p] /\ tries'[p] = tries[p] /\ main'[p] = main[p]
    BY <1>2 DEF StartupInv, StartupTypeOK, Boot, Stop, Reset, Run, Dial, Migrate, Finish,
                StopWaiting, BuildRepository
  <2> QED
    BY <2>1 DEF DialsLeft, WaitsLeft
<1>3. CASE UNCHANGED vars \/ ChangeDatabase
  BY <1>3 DEF vars, perPod, ChangeDatabase, DialsLeft, WaitsLeft, StepsRunOut
<1> QED
  BY <1>1, <1>2, <1>3 DEF Next, StepsRunOut

\* The goroutine gives up after MaxRetries attempts and main serves after its
\* wait, whatever PostgreSQL does; only a fresh process begins again.
THEOREM StartsEnd == Spec => [][StepsRunOut]_vars
BY StartsStep, StartupInvariance, PTL DEF Spec
=============================================================================
