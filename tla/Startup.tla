------------------------------ MODULE Startup ------------------------------
(***************************************************************************)
(* How a pod of the auth-service starts (cmd/main.go): a goroutine dials   *)
(* PostgreSQL, migrates and seeds, while main waits for it at most 3       *)
(* seconds, builds the repository from whatever it then sees in the shared *)
(* variable db, and serves HTTP for the rest of its life.                  *)
(***************************************************************************)
EXTENDS Naturals

CONSTANTS
  Pod,         \* the pods
  MaxRetries,  \* attempts to connect (30 in the code)
  MaxOutages   \* bound on the changes of the state of PostgreSQL

ASSUME StartupAssumption == MaxRetries \in Nat \ {0} /\ MaxOutages \in Nat

VARIABLES
  configured,  \* DATABASE_URL is set
  dbUp,        \* PostgreSQL accepts connections
  outages,     \* changes of dbUp so far
  migrated,    \* the schema is in place
  dialer,      \* the goroutine of each pod
  tries,       \* its failed attempts
  conn,        \* the variable db of each pod is not nil
  closed,      \* the channel dbReady of each pod is closed
  main,        \* where main is
  timedOut,    \* main stopped waiting because 3 s had passed
  repo         \* the services of the pod hold a repository

external == <<configured, dbUp, outages>>
perPod   == <<dialer, tries, conn, closed, main, timedOut, repo>>
vars     == <<external, migrated, perPod>>

Init ==
  /\ configured \in BOOLEAN
  /\ dbUp \in BOOLEAN
  /\ outages = 0
  /\ migrated \in BOOLEAN
  /\ dialer = [p \in Pod |-> "off"]
  /\ tries = [p \in Pod |-> 0]
  /\ conn = [p \in Pod |-> FALSE]
  /\ closed = [p \in Pod |-> FALSE]
  /\ main = [p \in Pod |-> "off"]
  /\ timedOut = [p \in Pod |-> FALSE]
  /\ repo = [p \in Pod |-> FALSE]

\* The process of a pod is replaced: a fresh one starts, or there is none.
Reset(p, m, d) ==
  /\ main' = [main EXCEPT ![p] = m]
  /\ dialer' = [dialer EXCEPT ![p] = d]
  /\ tries' = [tries EXCEPT ![p] = 0]
  /\ conn' = [conn EXCEPT ![p] = FALSE]
  /\ closed' = [closed EXCEPT ![p] = FALSE]
  /\ timedOut' = [timedOut EXCEPT ![p] = FALSE]
  /\ repo' = [repo EXCEPT ![p] = FALSE]

Boot(p) ==
  /\ main[p] = "off"
  /\ Reset(p, "waiting", "dialing")
  /\ UNCHANGED <<external, migrated>>

Stop(p) ==
  /\ main[p] # "off"
  /\ Reset(p, "off", "off")
  /\ UNCHANGED <<external, migrated>>

(***************************************************************************)
(* The goroutine.                                                          *)
(***************************************************************************)
Finish(p) ==
  /\ dialer' = [dialer EXCEPT ![p] = "done"]
  /\ closed' = [closed EXCEPT ![p] = TRUE]

\* Mutant: dbReady is closed as soon as the attempt begins.
DialClosingFirst(p) ==
  /\ dialer[p] = "dialing"
  /\ IF configured /\ dbUp /\ closed[p]
       THEN /\ conn' = [conn EXCEPT ![p] = TRUE]
            /\ dialer' = [dialer EXCEPT ![p] = "done"]
            /\ UNCHANGED <<tries, closed>>
       ELSE /\ closed' = [closed EXCEPT ![p] = TRUE]
            /\ UNCHANGED <<tries, conn, dialer>>
  /\ UNCHANGED <<external, migrated, main, timedOut, repo>>

\* Mutant: i <= maxRetries, one attempt too many.
DialOnceMore(p) ==
  /\ dialer[p] = "dialing"
  /\ tries' = [tries EXCEPT ![p] = @ + 1]
  /\ IF tries[p] = MaxRetries THEN Finish(p) ELSE UNCHANGED <<dialer, closed>>
  /\ UNCHANGED <<external, migrated, conn, main, timedOut, repo>>

\* Mutant: the loop has no bound.
DialForever(p) ==
  /\ dialer[p] = "dialing"
  /\ configured => dbUp
  /\ IF configured
       THEN /\ conn' = [conn EXCEPT ![p] = TRUE]
            /\ dialer' = [dialer EXCEPT ![p] = "migrating"]
            /\ UNCHANGED closed
       ELSE Finish(p) /\ UNCHANGED conn
  /\ UNCHANGED <<external, migrated, tries, main, timedOut, repo>>

\* One attempt: db is assigned before the migration. The last failure gives up,
\* as does a start without DATABASE_URL, which Kubernetes does not allow
\* (k8s/deployment.yaml:34-38) but docker-compose.yml does.
Dial(p) ==
  /\ dialer[p] = "dialing"
  /\ \/ /\ configured /\ dbUp
        /\ conn' = [conn EXCEPT ![p] = TRUE]
        /\ dialer' = [dialer EXCEPT ![p] = "migrating"]
        /\ UNCHANGED <<tries, closed>>
     \/ /\ ~(configured /\ dbUp)
        /\ tries' = [tries EXCEPT ![p] = IF configured THEN @ + 1 ELSE @]
        /\ IF configured => tries[p] + 1 = MaxRetries
             THEN Finish(p) ELSE UNCHANGED <<dialer, closed>>
        /\ UNCHANGED conn
  /\ UNCHANGED <<external, migrated, main, timedOut, repo>>

\* AutoMigrate and the seeder. A failure is logged and the channel closed all
\* the same.
Migrate(p) ==
  /\ dialer[p] = "migrating"
  /\ migrated' = (migrated \/ dbUp)
  /\ Finish(p)
  /\ UNCHANGED <<external, tries, conn, main, timedOut, repo>>

(***************************************************************************)
(* main.                                                                   *)
(***************************************************************************)
\* Mutant: no timeout, main waits for the connection itself.
WaitForConnection(p) ==
  /\ main[p] = "waiting"
  /\ conn[p]
  /\ main' = [main EXCEPT ![p] = "building"]
  /\ UNCHANGED <<external, migrated, dialer, tries, conn, closed, timedOut, repo>>

\* The select: the channel is closed, or 3 seconds have passed.
StopWaiting(p) ==
  /\ main[p] = "waiting"
  /\ \/ closed[p] /\ UNCHANGED timedOut
     \/ timedOut' = [timedOut EXCEPT ![p] = TRUE]
  /\ main' = [main EXCEPT ![p] = "building"]
  /\ UNCHANGED <<external, migrated, dialer, tries, conn, closed, repo>>

\* db # nil is read once. Only the closing of the channel orders that read
\* after the assignment: main may miss it when the timer ended the wait.
BuildRepository(p) ==
  /\ main[p] = "building"
  /\ \E seen \in IF timedOut[p] THEN {FALSE, conn[p]} ELSE {conn[p]} :
       repo' = [repo EXCEPT ![p] = seen]
  /\ main' = [main EXCEPT ![p] = "serving"]
  /\ UNCHANGED <<external, migrated, dialer, tries, conn, closed, timedOut>>

\* PostgreSQL stops or comes back.
ChangeDatabase ==
  /\ outages < MaxOutages
  /\ outages' = outages + 1
  /\ dbUp' = ~dbUp
  /\ UNCHANGED <<configured, migrated, perPod>>

Run(p) == Dial(p) \/ Migrate(p) \/ StopWaiting(p) \/ BuildRepository(p)
Next == ChangeDatabase \/ \E p \in Pod : Boot(p) \/ Stop(p) \/ Run(p)
Spec == Init /\ [][Next]_vars

(***************************************************************************)
(* What a pod replies.                                                     *)
(***************************************************************************)
\* GET /health looks at nothing.
Health(p) == IF main[p] = "serving" THEN 200 ELSE 0

\* A route that needs the repository. On a nil repository the handler panics
\* and gin's Recovery replies 500.
Api(p) ==
  IF main[p] # "serving" THEN 0
  ELSE IF repo[p] /\ dbUp /\ migrated THEN 200 ELSE 500

(***************************************************************************)
(* Properties.                                                             *)
(***************************************************************************)
\* The type of every variable.
StartupTypeOK ==
  /\ configured \in BOOLEAN /\ dbUp \in BOOLEAN /\ migrated \in BOOLEAN
  /\ outages \in 0 .. MaxOutages
  /\ dialer \in [Pod -> {"off", "dialing", "migrating", "done"}]
  /\ tries \in [Pod -> 0 .. MaxRetries]
  /\ main \in [Pod -> {"off", "waiting", "building", "serving"}]
  /\ conn \in [Pod -> BOOLEAN] /\ closed \in [Pod -> BOOLEAN]
  /\ timedOut \in [Pod -> BOOLEAN] /\ repo \in [Pod -> BOOLEAN]

\* main goes by the channel, not by db. If the whole start, which is connection,
\* migration and seeding, was over within the 3 seconds, the pod serves with a
\* repository, unless every attempt failed or there was nothing to dial. If it
\* was not, the pod may lack one even though it connected at once; all that is
\* sure then is that it has none without a connection.
RepositoryMatchesConnection ==
  \A p \in Pod :
    /\ repo[p] => conn[p]
    /\ main[p] = "serving" /\ ~timedOut[p] =>
         repo[p] \/ tries[p] = MaxRetries \/ ~configured

\* Every pod that starts comes to serve, with or without PostgreSQL.
EveryPodServes == \A p \in Pod : main[p] = "waiting" ~> main[p] \in {"serving", "off"}

\* No pod dials for ever.
DialingEnds == \A p \in Pod : dialer[p] = "dialing" ~> dialer[p] \in {"done", "off"}
=============================================================================
