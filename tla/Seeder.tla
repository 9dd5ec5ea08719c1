------------------------------- MODULE Seeder -------------------------------
(***************************************************************************)
(* The seeding of roles and demonstration accounts that every pod does     *)
(* when it starts (internal/seeder/seeder.go), and franchise-service,      *)
(* which owns the restaurants. Pods seed one database at once, call by     *)
(* call and outside any transaction, while others already serve.           *)
(*                                                                         *)
(* The roles and the accounts are lists the code goes through in order.    *)
(* An account expects one role and a manager one restaurant: what the code *)
(* leaves alone, other roles of an account, is not here. franchise-service *)
(* may be rebuilt with new restaurant ids: an id belongs to an edition.    *)
(***************************************************************************)
EXTENDS Naturals, Sequences

CONSTANTS
  Pod,
  Role,         \* the slugs of the default roles
  Account,      \* the addresses of the demonstration accounts
  RoleDefs,     \* the roles, in the order of roleDefs
  Users,        \* the accounts, in the order of users
  Manager,      \* those whose restaurant franchise-service knows
  None,         \* no restaurant, no list of restaurants
  MaxEdition,   \* bound on the editions of the restaurants
  MaxFailures   \* bound on failed database calls and deaths of pods

Edition == 0 .. MaxEdition
Restaurant == Edition \X {"expected", "other"}

ASSUME SeederAssumption ==
  /\ RoleDefs \in Seq(Role) /\ RoleDefs # <<>>
  /\ Users \in Seq(Account) /\ Users # <<>>
  /\ \A a \in Account : \E i \in 1 .. Len(Users) : Users[i] = a
  /\ Manager \subseteq Account
  /\ None \notin Edition \cup Restaurant
  /\ MaxEdition \in Nat \ {0} /\ MaxFailures \in Nat

VARIABLES
  roles,    \* slugs that have a row in roles
  present,  \* accounts that have a row in users
  deleted,  \* those of them that are soft-deleted
  granted,  \* accounts that some row of user_roles gives their role
  tenant,   \* column users.tenant_id
  edition,  \* the restaurants franchise-service has now
  pc,       \* the call each pod makes next
  at,       \* where it is in the list it goes through
  list,     \* the restaurants it was told of
  seen,     \* the tenant of the account it read
  skipped,  \* accounts it gave up on with a warning
  faults,
  crashes

tables == <<roles, present, deleted, granted, tenant>>
locals == <<pc, at, list, seen, skipped>>
vars   == <<tables, edition, locals, faults, crashes>>

RoleSteps == {"findRole", "createRole"}
UserSteps == {"findUser", "createUser", "grant", "countRole", "insertRole", "tenant"}
Ended == {"done", "failed"}
Step == {"off"} \cup RoleSteps \cup UserSteps \cup Ended

\* What a list of restaurants holds.
Known(edit) == {<<edit, "expected">>, <<edit, "other">>}

RoleOf(p) == RoleDefs[at[p]]
UserOf(p) == Users[at[p]]

\* A database a former start may have left: an account or its role may be
\* missing, and a manager may be attached to a restaurant that is gone.
Init ==
  /\ roles \in {{}, Role}
  /\ present \in SUBSET Account
  /\ deleted = {}
  /\ granted \in SUBSET present
  /\ granted # {} => roles = Role
  /\ tenant \in [Account -> {None, <<0, "expected">>, <<1, "other">>}]
  /\ \A a \in Account : tenant[a] # None => a \in present \cap Manager
  /\ edition = 1
  /\ pc = [p \in Pod |-> "off"]
  /\ at = [p \in Pod |-> 1]
  /\ list = [p \in Pod |-> None]
  /\ seen = [p \in Pod |-> None]
  /\ skipped = [p \in Pod |-> {}]
  /\ faults = 0
  /\ crashes = 0

Goto(p, step) == pc' = [pc EXCEPT ![p] = step] /\ UNCHANGED at
NextOf(p, n, first, then) ==
  IF at[p] = n
    THEN pc' = [pc EXCEPT ![p] = then] /\ at' = [at EXCEPT ![p] = 1]
    ELSE pc' = [pc EXCEPT ![p] = first] /\ at' = [at EXCEPT ![p] = @ + 1]
NextRole(p) == NextOf(p, Len(RoleDefs), "findRole", "findUser")
NextUser(p) == NextOf(p, Len(Users), "findUser", "done")

\* A call fails. Most errors end the seeding, whose error main only logs.
Fault == faults + crashes < MaxFailures /\ faults' = faults + 1
Abort(p) == pc' = [pc EXCEPT ![p] = "failed"] /\ at' = [at EXCEPT ![p] = 1]
Fail(p) == Fault /\ Abort(p)

\* A failure that concerns one account is a warning.
Skip(p) == skipped' = [skipped EXCEPT ![p] = @ \cup {UserOf(p)}] /\ NextUser(p)

\* A pod starts, or starts over, and asks for the restaurants: it is told of
\* them, or gets no answer after five attempts.
FetchRestaurants(p) ==
  /\ pc[p] = "off"
  /\ \E answer \in {None, edition} : list' = [list EXCEPT ![p] = answer]
  /\ Goto(p, "findRole")
  /\ UNCHANGED <<tables, edition, seen, skipped, faults, crashes>>

(***************************************************************************)
(* seedDefaultRoles.                                                       *)
(***************************************************************************)
\* Mutant: a role is created without looking.
FindRoleBlindly(p) ==
  /\ pc[p] = "findRole"
  /\ Goto(p, "createRole")
  /\ UNCHANGED <<tables, edition, list, seen, skipped, faults, crashes>>

FindRole(p) ==
  /\ pc[p] = "findRole"
  /\ \/ RoleOf(p) \in roles /\ NextRole(p) /\ UNCHANGED faults
     \/ RoleOf(p) \notin roles /\ Goto(p, "createRole") /\ UNCHANGED faults
     \/ Fail(p)
  /\ UNCHANGED <<tables, edition, list, seen, skipped, crashes>>

\* The unique index on the slug refuses the row another pod inserted first.
CreateRole(p) ==
  /\ pc[p] = "createRole"
  /\ \/ /\ RoleOf(p) \notin roles
        /\ roles' = roles \cup {RoleOf(p)}
        /\ NextRole(p)
        /\ UNCHANGED faults
     \/ RoleOf(p) \in roles /\ Abort(p) /\ UNCHANGED <<roles, faults>>
     \/ Fail(p) /\ UNCHANGED roles
  /\ UNCHANGED <<present, deleted, granted, tenant, edition, list, seen, skipped, crashes>>

(***************************************************************************)
(* seedUsers.                                                              *)
(***************************************************************************)
\* Mutant: an account that exists is left as it is.
FindUserOnly(p) ==
  /\ pc[p] = "findUser"
  /\ IF UserOf(p) \in present \ deleted THEN NextUser(p) ELSE Goto(p, "createUser")
  /\ UNCHANGED <<tables, edition, list, seen, skipped, faults, crashes>>

\* The lookup by address, which does not see soft-deleted accounts.
FindUser(p) ==
  /\ pc[p] = "findUser"
  /\ \/ /\ UserOf(p) \in present \ deleted
        /\ seen' = [seen EXCEPT ![p] = tenant[UserOf(p)]]
        /\ Goto(p, "countRole")
        /\ UNCHANGED faults
     \/ /\ UserOf(p) \notin present \ deleted
        /\ Goto(p, "createUser")
        /\ UNCHANGED <<seen, faults>>
     \/ Fail(p) /\ UNCHANGED seen
  /\ UNCHANGED <<tables, edition, list, skipped, crashes>>

\* Mutant: no check that franchise-service answered.
CreateUserUnchecked(p) ==
  LET a == UserOf(p) IN
  /\ pc[p] = "createUser"
  /\ a \notin present
  /\ present' = present \cup {a}
  /\ tenant' = [tenant EXCEPT ![a] = <<list[p], "expected">>]
  /\ Goto(p, "grant")
  /\ UNCHANGED <<roles, deleted, granted, edition, list, seen, skipped, faults, crashes>>

\* Mutant: an account that cannot be created ends the seeding.
CreateUserOrStop(p) ==
  /\ pc[p] = "createUser"
  /\ \/ /\ UserOf(p) \notin present
        /\ present' = present \cup {UserOf(p)}
        /\ Goto(p, "grant")
     \/ UserOf(p) \in present /\ Abort(p) /\ UNCHANGED present
  /\ UNCHANGED <<roles, deleted, granted, tenant, edition, list, seen, skipped, faults, crashes>>

\* The unique index on the address sees soft-deleted accounts too.
CreateUser(p) ==
  LET a == UserOf(p) IN
  /\ pc[p] = "createUser"
  /\ \/ /\ a \notin present
        /\ present' = present \cup {a}
        /\ tenant' = [tenant EXCEPT ![a] = IF a \in Manager /\ list[p] # None
                                             THEN <<list[p], "expected">> ELSE None]
        /\ Goto(p, "grant")
        /\ UNCHANGED <<skipped, faults>>
     \/ a \in present /\ Skip(p) /\ UNCHANGED <<present, tenant, faults>>
     \/ Fault /\ Skip(p) /\ UNCHANGED <<present, tenant>>
  /\ UNCHANGED <<roles, deleted, granted, edition, list, seen, crashes>>

GrantRole(p) ==
  /\ pc[p] = "grant"
  /\ \/ granted' = granted \cup {UserOf(p)} /\ NextUser(p) /\ UNCHANGED faults
     \/ Fail(p) /\ UNCHANGED granted
  /\ UNCHANGED <<roles, present, deleted, tenant, edition, list, seen, skipped, crashes>>

\* ensureRole: the count, then the insert, which no unique index guards: two
\* pods may both add a row, and nothing tells two rows from one.
CountRole(p) ==
  /\ pc[p] = "countRole"
  /\ \/ Goto(p, IF UserOf(p) \in granted THEN "tenant" ELSE "insertRole")
        /\ UNCHANGED faults
     \/ Fail(p)
  /\ UNCHANGED <<tables, edition, list, seen, skipped, crashes>>

InsertRole(p) ==
  /\ pc[p] = "insertRole"
  /\ \/ granted' = granted \cup {UserOf(p)} /\ Goto(p, "tenant") /\ UNCHANGED faults
     \/ Fail(p) /\ UNCHANGED granted
  /\ UNCHANGED <<roles, present, deleted, tenant, edition, list, seen, skipped, crashes>>

\* Mutant: a manager who has a restaurant is left alone, known or not.
EnsureTenantOnce(p) ==
  LET a == UserOf(p) IN
  /\ pc[p] = "tenant"
  /\ tenant' = IF a \in Manager /\ list[p] # None /\ seen[p] = None
                 THEN [tenant EXCEPT ![a] = <<list[p], "expected">>] ELSE tenant
  /\ seen' = [seen EXCEPT ![p] = None]
  /\ NextUser(p)
  /\ UNCHANGED <<roles, present, deleted, granted, edition, list, skipped, faults, crashes>>

\* Mutant: the restaurant of the account is not compared with those of the list.
EnsureTenantAnyway(p) ==
  LET a == UserOf(p) IN
  /\ pc[p] = "tenant"
  /\ tenant' = IF a \in Manager \ deleted /\ list[p] # None
                 THEN [tenant EXCEPT ![a] = <<list[p], "expected">>] ELSE tenant
  /\ seen' = [seen EXCEPT ![p] = None]
  /\ NextUser(p)
  /\ UNCHANGED <<roles, present, deleted, granted, edition, list, skipped, faults, crashes>>

\* ensureTenant decides on the row that FindUser read and on its own list. The
\* update matches no row once the account is soft-deleted.
EnsureTenant(p) ==
  LET a == UserOf(p)
      repair == a \in Manager /\ list[p] # None /\ seen[p] \notin Known(list[p]) IN
  /\ pc[p] = "tenant"
  /\ \/ ~repair /\ NextUser(p) /\ UNCHANGED <<tenant, skipped, faults>>
     \/ /\ repair
        /\ tenant' = IF a \in deleted THEN tenant
                     ELSE [tenant EXCEPT ![a] = <<list[p], "expected">>]
        /\ NextUser(p)
        /\ UNCHANGED <<skipped, faults>>
     \/ repair /\ Fault /\ Skip(p) /\ UNCHANGED tenant
  /\ seen' = [seen EXCEPT ![p] = None]
  /\ UNCHANGED <<roles, present, deleted, granted, edition, list, crashes>>

(***************************************************************************)
(* The environment.                                                        *)
(***************************************************************************)
\* A pod dies in the middle of its seeding or later. It will start over.
Crash(p) ==
  /\ pc[p] # "off"
  /\ faults + crashes < MaxFailures
  /\ crashes' = crashes + 1
  /\ pc' = [pc EXCEPT ![p] = "off"]
  /\ at' = [at EXCEPT ![p] = 1]
  /\ list' = [list EXCEPT ![p] = None]
  /\ seen' = [seen EXCEPT ![p] = None]
  /\ skipped' = [skipped EXCEPT ![p] = {}]
  /\ UNCHANGED <<tables, edition, faults>>

\* A pod that serves deletes an account (DeleteAccount, module Sessions).
DeleteUser(a) ==
  /\ a \in present \ deleted
  /\ deleted' = deleted \cup {a}
  /\ UNCHANGED <<roles, present, granted, tenant, edition, locals, faults, crashes>>

\* franchise-service is rebuilt, with new ids.
RebuildFranchise ==
  /\ edition < MaxEdition
  /\ edition' = edition + 1
  /\ UNCHANGED <<tables, locals, faults, crashes>>

Seed(p) ==
  \/ FetchRestaurants(p) \/ FindRole(p) \/ CreateRole(p)
  \/ FindUser(p) \/ CreateUser(p) \/ GrantRole(p)
  \/ CountRole(p) \/ InsertRole(p) \/ EnsureTenant(p)

Next ==
  \/ RebuildFranchise
  \/ \E p \in Pod : Seed(p) \/ Crash(p)
  \/ \E a \in Account : DeleteUser(a)

Spec == Init /\ [][Next]_vars

\* A goroutine that runs goes on, its calls return or time out, and Kubernetes
\* starts again a pod that died.
FairSpec == Spec /\ \A p \in Pod : WF_vars(Seed(p))

(***************************************************************************)
(* Properties.                                                             *)
(***************************************************************************)
\* A pod is at a place of the list it goes through.
Placed(p) ==
  /\ pc[p] = "off" => at[p] = 1
  /\ pc[p] \in RoleSteps => at[p] <= Len(RoleDefs)
  /\ pc[p] \in UserSteps => at[p] <= Len(Users)

\* The type of every variable.
SeederTypeOK ==
  /\ roles \in SUBSET Role
  /\ present \in SUBSET Account
  /\ deleted \in SUBSET present
  /\ granted \in SUBSET Account
  /\ tenant \in [Account -> Restaurant \cup {None}]
  /\ edition \in Edition
  /\ pc \in [Pod -> Step]
  /\ at \in [Pod -> Nat \ {0}]
  /\ \A p \in Pod : Placed(p)
  /\ list \in [Pod -> Edition \cup {None}]
  /\ seen \in [Pod -> Restaurant \cup {None}]
  /\ skipped \in [Pod -> SUBSET Account]
  /\ faults \in Nat /\ crashes \in Nat /\ faults + crashes <= MaxFailures

\* The places in Users that a pod is through with.
Passed(p) == {i \in 1 .. Len(Users) :
                pc[p] = "done" \/ (pc[p] \in UserSteps /\ i < at[p])}

\* README.md:117-118, the seeder adds the expected role where it is missing:
\* every account a pod is through with has its role, whatever other pods seed,
\* crash or delete meanwhile, unless the pod gave up on it with a warning.
SeededAccountsHaveRoles ==
  \A p \in Pod : \A i \in Passed(p) : Users[i] \in skipped[p] \cup granted

\* README.md:183, "un redemarrage rattrape le coup": a manager whom a pod is
\* through with, having been told of the restaurants, is attached to one that
\* exists, as long as franchise-service keeps its ids.
ManagersAreAttached ==
  edition = 1 =>
    \A p \in Pod : \A i \in Passed(p) :
      Users[i] \in Manager /\ list[p] # None =>
        Users[i] \in skipped[p] \cup deleted \/ tenant[Users[i]] \in Known(edition)

\* A pod whose list is of restaurants that are gone attaches the account.
ByStaleList(a) ==
  \E p \in Pod : EnsureTenant(p) /\ UserOf(p) = a /\ list[p] # None /\ list[p] < edition

\* seeder.go:283-284, an attachment that is still valid is never overwritten:
\* whatever rows and lists the pods decide on when they come to write, only one
\* that fetched its list before franchise-service was rebuilt does it.
ValidAttachmentIsKept ==
  [][\A a \in Account :
       tenant[a] \in Known(edition) /\ tenant'[a] # tenant[a] => ByStaleList(a)]_vars

\* Pods that seed at once end each other's seeding, by the unique index on the
\* roles, but never all of it: as long as no call fails, one goes on.
SomeSeedingGoesOn == faults = 0 => Pod = {} \/ \E p \in Pod : pc[p] # "failed"

\* As long as no call fails, every account comes to exist with its role, past
\* races, crashes between an account and its role, and deletions.
SeedingConverges ==
  <>[](faults > 0 \/ \A a \in Account : a \in deleted \/ (a \in present \cap granted))
=============================================================================
