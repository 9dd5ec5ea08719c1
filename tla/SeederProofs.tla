---------------------------- MODULE SeederProofs ----------------------------
(***************************************************************************)
(* Proofs about module Seeder, for any number of pods, roles, accounts,    *)
(* failures and editions of the restaurants.                               *)
(***************************************************************************)
EXTENDS Seeder, TLAPS

\* What the lists hold.
LEMMA Lists ==
  /\ Len(RoleDefs) \in Nat \ {0} /\ \A i \in 1 .. Len(RoleDefs) : RoleDefs[i] \in Role
  /\ Len(Users) \in Nat \ {0} /\ \A i \in 1 .. Len(Users) : Users[i] \in Account
BY SeederAssumption

\* Moving on in a list keeps a pod inside of it.
LEMMA MovesTyped ==
  ASSUME SeederTypeOK, NEW p \in Pod, NEW n \in Nat \ {0}, NEW first \in Step \ {"off"},
         NEW then \in Step, at[p] <= n,
         (first \in RoleSteps => n = Len(RoleDefs)) /\ (first \in UserSteps => n = Len(Users)),
         NextOf(p, n, first, then)
  PROVE  /\ pc' \in [Pod -> Step] /\ at' \in [Pod -> Nat \ {0}]
         /\ \A q \in Pod : Placed(q)'
<1>1. pc \in [Pod -> Step] /\ at \in [Pod -> Nat \ {0}]
  BY DEF SeederTypeOK
<1>2. /\ Len(RoleDefs) \in Nat \ {0} /\ Len(Users) \in Nat \ {0}
  BY Lists
<1>3. ASSUME NEW q \in Pod
      PROVE  Placed(q)
  BY DEF SeederTypeOK
<1>4. CASE at[p] = n
  <2>1. pc' = [pc EXCEPT ![p] = then] /\ at' = [at EXCEPT ![p] = 1]
    BY <1>4 DEF NextOf
  <2> QED
    BY <2>1, <1>1, <1>2, <1>3 DEF Placed
<1>5. CASE at[p] # n
  <2>1. pc' = [pc EXCEPT ![p] = first] /\ at' = [at EXCEPT ![p] = @ + 1]
    BY <1>5 DEF NextOf
  <2> QED
    BY <2>1, <1>1, <1>2, <1>3, <1>5 DEF Placed
<1> QED
  BY <1>4, <1>5

LEMMA TypingInit == Init => SeederTypeOK
<1> SUFFICES ASSUME Init PROVE SeederTypeOK
  OBVIOUS
<1>1. 0 \in Edition /\ 1 \in Edition
  BY SeederAssumption DEF Edition
<1>2. {None, <<0, "expected">>, <<1, "other">>} \subseteq Restaurant \cup {None}
  BY <1>1 DEF Restaurant
<1>3. tenant \in [Account -> Restaurant \cup {None}]
  BY <1>2 DEF Init
<1> QED
  BY <1>1, <1>3, SeederAssumption
     DEF Init, SeederTypeOK, Placed, Step, RoleSteps, UserSteps

\* The two ways a pod moves without reading on.
LEMMA GotoTyped ==
  ASSUME SeederTypeOK, NEW p \in Pod, NEW step \in Step \ {"off"},
         step \in RoleSteps => at[p] <= Len(RoleDefs),
         step \in UserSteps => at[p] <= Len(Users),
         Goto(p, step)
  PROVE  /\ pc' \in [Pod -> Step] /\ at' \in [Pod -> Nat \ {0}]
         /\ \A q \in Pod : Placed(q)'
BY DEF SeederTypeOK, Goto, Placed

LEMMA AbortTyped ==
  ASSUME SeederTypeOK, NEW p \in Pod, Abort(p)
  PROVE  /\ pc' \in [Pod -> Step] /\ at' \in [Pod -> Nat \ {0}]
         /\ \A q \in Pod : Placed(q)'
BY DEF SeederTypeOK, Abort, Placed, Step, Ended, RoleSteps, UserSteps

\* The account a pod is at.
LEMMA AtAccount ==
  ASSUME SeederTypeOK, NEW p \in Pod, pc[p] \in UserSteps
  PROVE  at[p] \in 1 .. Len(Users) /\ UserOf(p) \in Account
BY Lists DEF SeederTypeOK, Placed, UserOf

LEMMA AtRole ==
  ASSUME SeederTypeOK, NEW p \in Pod, pc[p] \in RoleSteps
  PROVE  at[p] \in 1 .. Len(RoleDefs) /\ RoleOf(p) \in Role
BY Lists DEF SeederTypeOK, Placed, RoleOf

\* Where each step leaves the pods.
LEMMA Moves ==
  ASSUME SeederTypeOK, NEW p \in Pod, Seed(p) \/ Crash(p)
  PROVE  /\ pc' \in [Pod -> Step] /\ at' \in [Pod -> Nat \ {0}]
         /\ \A q \in Pod : Placed(q)'
<1> USE DEF Step, RoleSteps, UserSteps, Ended
<1>1. at[p] \in Nat \ {0} /\ Len(Users) \in Nat \ {0} /\ Len(RoleDefs) \in Nat \ {0}
  BY Lists DEF SeederTypeOK
<1>2. /\ pc[p] \in RoleSteps => at[p] <= Len(RoleDefs)
      /\ pc[p] \in UserSteps => at[p] <= Len(Users)
  BY DEF SeederTypeOK, Placed
<1>3. CASE NextRole(p) /\ pc[p] \in RoleSteps
  BY <1>1, <1>2, <1>3, MovesTyped DEF NextRole
<1>4. CASE NextUser(p) /\ pc[p] \in UserSteps
  BY <1>1, <1>2, <1>4, MovesTyped DEF NextUser
<1>5. CASE Abort(p)
  BY <1>5, AbortTyped
<1>6. CASE Crash(p)
  BY <1>6 DEF Crash, SeederTypeOK, Placed
<1>7. CASE \/ pc[p] = "findRole" /\ Goto(p, "createRole")
           \/ pc[p] \in UserSteps /\ \E step \in UserSteps : Goto(p, step)
  <2>1. CASE pc[p] = "findRole" /\ Goto(p, "createRole")
    BY <2>1, <1>1, <1>2, GotoTyped
  <2>2. CASE pc[p] \in UserSteps /\ \E step \in UserSteps : Goto(p, step)
    <3>1. PICK step \in UserSteps : Goto(p, step)
      BY <2>2
    <3> QED
      BY <3>1, <2>2, <1>1, <1>2, GotoTyped
  <2> QED
    BY <1>7, <2>1, <2>2
<1>8. CASE pc[p] = "off" /\ Goto(p, "findRole")
  <2>1. at[p] <= Len(RoleDefs)
    BY <1>8, <1>1 DEF SeederTypeOK, Placed
  <2> QED
    BY <1>8, <2>1, GotoTyped
<1> QED
  BY <1>3, <1>4, <1>5, <1>6, <1>7, <1>8
     DEF Seed, FetchRestaurants, FindRole, CreateRole, FindUser, CreateUser, GrantRole,
         CountRole, InsertRole, EnsureTenant, Fail, Skip

LEMMA TypingSeed ==
  ASSUME SeederTypeOK, NEW p \in Pod, Seed(p)
  PROVE  SeederTypeOK'
<1>1. /\ pc' \in [Pod -> Step] /\ at' \in [Pod -> Nat \ {0}]
      /\ \A q \in Pod : Placed(q)'
  BY Moves
<1>2. pc[p] \in RoleSteps => RoleOf(p) \in Role
  BY AtRole
<1>3. pc[p] \in UserSteps => UserOf(p) \in Account
  BY AtAccount
<1>4. ASSUME Fault PROVE faults' \in Nat /\ faults' + crashes <= MaxFailures
  BY <1>4, SeederAssumption DEF Fault, SeederTypeOK
<1>5. \A e \in Edition : <<e, "expected">> \in Restaurant
  BY DEF Restaurant
<1> USE <1>1, <1>2, <1>3, <1>4, <1>5 DEF SeederTypeOK, RoleSteps, UserSteps, Fail, Skip
<1>6. CASE FetchRestaurants(p)
  BY <1>6 DEF FetchRestaurants, tables
<1>7. CASE FindRole(p)
  BY <1>7 DEF FindRole, tables
<1>8. CASE CreateRole(p)
  BY <1>8 DEF CreateRole
<1>9. CASE FindUser(p)
  BY <1>9 DEF FindUser, tables
<1>10. CASE CreateUser(p)
  <2>1. tenant' \in [Account -> Restaurant \cup {None}]
    BY <1>10 DEF CreateUser
  <2>2. skipped' \in [Pod -> SUBSET Account]
    BY <1>10 DEF CreateUser
  <2> QED
    BY <1>10, <2>1, <2>2 DEF CreateUser
<1>11. CASE GrantRole(p)
  BY <1>11 DEF GrantRole
<1>12. CASE CountRole(p)
  BY <1>12 DEF CountRole, tables
<1>13. CASE InsertRole(p)
  BY <1>13 DEF InsertRole
<1>14. CASE EnsureTenant(p)
  <2>1. tenant' \in [Account -> Restaurant \cup {None}]
    BY <1>14 DEF EnsureTenant
  <2>2. skipped' \in [Pod -> SUBSET Account]
    BY <1>14 DEF EnsureTenant
  <2> QED
    BY <1>14, <2>1, <2>2 DEF EnsureTenant
<1> QED
  BY <1>6, <1>7, <1>8, <1>9, <1>10, <1>11, <1>12, <1>13, <1>14 DEF Seed

LEMMA TypingStep == SeederTypeOK /\ [Next]_vars => SeederTypeOK'
<1> SUFFICES ASSUME SeederTypeOK, [Next]_vars PROVE SeederTypeOK'
  OBVIOUS
<1>1. ASSUME NEW p \in Pod, Seed(p) PROVE SeederTypeOK'
  BY <1>1, TypingSeed
<1>2. ASSUME NEW p \in Pod, Crash(p) PROVE SeederTypeOK'
  <2>1. /\ pc' \in [Pod -> Step] /\ at' \in [Pod -> Nat \ {0}]
        /\ \A q \in Pod : Placed(q)'
    BY <1>2, Moves
  <2> QED
    BY <1>2, <2>1, SeederAssumption DEF Crash, SeederTypeOK, tables
<1>3. ASSUME NEW a \in Account, DeleteUser(a) PROVE SeederTypeOK'
  BY <1>3 DEF DeleteUser, SeederTypeOK, locals, Placed
<1>4. CASE RebuildFranchise
  BY <1>4, SeederAssumption DEF RebuildFranchise, SeederTypeOK, Edition, tables, locals, Placed
<1>5. CASE UNCHANGED vars
  BY <1>5 DEF vars, tables, locals, SeederTypeOK, Placed
<1> QED
  BY <1>1, <1>2, <1>3, <1>4, <1>5 DEF Next

(***************************************************************************)
(* The inductive invariant.                                                *)
(***************************************************************************)
\* The account a pod read exists, and has its role once the role was ensured.
RoleFollowed(p) ==
  /\ pc[p] \in {"countRole", "insertRole", "tenant"} => UserOf(p) \in present
  /\ pc[p] = "tenant" => UserOf(p) \in granted

\* As long as franchise-service keeps its ids, a pod only holds a current list,
\* and the attachment it read, or wrote with a new account, is still good.
TenantFollowed(p) ==
  edition = 1 =>
    /\ list[p] \in {None, 1}
    /\ pc[p] \in {"countRole", "insertRole", "tenant"} /\ seen[p] \in Known(1) =>
         tenant[UserOf(p)] \in Known(1)
    /\ pc[p] = "grant" /\ UserOf(p) \in Manager /\ list[p] # None =>
         tenant[UserOf(p)] \in Known(1)

\* A pod that ended in failure, or is about to: another inserted its role.
Doomed(p) == pc[p] = "failed" \/ (pc[p] = "createRole" /\ RoleOf(p) \in roles)

TablesSound ==
  /\ edition >= 1
  /\ \A a \in Account : tenant[a] # None => a \in present

IInv ==
  /\ SeederTypeOK
  /\ TablesSound
  /\ \A p \in Pod : RoleFollowed(p) /\ TenantFollowed(p)
  /\ SeededAccountsHaveRoles
  /\ ManagersAreAttached
  /\ faults = 0 => Pod = {} \/ \E p \in Pod : ~Doomed(p)

\* What every step leaves of the tables.
TablesAdvance ==
  /\ present \subseteq present' /\ granted \subseteq granted' /\ deleted \subseteq deleted'
  /\ edition' >= edition
  /\ edition' = 1 => \A a \in Account : tenant[a] \in Known(1) => tenant'[a] \in Known(1)

LEMMA TablesMoveForward ==
  ASSUME IInv, Next
  PROVE  TablesAdvance /\ TablesSound'
<1> USE DEF IInv, SeederTypeOK, TablesSound, TablesAdvance, UserSteps
<1>1. edition \in Nat /\ edition >= 1 /\ None \notin Known(1)
  BY SeederAssumption DEF Edition, Known, Restaurant
<1>2. CASE RebuildFranchise
  BY <1>1, <1>2 DEF RebuildFranchise, tables
<1>3. ASSUME NEW a \in Account, DeleteUser(a) PROVE TablesAdvance /\ TablesSound'
  BY <1>1, <1>3 DEF DeleteUser
<1>4. ASSUME NEW p \in Pod, CreateUser(p) PROVE TablesAdvance /\ TablesSound'
  <2>1. UserOf(p) \in Account
    BY <1>4, AtAccount DEF CreateUser
  <2> QED
    BY <1>1, <1>4, <2>1 DEF CreateUser
<1>5. ASSUME NEW p \in Pod, EnsureTenant(p) PROVE TablesAdvance /\ TablesSound'
  <2>1. UserOf(p) \in Account /\ UserOf(p) \in present
    BY <1>5, AtAccount DEF EnsureTenant, RoleFollowed
  <2>2. edition = 1 /\ list[p] # None => <<list[p], "expected">> \in Known(1)
    BY DEF TenantFollowed, Known
  <2> QED
    BY <1>1, <1>5, <2>1, <2>2 DEF EnsureTenant
<1>6. ASSUME NEW p \in Pod, Seed(p) \/ Crash(p), ~CreateUser(p), ~EnsureTenant(p)
      PROVE  TablesAdvance /\ TablesSound'
  BY <1>1, <1>6 DEF Seed, Crash, FetchRestaurants, FindRole, CreateRole, FindUser,
                    GrantRole, CountRole, InsertRole, tables
<1> QED
  BY <1>2, <1>3, <1>4, <1>5, <1>6 DEF Next, Seed

\* A seeding pod leaves the others where they are, and only gets past an account
\* by NextUser.
LEMMA PassedSeed ==
  ASSUME SeederTypeOK, NEW p \in Pod, Seed(p), NEW q \in Pod, NEW i \in Passed(q)'
  PROVE  i \in Passed(q) \/ (q = p /\ pc[p] \in UserSteps /\ i = at[p] /\ NextUser(p))
<1>1. at[p] \in Nat \ {0} /\ i \in Nat \ {0} /\ i <= Len(Users) /\ Len(Users) \in Nat
  BY Lists DEF SeederTypeOK, Passed
<1>2. pc \in [Pod -> Step] /\ at \in [Pod -> Nat \ {0}]
  BY DEF SeederTypeOK
<1>3. pc[p] \in UserSteps => at[p] \in 1 .. Len(Users)
  BY AtAccount
<1> USE <1>1, <1>2, <1>3 DEF Passed, RoleSteps, UserSteps
<1>4. CASE NextRole(p) /\ pc[p] \in RoleSteps
  BY <1>4 DEF NextRole, NextOf
<1>5. CASE NextUser(p) /\ pc[p] \in UserSteps
  BY <1>5 DEF NextUser, NextOf
<1>6. CASE Abort(p)
  BY <1>6 DEF Abort
<1>7. CASE \E step \in RoleSteps : Goto(p, step)
  BY <1>7 DEF Goto
<1>8. CASE pc[p] \in UserSteps /\ \E step \in UserSteps : Goto(p, step)
  BY <1>8 DEF Goto
<1> QED
  BY <1>4, <1>5, <1>6, <1>7, <1>8
     DEF Seed, FetchRestaurants, FindRole, CreateRole, FindUser, CreateUser, GrantRole,
         CountRole, InsertRole, EnsureTenant, Fail, Skip

LEMMA OthersStay ==
  ASSUME SeederTypeOK, NEW p \in Pod, Seed(p) \/ Crash(p), NEW q \in Pod, q # p
  PROVE  /\ pc'[q] = pc[q] /\ at'[q] = at[q] /\ list'[q] = list[q]
         /\ seen'[q] = seen[q] /\ skipped'[q] = skipped[q]
<1>1. /\ pc \in [Pod -> Step] /\ at \in [Pod -> Nat \ {0}]
      /\ list \in [Pod -> Edition \cup {None}]
      /\ seen \in [Pod -> Restaurant \cup {None}] /\ skipped \in [Pod -> SUBSET Account]
  BY DEF SeederTypeOK
<1> QED
  BY <1>1 DEF Seed, Crash, FetchRestaurants, FindRole, CreateRole, FindUser, CreateUser,
              GrantRole, CountRole, InsertRole, EnsureTenant, Fail, Skip, Abort, Goto,
              NextRole, NextUser, NextOf

\* What a seeding pod keeps of its own: the accounts it gave up on and, from the
\* moment it fetched it, its list.
LEMMA OwnLocals ==
  ASSUME SeederTypeOK, NEW p \in Pod, Seed(p)
  PROVE  /\ skipped[p] \subseteq skipped'[p]
         /\ pc[p] # "off" => list'[p] = list[p]
<1>1. list \in [Pod -> Edition \cup {None}] /\ skipped \in [Pod -> SUBSET Account]
  BY DEF SeederTypeOK
<1> QED
  BY <1>1 DEF Seed, FetchRestaurants, FindRole, CreateRole, FindUser, CreateUser,
              GrantRole, CountRole, InsertRole, EnsureTenant, Fail, Skip

\* A step of the environment moves no pod.
LEMMA EnvironmentStays ==
  ASSUME Next, ~\E p \in Pod : Seed(p) \/ Crash(p)
  PROVE  UNCHANGED locals /\ UNCHANGED <<roles, present, granted, tenant, faults, crashes>>
BY DEF Next, RebuildFranchise, DeleteUser, tables

LEMMA RoleStep ==
  ASSUME IInv, Next
  PROVE  \A p \in Pod : RoleFollowed(p)'
<1> SUFFICES ASSUME NEW p \in Pod PROVE RoleFollowed(p)'
  OBVIOUS
<1>1. TablesAdvance /\ SeederTypeOK /\ RoleFollowed(p)
  BY TablesMoveForward DEF IInv
<1>2. pc \in [Pod -> Step] /\ at \in [Pod -> Nat \ {0}]
  BY <1>1 DEF SeederTypeOK
<1>3. ASSUME NEW q \in Pod, Seed(q) \/ Crash(q), q # p PROVE RoleFollowed(p)'
  BY <1>1, <1>3, OthersStay DEF RoleFollowed, TablesAdvance, UserOf
<1>4. CASE Crash(p)
  BY <1>2, <1>4 DEF Crash, RoleFollowed
<1>5. CASE Seed(p)
  <2>1. CASE FindUser(p)
    BY <1>1, <1>2, <2>1 DEF FindUser, Goto, Fail, Abort, RoleFollowed, TablesAdvance, UserOf
  <2>2. CASE CountRole(p)
    BY <1>1, <1>2, <2>2 DEF CountRole, Goto, Fail, Abort, RoleFollowed, TablesAdvance, UserOf, tables
  <2>3. CASE InsertRole(p)
    BY <1>1, <1>2, <2>3 DEF InsertRole, Goto, Fail, Abort, RoleFollowed, TablesAdvance, UserOf
  <2>4. CASE ~FindUser(p) /\ ~CountRole(p) /\ ~InsertRole(p)
    <3>1. pc'[p] \notin {"countRole", "insertRole", "tenant"}
      BY <1>2, <1>5, <2>4
         DEF Seed, FetchRestaurants, FindRole, CreateRole, CreateUser, GrantRole,
             EnsureTenant, Fail, Skip, Abort, Goto, NextRole, NextUser, NextOf
    <3> QED
      BY <3>1 DEF RoleFollowed
  <2> QED
    BY <2>1, <2>2, <2>3, <2>4
<1>6. CASE ~\E q \in Pod : Seed(q) \/ Crash(q)
  BY <1>1, <1>6, EnvironmentStays DEF RoleFollowed, UserOf, locals
<1> QED
  BY <1>3, <1>4, <1>5, <1>6

LEMMA SeededStep ==
  ASSUME IInv, Next
  PROVE  SeededAccountsHaveRoles'
<1> SUFFICES ASSUME NEW q \in Pod, NEW i \in Passed(q)'
             PROVE  Users[i] \in (skipped[q] \cup granted)'
  BY DEF SeededAccountsHaveRoles
<1>1. TablesAdvance /\ SeederTypeOK
  BY TablesMoveForward DEF IInv
<1>2. i \in Passed(q) => Users[i] \in skipped[q] \cup granted
  BY DEF IInv, SeededAccountsHaveRoles
<1>3. pc \in [Pod -> Step] /\ skipped \in [Pod -> SUBSET Account]
  BY <1>1 DEF SeederTypeOK
<1>4. ASSUME NEW p \in Pod, Seed(p) PROVE Users[i] \in (skipped[q] \cup granted)'
  <2>1. skipped[q] \subseteq skipped'[q]
    BY <1>1, <1>4, OthersStay, OwnLocals
  <2>2. CASE i \in Passed(q)
    BY <1>1, <1>2, <2>1, <2>2 DEF TablesAdvance
  <2>3. CASE q = p /\ pc[p] \in UserSteps /\ i = at[p] /\ NextUser(p)
    <3>1. Users[i] = UserOf(p)
      BY <2>3 DEF UserOf
    <3>2. CASE GrantRole(p)
      BY <1>3, <2>3, <3>1, <3>2 DEF GrantRole, Fail, Abort, NextUser, NextOf
    <3>3. CASE CreateUser(p)
      BY <1>3, <2>3, <3>1, <3>3 DEF CreateUser, Skip, Goto, NextUser, NextOf
    <3>4. CASE EnsureTenant(p)
      BY <1>1, <2>3, <3>1, <3>4 DEF EnsureTenant, IInv, RoleFollowed, TablesAdvance
    <3>5. CASE ~GrantRole(p) /\ ~CreateUser(p) /\ ~EnsureTenant(p)
      BY <1>3, <1>4, <2>3, <3>5
         DEF Seed, FetchRestaurants, FindRole, CreateRole, FindUser, CountRole, InsertRole,
             Fail, Abort, Goto, NextUser, NextOf, UserSteps
    <3> QED
      BY <3>2, <3>3, <3>4, <3>5
  <2> QED
    BY <1>1, <1>4, <2>2, <2>3, PassedSeed
<1>5. ASSUME NEW p \in Pod, Crash(p) PROVE Users[i] \in (skipped[q] \cup granted)'
  <2>1. CASE p = q
    BY <1>3, <1>5, <2>1 DEF Crash, Passed, UserSteps
  <2>2. CASE p # q
    BY <1>1, <1>2, <1>5, <2>2, OthersStay DEF Passed, TablesAdvance
  <2> QED
    BY <2>1, <2>2
<1>6. CASE ~\E p \in Pod : Seed(p) \/ Crash(p)
  BY <1>2, <1>6, EnvironmentStays DEF Passed, locals
<1> QED
  BY <1>4, <1>5, <1>6

\* What the attachments rest on: the edition stood at 1 before the step too.
LEMMA SameEdition ==
  ASSUME IInv, Next, edition' = 1
  PROVE  edition = 1 /\ \A a \in Account : tenant[a] \in Known(1) => tenant'[a] \in Known(1)
<1>1. edition \in Nat /\ edition >= 1
  BY DEF IInv, SeederTypeOK, TablesSound, Edition
<1> QED
  BY <1>1, TablesMoveForward DEF TablesAdvance

LEMMA TenantStep ==
  ASSUME IInv, Next
  PROVE  \A p \in Pod : TenantFollowed(p)'
<1> SUFFICES ASSUME NEW p \in Pod, edition' = 1 PROVE TenantFollowed(p)'
  BY DEF TenantFollowed
<1>1. /\ SeederTypeOK /\ TenantFollowed(p) /\ RoleFollowed(p) /\ edition = 1
      /\ \A a \in Account : tenant[a] \in Known(1) => tenant'[a] \in Known(1)
  BY SameEdition DEF IInv
<1>2. /\ pc \in [Pod -> Step] /\ at \in [Pod -> Nat \ {0}]
      /\ list \in [Pod -> Edition \cup {None}] /\ seen \in [Pod -> Restaurant \cup {None}]
      /\ tenant \in [Account -> Restaurant \cup {None}]
  BY <1>1 DEF SeederTypeOK
<1>3. pc[p] \in UserSteps => UserOf(p) \in Account
  BY <1>1, AtAccount
<1>4. None \notin Known(1)
  BY SeederAssumption DEF Known, Restaurant, Edition
<1> USE DEF UserSteps
<1>5. ASSUME NEW q \in Pod, Seed(q) \/ Crash(q), q # p PROVE TenantFollowed(p)'
  BY <1>1, <1>3, <1>5, OthersStay DEF TenantFollowed, UserOf
<1>6. CASE Crash(p)
  BY <1>2, <1>6 DEF Crash, TenantFollowed
<1>7. CASE Seed(p)
  <2>1. list'[p] \in {None, 1}
    <3>1. CASE FetchRestaurants(p)
      BY <1>1, <1>2, <3>1 DEF FetchRestaurants
    <3>2. CASE ~FetchRestaurants(p)
      BY <1>1, <1>7, <3>2
         DEF TenantFollowed, Seed, FindRole, CreateRole, FindUser, CreateUser, GrantRole,
             CountRole, InsertRole, EnsureTenant
    <3> QED
      BY <3>1, <3>2
  <2>2. CASE FindUser(p)
    BY <1>1, <1>2, <1>3, <2>1, <2>2
       DEF FindUser, Goto, Fail, Abort, TenantFollowed, UserOf, tables
  <2>3. CASE CountRole(p) \/ InsertRole(p)
    BY <1>1, <1>2, <1>3, <2>1, <2>3
       DEF CountRole, InsertRole, Goto, Fail, Abort, TenantFollowed, UserOf, tables
  <2>4. CASE CreateUser(p)
    <3>1. CASE pc'[p] = "grant"
      <4>1. /\ tenant' = [tenant EXCEPT ![UserOf(p)] =
                             IF UserOf(p) \in Manager /\ list[p] # None
                               THEN <<list[p], "expected">> ELSE None]
            /\ at' = at /\ list' = list
        BY <1>2, <2>4, <3>1 DEF CreateUser, Skip, NextUser, NextOf, Goto
      <4>2. UserOf(p)' = UserOf(p) /\ UserOf(p) \in Account
        BY <4>1, <1>3, <2>4 DEF UserOf, CreateUser
      <4>3. UserOf(p) \in Manager /\ list[p] # None => tenant'[UserOf(p)] \in Known(1)
        BY <4>1, <4>2, <1>1, <1>2 DEF TenantFollowed, Known
      <4> QED
        BY <2>1, <3>1, <4>1, <4>2, <4>3 DEF TenantFollowed
    <3>2. CASE pc'[p] # "grant"
      BY <1>2, <2>1, <2>4, <3>2
         DEF CreateUser, Skip, NextUser, NextOf, Goto, TenantFollowed
    <3> QED
      BY <3>1, <3>2
  <2>5. CASE ~FindUser(p) /\ ~CountRole(p) /\ ~InsertRole(p) /\ ~CreateUser(p)
    <3>1. pc'[p] \notin {"countRole", "insertRole", "tenant", "grant"}
      BY <1>2, <1>7, <2>5
         DEF Seed, FetchRestaurants, FindRole, CreateRole, GrantRole,
             EnsureTenant, Fail, Skip, Abort, Goto, NextRole, NextUser, NextOf
    <3> QED
      BY <2>1, <3>1 DEF TenantFollowed
  <2> QED
    BY <2>2, <2>3, <2>4, <2>5
<1>8. CASE ~\E q \in Pod : Seed(q) \/ Crash(q)
  BY <1>1, <1>3, <1>8, EnvironmentStays DEF TenantFollowed, UserOf, locals
<1> QED
  BY <1>5, <1>6, <1>7, <1>8

LEMMA AttachedStep ==
  ASSUME IInv, Next
  PROVE  ManagersAreAttached'
<1> SUFFICES ASSUME edition' = 1, NEW q \in Pod, NEW i \in Passed(q)',
                    Users[i] \in Manager, list'[q] # None
             PROVE  Users[i] \in (skipped[q] \cup deleted)' \/ tenant'[Users[i]] \in Known(1)
  BY DEF ManagersAreAttached
<1> DEFINE Attached == Users[i] \in (skipped[q] \cup deleted)' \/ tenant'[Users[i]] \in Known(1)
<1>1. /\ SeederTypeOK /\ TablesAdvance /\ edition = 1 /\ RoleFollowed(q) /\ TenantFollowed(q)
      /\ \A a \in Account : tenant[a] \in Known(1) => tenant'[a] \in Known(1)
  BY SameEdition, TablesMoveForward DEF IInv
<1>2. i \in Passed(q) /\ list[q] # None =>
        Users[i] \in skipped[q] \cup deleted \/ tenant[Users[i]] \in Known(1)
  BY <1>1 DEF IInv, ManagersAreAttached
<1>3. /\ pc \in [Pod -> Step] /\ skipped \in [Pod -> SUBSET Account]
      /\ list \in [Pod -> Edition \cup {None}]
      /\ tenant \in [Account -> Restaurant \cup {None}]
  BY <1>1 DEF SeederTypeOK
<1>4. Users[i] \in Account
  BY Lists DEF Passed
<1>5. ASSUME NEW p \in Pod, Seed(p) PROVE Attached
  <2>1. skipped[q] \subseteq skipped'[q]
    BY <1>1, <1>5, OthersStay, OwnLocals
  <2>2. CASE i \in Passed(q)
    <3>1. list'[q] = list[q]
      BY <1>1, <1>5, <2>2, OthersStay, OwnLocals DEF Passed, UserSteps
    <3> QED
      BY <1>1, <1>2, <1>4, <2>1, <2>2, <3>1 DEF TablesAdvance
  <2>3. CASE q = p /\ pc[p] \in UserSteps /\ i = at[p] /\ NextUser(p)
    <3>1. Users[i] = UserOf(p)
      BY <2>3 DEF UserOf
    <3>2. list[p] # None /\ list[p] = 1
      BY <1>1, <1>5, <2>3, OwnLocals DEF TenantFollowed, UserSteps
    <3>3. CASE GrantRole(p)
      BY <1>1, <1>4, <2>3, <3>1, <3>2, <3>3 DEF GrantRole, TenantFollowed
    <3>4. CASE CreateUser(p)
      BY <1>3, <2>3, <3>1, <3>4 DEF CreateUser, Skip, Goto, NextUser, NextOf
    <3>5. CASE EnsureTenant(p)
      <4>1. CASE seen[p] \in Known(1)
        BY <1>1, <1>4, <2>3, <3>1, <3>5, <4>1 DEF EnsureTenant, TenantFollowed
      <4>2. CASE seen[p] \notin Known(1)
        <5>1. \/ Skip(p)
              \/ tenant' = IF UserOf(p) \in deleted THEN tenant
                           ELSE [tenant EXCEPT ![UserOf(p)] = <<list[p], "expected">>]
          BY <3>1, <3>2, <3>5, <4>2 DEF EnsureTenant
        <5>2. CASE Skip(p)
          BY <1>3, <2>3, <3>1, <5>2 DEF Skip
        <5>3. CASE UserOf(p) \in deleted
          BY <1>1, <3>1, <5>3 DEF TablesAdvance
        <5>4. CASE /\ UserOf(p) \notin deleted
                   /\ tenant' = [tenant EXCEPT ![UserOf(p)] = <<list[p], "expected">>]
          BY <1>3, <1>4, <3>1, <3>2, <5>4 DEF Known
        <5> QED
          BY <5>1, <5>2, <5>3, <5>4
      <4> QED
        BY <4>1, <4>2
    <3>6. CASE ~GrantRole(p) /\ ~CreateUser(p) /\ ~EnsureTenant(p)
      BY <1>3, <1>5, <2>3, <3>6
         DEF Seed, FetchRestaurants, FindRole, CreateRole, FindUser, CountRole, InsertRole,
             Fail, Abort, Goto, NextUser, NextOf, UserSteps
    <3> QED
      BY <3>3, <3>4, <3>5, <3>6
  <2> QED
    BY <1>1, <1>5, <2>2, <2>3, PassedSeed
<1>6. ASSUME NEW p \in Pod, Crash(p) PROVE Attached
  <2>1. CASE p = q
    BY <1>3, <1>6, <2>1 DEF Crash
  <2>2. CASE p # q
    BY <1>1, <1>2, <1>4, <1>6, <2>2, OthersStay DEF Passed, TablesAdvance
  <2> QED
    BY <2>1, <2>2
<1>7. CASE ~\E p \in Pod : Seed(p) \/ Crash(p)
  BY <1>1, <1>2, <1>7, EnvironmentStays DEF Passed, locals, TablesAdvance
<1> QED
  BY <1>5, <1>6, <1>7 DEF Next

\* A pod whose step meets no fault is only doomed after it if it was before.
LEMMA SurefootedStep ==
  ASSUME SeederTypeOK, NEW p \in Pod, Seed(p), faults' = 0, ~Doomed(p)
  PROVE  ~Doomed(p)'
<1>1. pc \in [Pod -> Step] /\ at \in [Pod -> Nat \ {0}] /\ faults \in Nat
  BY DEF SeederTypeOK
<1>2. ~Fault
  BY <1>1 DEF Fault
<1>3. CASE FindRole(p)
  <2>1. CASE NextRole(p)
    BY <1>1, <2>1 DEF NextRole, NextOf, Doomed
  <2>2. CASE RoleOf(p) \notin roles /\ Goto(p, "createRole")
    BY <1>1, <1>3, <2>2 DEF FindRole, tables, Goto, Doomed, RoleOf
  <2> QED
    BY <1>2, <1>3, <2>1, <2>2 DEF FindRole, Fail
<1>4. CASE CreateRole(p)
  <2>1. NextRole(p)
    BY <1>2, <1>4 DEF CreateRole, Fail, Doomed
  <2> QED
    BY <1>1, <2>1 DEF NextRole, NextOf, Doomed
<1>5. CASE ~FindRole(p) /\ ~CreateRole(p)
  <2>1. pc'[p] \notin {"failed", "createRole"}
    BY <1>1, <1>2, <1>5
       DEF Seed, FetchRestaurants, FindUser, CreateUser, GrantRole, CountRole, InsertRole,
           EnsureTenant, Fail, Skip, Goto, NextUser, NextOf
  <2> QED
    BY <2>1 DEF Doomed
<1> QED
  BY <1>3, <1>4, <1>5

\* The pod that inserts a role dooms those about to insert it, and goes on.
LEMMA DoomedStep ==
  ASSUME IInv, Next, faults' = 0, Pod # {}
  PROVE  \E p \in Pod : ~Doomed(p)'
<1>1. SeederTypeOK /\ pc \in [Pod -> Step] /\ at \in [Pod -> Nat \ {0}] /\ faults \in Nat
  BY DEF IInv, SeederTypeOK
<1>2. ASSUME NEW p \in Pod, Crash(p) PROVE ~Doomed(p)'
  BY <1>1, <1>2 DEF Crash, Doomed
<1>3. ASSUME NEW p \in Pod, Seed(p) PROVE \E q \in Pod : ~Doomed(q)'
  <2>1. faults = 0
    BY <1>1, <1>3
       DEF Seed, FetchRestaurants, FindRole, CreateRole, FindUser, CreateUser, GrantRole,
           CountRole, InsertRole, EnsureTenant, Fail, Fault
  <2>2. PICK leader \in Pod : ~Doomed(leader)
    BY <2>1 DEF IInv
  <2>3. CASE ~Doomed(p)
    BY <1>1, <1>3, <2>3, SurefootedStep
  <2>4. CASE Doomed(p)
    <3>1. leader # p
      BY <2>2, <2>4
    <3>2. roles' = roles
      BY <1>3, <2>4
         DEF Doomed, Seed, FetchRestaurants, FindRole, CreateRole, FindUser, CreateUser,
             GrantRole, CountRole, InsertRole, EnsureTenant, tables
    <3>3. pc'[leader] = pc[leader] /\ at'[leader] = at[leader]
      BY <1>1, <1>3, <3>1, OthersStay
    <3> QED
      BY <2>2, <3>2, <3>3 DEF Doomed, RoleOf
  <2> QED
    BY <2>3, <2>4
<1>4. CASE ~\E p \in Pod : Seed(p) \/ Crash(p)
  BY <1>4, EnvironmentStays DEF Doomed, RoleOf, locals, IInv
<1> QED
  BY <1>2, <1>3, <1>4

LEMMA IInvInit == Init => IInv
<1> SUFFICES ASSUME Init PROVE IInv
  OBVIOUS
<1>1. \A p \in Pod : pc[p] = "off" /\ list[p] = None /\ Passed(p) = {}
  BY DEF Init, Passed, UserSteps
<1>2. SeededAccountsHaveRoles /\ ManagersAreAttached
  BY <1>1 DEF SeededAccountsHaveRoles, ManagersAreAttached
<1>3. \A p \in Pod : RoleFollowed(p) /\ TenantFollowed(p) /\ ~Doomed(p)
  BY <1>1 DEF RoleFollowed, TenantFollowed, Doomed
<1>4. TablesSound
  BY DEF Init, TablesSound
<1> QED
  BY <1>2, <1>3, <1>4, TypingInit DEF IInv

LEMMA IInvStep == IInv /\ [Next]_vars => IInv'
<1> SUFFICES ASSUME IInv, [Next]_vars PROVE IInv'
  OBVIOUS
<1>1. CASE Next
  <2>1. SeederTypeOK'
    BY <1>1, TypingStep DEF IInv
  <2>2. TablesSound'
    BY <1>1, TablesMoveForward
  <2>3. \A p \in Pod : RoleFollowed(p)' /\ TenantFollowed(p)'
    BY <1>1, RoleStep, TenantStep
  <2>4. SeededAccountsHaveRoles' /\ ManagersAreAttached'
    BY <1>1, SeededStep, AttachedStep
  <2>5. faults' = 0 => Pod = {} \/ \E p \in Pod : ~Doomed(p)'
    BY <1>1, DoomedStep
  <2> QED
    BY <2>1, <2>2, <2>3, <2>4, <2>5 DEF IInv
<1>2. CASE UNCHANGED vars
  BY <1>2
     DEF vars, tables, locals, IInv, SeederTypeOK, Placed, TablesSound, RoleFollowed,
         TenantFollowed, UserOf, RoleOf, SeededAccountsHaveRoles, ManagersAreAttached, Passed,
         Doomed
<1> QED
  BY <1>1, <1>2

\* The inductive invariant holds in every reachable state.
THEOREM SeederInvariance == Spec => []IInv
BY IInvInit, IInvStep, PTL DEF Spec

\* Every variable keeps its type: a pod is always at a place of its lists.
THEOREM SeederIsTyped == Spec => []SeederTypeOK
<1>1. IInv => SeederTypeOK
  BY DEF IInv
<1> QED
  BY <1>1, SeederInvariance, PTL

\* However many pods seed, crash and delete at once, an account that one of them
\* is through with has its role, unless it was given up with a warning.
THEOREM SeededAccountsKeepRoles == Spec => []SeededAccountsHaveRoles
<1>1. IInv => SeededAccountsHaveRoles
  BY DEF IInv
<1> QED
  BY <1>1, SeederInvariance, PTL

\* As long as franchise-service keeps its ids, a manager that a pod with a list
\* is through with is attached to a restaurant of that list.
THEOREM ManagersStayAttached == Spec => []ManagersAreAttached
<1>1. IInv => ManagersAreAttached
  BY DEF IInv
<1> QED
  BY <1>1, SeederInvariance, PTL

\* As long as no call fails, the races on the roles never stop every seeding.
THEOREM SeedingGoesOn == Spec => []SomeSeedingGoesOn
<1>1. IInv => SomeSeedingGoesOn
  BY DEF IInv, SomeSeedingGoesOn, Doomed
<1> QED
  BY <1>1, SeederInvariance, PTL

(***************************************************************************)
(* How long a seeding lasts.                                               *)
(***************************************************************************)
\* What one account asks for at most, from this call on.
OnAccount(step) ==
  CASE step = "findUser" -> 4
    [] step \in {"createUser", "countRole"} -> 3
    [] step \in {"grant", "insertRole"} -> 2
    [] OTHER -> 1

\* The calls a pod may still make before its seeding is over.
CallsLeft(p) ==
  CASE pc[p] = "off" -> 2 * Len(RoleDefs) + 4 * Len(Users) + 1
    [] pc[p] = "findRole" -> 2 * (Len(RoleDefs) - at[p]) + 2 + 4 * Len(Users)
    [] pc[p] = "createRole" -> 2 * (Len(RoleDefs) - at[p]) + 1 + 4 * Len(Users)
    [] pc[p] \in UserSteps -> 4 * (Len(Users) - at[p]) + OnAccount(pc[p])
    [] OTHER -> 0

LEMMA OwnCallsRunOut ==
  ASSUME SeederTypeOK, NEW p \in Pod, Seed(p)
  PROVE  CallsLeft(p)' < CallsLeft(p)
<1> USE DEF SeederTypeOK
<1>1. at[p] \in Nat \ {0} /\ Len(Users) \in Nat \ {0} /\ Len(RoleDefs) \in Nat \ {0}
  BY Lists
<1>2. /\ pc[p] = "off" => at[p] = 1
      /\ pc[p] \in RoleSteps => at[p] <= Len(RoleDefs)
      /\ pc[p] \in UserSteps => at[p] <= Len(Users)
  BY DEF Placed
<1> USE <1>1, <1>2 DEF CallsLeft, OnAccount, RoleSteps, UserSteps, Step, Ended
<1>3. CASE NextRole(p) /\ pc[p] \in RoleSteps
  <2>1. CASE at[p] = Len(RoleDefs)
    <3>1. pc'[p] = "findUser" /\ at'[p] = 1
      BY <1>3, <2>1 DEF NextRole, NextOf
    <3>2. CallsLeft(p)' = 4 * Len(Users)
      BY <3>1
    <3> QED
      BY <1>3, <2>1, <3>2
  <2>2. CASE at[p] # Len(RoleDefs)
    <3>1. pc'[p] = "findRole" /\ at'[p] = at[p] + 1
      BY <1>3, <2>2 DEF NextRole, NextOf
    <3>2. CallsLeft(p)' = 2 * (Len(RoleDefs) - at[p]) + 4 * Len(Users)
      BY <3>1
    <3> QED
      BY <1>3, <3>2, SMTT(20)
  <2> QED
    BY <2>1, <2>2
<1>4. CASE NextUser(p) /\ pc[p] \in UserSteps
  BY <1>4, SMTT(20) DEF NextUser, NextOf
<1>5. CASE Abort(p) /\ pc[p] \in RoleSteps \cup UserSteps
  BY <1>5, SMTT(20) DEF Abort
<1>6. CASE /\ UNCHANGED at
           /\ pc' = [pc EXCEPT ![p] = pc'[p]]
           /\ \/ pc[p] = "off" /\ pc'[p] = "findRole"
              \/ pc[p] = "findRole" /\ pc'[p] = "createRole"
              \/ pc[p] = "findUser" /\ pc'[p] \in {"createUser", "countRole"}
              \/ pc[p] = "createUser" /\ pc'[p] = "grant"
              \/ pc[p] = "countRole" /\ pc'[p] \in {"insertRole", "tenant"}
              \/ pc[p] = "insertRole" /\ pc'[p] = "tenant"
  <2>1. at'[p] = at[p]
    BY <1>6
  <2>2. CASE pc[p] = "off"
    BY <1>6, <2>1, <2>2
  <2>3. CASE pc[p] = "findRole"
    BY <1>6, <2>1, <2>3
  <2>4. CASE pc[p] \in UserSteps
    <3>1. /\ OnAccount(pc[p]) \in Nat /\ OnAccount(pc'[p]) \in Nat
          /\ OnAccount(pc'[p]) < OnAccount(pc[p]) /\ pc'[p] \in UserSteps
      BY <1>6, <2>4
    <3> HIDE DEF OnAccount
    <3>2. /\ CallsLeft(p) = 4 * (Len(Users) - at[p]) + OnAccount(pc[p])
          /\ CallsLeft(p)' = 4 * (Len(Users) - at[p]) + OnAccount(pc'[p])
      BY <2>1, <2>4, <3>1
    <3> HIDE DEF CallsLeft
    <3> QED
      BY <3>1, <3>2
  <2> QED
    BY <1>6, <2>2, <2>3, <2>4
<1> HIDE DEF CallsLeft, OnAccount
<1>7. CASE FetchRestaurants(p)
  BY <1>6, <1>7 DEF FetchRestaurants, Goto
<1>8. CASE FindRole(p) \/ CreateRole(p)
  BY <1>3, <1>5, <1>6, <1>8 DEF FindRole, CreateRole, Goto, Fail
<1>9. CASE FindUser(p) \/ CreateUser(p) \/ GrantRole(p)
  BY <1>4, <1>5, <1>6, <1>9 DEF FindUser, CreateUser, GrantRole, Goto, Fail, Skip
<1>10. CASE CountRole(p) \/ InsertRole(p) \/ EnsureTenant(p)
  BY <1>4, <1>5, <1>6, <1>10 DEF CountRole, InsertRole, EnsureTenant, Goto, Fail, Skip
<1> QED
  BY <1>7, <1>8, <1>9, <1>10 DEF Seed

\* A seeding ends after two calls for each role and four for each account at most,
\* whatever the pods that seed beside it do: only the death of its pod, which
\* `crashes` counts, makes it begin again.
THEOREM SeedingsEnd ==
  Spec => [][\A p \in Pod :
               \/ CallsLeft(p)' = CallsLeft(p) /\ ~Seed(p)
               \/ CallsLeft(p)' < CallsLeft(p)
               \/ crashes' = crashes + 1]_vars
<1>1. ASSUME SeederTypeOK, [Next]_vars, NEW p \in Pod, ~Seed(p), crashes' # crashes + 1
      PROVE  CallsLeft(p)' = CallsLeft(p)
  <2>1. pc'[p] = pc[p] /\ at'[p] = at[p]
    <3>1. ASSUME NEW q \in Pod, Crash(q) PROVE FALSE
      BY <1>1, <3>1 DEF Crash
    <3>2. ASSUME NEW q \in Pod \ {p}, Seed(q) PROVE pc'[p] = pc[p] /\ at'[p] = at[p]
      BY <1>1, <3>2, OthersStay
    <3>3. CASE UNCHANGED vars \/ RebuildFranchise \/ \E a \in Account : DeleteUser(a)
      BY <3>3 DEF vars, locals, RebuildFranchise, DeleteUser
    <3> QED
      BY <1>1, <3>1, <3>2, <3>3 DEF Next
  <2> QED
    BY <2>1 DEF CallsLeft
<1>2. SeederTypeOK /\ [Next]_vars =>
        [\A p \in Pod :
           \/ CallsLeft(p)' = CallsLeft(p) /\ ~Seed(p)
           \/ CallsLeft(p)' < CallsLeft(p)
           \/ crashes' = crashes + 1]_vars
  BY <1>1, OwnCallsRunOut
<1> QED
  BY <1>2, SeederIsTyped, PTL DEF Spec
(***************************************************************************)
(* What a seeding leaves alone.                                            *)
(***************************************************************************)
\* A list is of restaurants that exist or existed. Seedings only write restaurants
\* they expect, so a manager who is at another one has been there since before
\* the pod read its row.
ReadFollows(p) ==
  /\ list[p] # None => list[p] \in 0 .. edition
  /\ pc[p] \in {"countRole", "insertRole", "tenant"}
       /\ tenant[UserOf(p)] \in Edition \X {"other"} => seen[p] = tenant[UserOf(p)]

LEMMA TenantsWritten ==
  ASSUME IInv, [Next]_vars, NEW a \in Account, tenant'[a] # tenant[a]
  PROVE  \E p \in Pod :
           /\ UserOf(p) = a
           /\ tenant'[a] = None \/ tenant'[a] = <<list[p], "expected">>
           /\ \/ CreateUser(p) /\ a \notin present
              \/ /\ EnsureTenant(p) /\ list[p] # None /\ seen[p] \notin Known(list[p])
                 /\ tenant'[a] = <<list[p], "expected">>
<1>1. tenant \in [Account -> Restaurant \cup {None}]
  BY DEF IInv, SeederTypeOK
<1>2. PICK p \in Pod : CreateUser(p) \/ EnsureTenant(p)
  BY DEF Next, Seed, Crash, RebuildFranchise, DeleteUser, FetchRestaurants, FindRole, CreateRole,
         FindUser, GrantRole, CountRole, InsertRole, vars, tables
<1>3. CASE CreateUser(p)
  BY <1>1, <1>3 DEF CreateUser
<1>4. CASE EnsureTenant(p)
  BY <1>1, <1>4 DEF EnsureTenant
<1> QED
  BY <1>2, <1>3, <1>4

LEMMA ReadFollowsInit == Init => \A p \in Pod : ReadFollows(p)
BY DEF Init, ReadFollows

LEMMA ReadFollowsStep ==
  ASSUME IInv, \A p \in Pod : ReadFollows(p), [Next]_vars
  PROVE  \A p \in Pod : ReadFollows(p)'
<1> SUFFICES ASSUME NEW p \in Pod PROVE ReadFollows(p)'
  OBVIOUS
<1> USE SeederAssumption
<1>1. /\ SeederTypeOK /\ ReadFollows(p) /\ edition \in Nat /\ None \notin Edition
      /\ pc \in [Pod -> Step] /\ at \in [Pod -> Nat \ {0}]
      /\ list \in [Pod -> Edition \cup {None}] /\ seen \in [Pod -> Restaurant \cup {None}]
  BY SMTT(20) DEF IInv, SeederTypeOK, Edition
<1>2. edition' \in Nat /\ edition' >= edition
  BY <1>1, SMTT(20) DEF Next, Seed, Crash, RebuildFranchise, DeleteUser, FetchRestaurants, FindRole,
         CreateRole, FindUser, CreateUser, GrantRole, CountRole, InsertRole, EnsureTenant,
         vars
\* Who is at another restaurant than expected was there before the step.
<1>3. ASSUME NEW a \in Account, tenant'[a] \in Edition \X {"other"} PROVE tenant'[a] = tenant[a]
  <2>1. None \notin Edition \X {"other"}
    BY DEF Restaurant
  <2>2. \A e : <<e, "expected">> \notin Edition \X {"other"}
    OBVIOUS
  <2> QED
    BY <1>3, <2>1, <2>2, TenantsWritten
<1>4. CASE pc'[p] = pc[p] /\ at'[p] = at[p] /\ list'[p] = list[p] /\ seen'[p] = seen[p]
  <2>1. pc[p] \in UserSteps => UserOf(p) \in Account
    BY <1>1, AtAccount
  <2>2. UserOf(p)' = UserOf(p)
    BY <1>4 DEF UserOf
  <2>3. list'[p] # None => list'[p] \in 0 .. edition'
    BY <1>1, <1>2, <1>4 DEF ReadFollows
  <2>4. ASSUME pc'[p] \in {"countRole", "insertRole", "tenant"},
               tenant'[UserOf(p)] \in Edition \X {"other"}
        PROVE  seen'[p] = tenant'[UserOf(p)]
    <3>1. tenant'[UserOf(p)] = tenant[UserOf(p)]
      BY <1>3, <1>4, <2>1, <2>4 DEF UserSteps
    <3> QED
      BY <1>1, <1>4, <2>4, <3>1 DEF ReadFollows
  <2> QED
    BY <2>2, <2>3, <2>4 DEF ReadFollows
<1>5. CASE Crash(p)
  BY <1>1, <1>5 DEF Crash, ReadFollows
<1>6. CASE Seed(p)
  <2>1. list'[p] # None => list'[p] \in 0 .. edition'
    <3>1. CASE FetchRestaurants(p)
      BY <1>1, <3>1 DEF FetchRestaurants
    <3>2. CASE ~FetchRestaurants(p)
      <4>1. list'[p] = list[p]
        BY <1>6, <3>2 DEF Seed, FindRole, CreateRole, FindUser, CreateUser, GrantRole, CountRole,
                          InsertRole, EnsureTenant
      <4> QED
        BY <1>1, <1>2, <4>1 DEF ReadFollows
    <3> QED
      BY <3>1, <3>2
  <2>2. CASE FindUser(p)
    BY <1>1, <2>1, <2>2, SMTT(20) DEF FindUser, Goto, Fail, Abort, ReadFollows, UserOf, tables
  <2>3. CASE CountRole(p) \/ InsertRole(p)
    BY <1>1, <2>1, <2>3 DEF CountRole, InsertRole, Goto, Fail, Abort, ReadFollows, UserOf, tables
  <2>4. CASE ~FindUser(p) /\ ~CountRole(p) /\ ~InsertRole(p)
    <3>1. pc'[p] \notin {"countRole", "insertRole", "tenant"}
      BY <1>1, <1>6, <2>4
         DEF Seed, FetchRestaurants, FindRole, CreateRole, CreateUser, GrantRole,
             EnsureTenant, Fail, Skip, Abort, Goto, NextRole, NextUser, NextOf
    <3> QED
      BY <2>1, <3>1 DEF ReadFollows
  <2> QED
    BY <2>2, <2>3, <2>4
<1>7. CASE \E q \in Pod \ {p} : Seed(q) \/ Crash(q)
  BY <1>1, <1>4, <1>7, OthersStay
<1>8. CASE ~\E q \in Pod : Seed(q) \/ Crash(q)
  BY <1>4, <1>8, EnvironmentStays DEF vars, locals
<1> QED
  BY <1>5, <1>6, <1>7, <1>8

LEMMA ValidTenantsStay ==
  ASSUME IInv, \A p \in Pod : ReadFollows(p), [Next]_vars,
         NEW a \in Account, tenant[a] \in Known(edition), tenant'[a] # tenant[a]
  PROVE  ByStaleList(a)
<1> USE SeederAssumption
<1>1. edition \in Nat /\ edition \in Edition /\ None \notin Known(edition) /\ a \in present
  BY SMTT(20) DEF IInv, SeederTypeOK, TablesSound, Known, Restaurant, Edition
<1>2. PICK p \in Pod :
         /\ UserOf(p) = a /\ EnsureTenant(p) /\ list[p] # None
         /\ seen[p] \notin Known(list[p]) /\ tenant'[a] = <<list[p], "expected">>
  BY <1>1, TenantsWritten
<1>3. list[p] \in 0 .. edition
  BY <1>2 DEF ReadFollows
<1>4. list[p] # edition
  <2> SUFFICES ASSUME list[p] = edition PROVE FALSE
    OBVIOUS
  <2>1. tenant[a] = <<edition, "other">>
    BY <1>2 DEF Known
  <2>2. pc[p] = "tenant" /\ tenant[UserOf(p)] \in Edition \X {"other"}
    BY <1>1, <1>2, <2>1 DEF EnsureTenant
  <2>3. seen[p] = tenant[a]
    BY <1>2, <2>2 DEF ReadFollows
  <2> QED
    BY <1>2, <2>1, <2>3 DEF Known
<1> QED
  BY <1>1, <1>2, <1>3, <1>4, SMTT(20) DEF ByStaleList

\* "Un rattachement encore valide n'est jamais ecrase" (seeder.go:283): in any
\* interleaving of the pods, their failures and their deaths, a valid attachment is
\* overwritten only by a pod that fetched its list before franchise-service was
\* rebuilt, and then it is.
THEOREM ValidAttachmentsStay == Spec => ValidAttachmentIsKept
<1> DEFINE RInv == \A p \in Pod : ReadFollows(p)
<1>1. Init => RInv
  BY ReadFollowsInit
<1>2. IInv /\ RInv /\ [Next]_vars => RInv'
  BY ReadFollowsStep
<1>3. IInv /\ RInv /\ [Next]_vars =>
        [\A a \in Account :
           tenant[a] \in Known(edition) /\ tenant'[a] # tenant[a] => ByStaleList(a)]_vars
  BY ValidTenantsStay
<1> QED
  BY <1>1, <1>2, <1>3, SeederInvariance, PTL DEF Spec, ValidAttachmentIsKept

\* A database that a seeding has nothing to add to.
Complete ==
  /\ \A i \in 1 .. Len(RoleDefs) : RoleDefs[i] \in roles
  /\ present = Account /\ granted = Account
  /\ \A a \in Manager : tenant[a] \in Known(edition)

\* Every restart seeds again: to seed a complete database changes nothing, but
\* for the one exception of ValidAttachmentsStay.
THEOREM SeedingAgainChangesNothing ==
  Spec => [][Complete => /\ UNCHANGED <<roles, present, granted>>
                         /\ \A a \in Account : tenant'[a] # tenant[a] => ByStaleList(a)]_vars
<1> DEFINE RInv == \A p \in Pod : ReadFollows(p)
<1> DEFINE Same == /\ UNCHANGED <<roles, present, granted>>
                   /\ \A a \in Account : tenant'[a] # tenant[a] => ByStaleList(a)
<1>1. Init => RInv
  BY ReadFollowsInit
<1>2. IInv /\ RInv /\ [Next]_vars => RInv'
  BY ReadFollowsStep
<1>3. ASSUME IInv, RInv, [Next]_vars, Complete PROVE Same
  <2>1. UNCHANGED <<roles, present, granted>>
    <3>1. ASSUME NEW p \in Pod, CreateRole(p) PROVE RoleOf(p) \in roles
      BY <1>3, <3>1 DEF Complete, CreateRole, IInv, SeederTypeOK, Placed, RoleSteps, RoleOf
    <3>2. ASSUME NEW p \in Pod, CreateUser(p) \/ GrantRole(p) \/ InsertRole(p)
          PROVE  UserOf(p) \in present /\ UserOf(p) \in granted
      BY <1>3, <3>2, AtAccount DEF Complete, CreateUser, GrantRole, InsertRole, IInv, UserSteps
    <3>3. ASSUME NEW p \in Pod, Seed(p) PROVE UNCHANGED <<roles, present, granted>>
      <4>1. CASE CreateRole(p)
        BY <3>1, <4>1 DEF CreateRole
      <4>2. CASE CreateUser(p)
        BY <3>2, <4>2 DEF CreateUser
      <4>3. CASE GrantRole(p) \/ InsertRole(p)
        BY <3>2, <4>3 DEF GrantRole, InsertRole
      <4>4. CASE FetchRestaurants(p) \/ FindRole(p) \/ FindUser(p) \/ CountRole(p) \/ EnsureTenant(p)
        BY <4>4 DEF FetchRestaurants, FindRole, FindUser, CountRole, EnsureTenant, tables
      <4> QED
        BY <3>3, <4>1, <4>2, <4>3, <4>4 DEF Seed
    <3> QED
      BY <1>3, <3>3 DEF Next, Crash, RebuildFranchise, DeleteUser, vars, tables
  <2>2. ASSUME NEW a \in Account, tenant'[a] # tenant[a] PROVE ByStaleList(a)
    <3>1. PICK p \in Pod : UserOf(p) = a /\ EnsureTenant(p)
      BY <1>3, <2>2, TenantsWritten DEF Complete
    <3>2. a \in Manager
      BY <1>3, <2>2, <3>1 DEF EnsureTenant, IInv, SeederTypeOK
    <3> QED
      BY <1>3, <2>2, <3>2, ValidTenantsStay DEF Complete
  <2> QED
    BY <2>1, <2>2
<1>4. IInv /\ RInv /\ [Next]_vars => [Complete => Same]_vars
  BY <1>3
<1> QED
  BY <1>1, <1>2, <1>4, SeederInvariance, PTL DEF Spec
=============================================================================
