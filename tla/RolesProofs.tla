----------------------------- MODULE RolesProofs -----------------------------
(* Theorems about Roles, for every set of accounts, clients, names and faults. *)
EXTENDS Roles, TLAPS

\* Slugs are unique, names with them.
SlugsAreUnique == \A n, m \in roles : GenerateSlug(n) = GenerateSlug(m) => n = m

\* A request that is to grant a role knows whom, and one that reached Append
\* with no role at all has had its lookup fail.
Carried(r) ==
  /\ pc[r] = "insertRole" => job[r].role \in Name
  /\ pc[r] \in {"findRole", "append", "findAdmin", "createAdmin", "findAgain", "appendNobody"} =>
       job[r].user \in User /\ job[r].role \in Name
  /\ pc[r] \in {"findAdmin", "createAdmin", "findAgain"} => job[r].role = Admin
  /\ pc[r] = "findAgain" => Admin \in roles
  /\ pc[r] = "appendNobody" => <<job[r].user, Admin>> \in swallowed

\* What was read of an account opens the gate only if the account still has its
\* way through it, or lost it after the reading.
ReadInTime(t) ==
  /\ t.read <= now
  /\ (\E n \in t.roles : Opens(n)) => HasPower(t.sub) \/ t.read <= lost[t.sub]

SignedInTime(c) == held[c] # None => ReadInTime(held[c]) /\ held[c].iat <= now

UnderWayInTime(c) ==
  signing[c] # None /\ signing[c].read # None => ReadInTime(signing[c])

IInv ==
  /\ RolesTypeOK /\ SlugsAreUnique /\ GrantsHold
  /\ \A r \in Req : Carried(r)
  /\ \A c \in Client : SignedInTime(c) /\ UnderWayInTime(c)

LEMMA RolesInit == Init => IInv
<1> SUFFICES ASSUME Init PROVE IInv
  OBVIOUS
<1> USE RolesAssumption DEF Init
<1>1. RolesTypeOK
  <2>1. CASE roles = {Admin} /\ members \in SUBSET (User \X {Admin}) /\ held = [c \in Client |-> None]
    BY <2>1 DEF RolesTypeOK, Second, Stage, Job, NoJob
  <2>2. CASE /\ roles = {} /\ members = {}
             /\ held \in [Client -> {[sub |-> u, roles |-> {Admin}, read |-> 0, iat |-> 0] : u \in User}]
    <3>1. held \in [Client -> Token \cup {None}]
      BY <2>2 DEF Token, Second
    <3> QED
      BY <2>2, <3>1 DEF RolesTypeOK, Second, Stage, Job, NoJob
  <2> QED
    BY <2>1, <2>2
<1>2. SlugsAreUnique /\ GrantsHold /\ \A r \in Req : Carried(r)
  BY DEF SlugsAreUnique, GrantsHold, Carried
<1>3. \A c \in Client : SignedInTime(c) /\ UnderWayInTime(c)
  <2> TAKE c \in Client
  <2> USE DEF UnderWayInTime, ReadInTime
  <2>1. CASE held = [d \in Client |-> None]
    BY <2>1 DEF SignedInTime
  <2>2. CASE held \in [Client -> {[sub |-> u, roles |-> {Admin}, read |-> 0, iat |-> 0] : u \in User}]
    BY <2>2 DEF SignedInTime
  <2> QED
    BY <2>1, <2>2
<1> QED
  BY <1>1, <1>2, <1>3 DEF IInv

\* No step takes a role away, and none adds a second one under a slug.
LEMMA RolesGrow ==
  ASSUME IInv, [Next]_vars
  PROVE  roles \subseteq roles' /\ roles' \subseteq Name /\ SlugsAreUnique'
<1> USE RolesAssumption DEF IInv, RolesTypeOK
<1>1. CASE UNCHANGED roles
  BY <1>1 DEF SlugsAreUnique
<1>2. CASE SeedAdminRole
  <2>1. roles' = roles \cup {Admin}
    BY <1>2 DEF SeedAdminRole
  <2>2. \A m \in roles : GenerateSlug(m) # GenerateSlug(Admin)
    BY <1>2 DEF SeedAdminRole
  <2> QED
    BY <2>1, <2>2 DEF SlugsAreUnique
<1>3. ASSUME NEW n \in Name, ~Taken(n), roles' = roles \cup {n}
      PROVE  roles \subseteq roles' /\ roles' \subseteq Name /\ SlugsAreUnique'
  <2>1. \A m \in roles : GenerateSlug(m) # GenerateSlug(n)
    BY <1>3 DEF Taken
  <2> QED
    BY <1>3, <2>1 DEF SlugsAreUnique
<1>4. ASSUME NEW r \in Req, StoreRole(r) \/ CreateAdminRole(r)
      PROVE  UNCHANGED roles \/ \E n \in Name : ~Taken(n) /\ roles' = roles \cup {n}
  BY <1>4 DEF StoreRole, CreateAdminRole, InsertRole, Carried
<1>5. ASSUME Next, ~SeedAdminRole, \A r \in Req : ~(StoreRole(r) \/ CreateAdminRole(r))
      PROVE  UNCHANGED roles
  BY <1>5 DEF Next, Tick, DeleteUser, FindAccount, GetUserRoles, SignAccessToken, Administer, Proceed, Crash, CreateRole,
       AssignRoleToUser, RemoveRoleFromUser, PromoteUserToAdmin, FindRoleByID, AppendRole,
       FindAdminRole, FindAdminAgain, AppendNobody, tables, vars
<1> QED
  BY <1>1, <1>2, <1>3, <1>4, <1>5 DEF vars, tables

\* Whoever loses the way through the gate has it noted, at the time it happens.
LEMMA LossesAreNoted ==
  ASSUME IInv, [Next]_vars
  PROVE  /\ lost' \in [User -> Second]
         /\ \A u \in User : /\ lost'[u] \in {lost[u], now}
                            /\ HasPower(u) => HasPower(u)' \/ lost'[u] = now
<1> USE DEF IInv, RolesTypeOK
<1>1. CASE UNCHANGED <<members, deleted, lost>>
  BY <1>1 DEF HasPower
<1>2. CASE NoteLosses
  BY <1>2 DEF NoteLosses
<1>3. ASSUME NEW r \in Req, AppendRole(r)
      PROVE  members \subseteq members' /\ UNCHANGED <<deleted, lost>>
  BY <1>3 DEF AppendRole, tables
<1>4. CASE \E r \in Req : AppendRole(r)
  BY <1>3, <1>4 DEF HasPower
<1>5. ASSUME Next, ~NoteLosses, \A r \in Req : ~AppendRole(r)
      PROVE  UNCHANGED <<members, deleted, lost>>
  BY <1>5 DEF Next, Tick, SeedAdminRole, DeleteUser, FindAccount, GetUserRoles, SignAccessToken, Administer, Proceed,
       Crash, CreateRole, StoreRole, InsertRole, AssignRoleToUser, RemoveRoleFromUser,
       PromoteUserToAdmin, FindRoleByID, FindAdminRole, CreateAdminRole, FindAdminAgain,
       AppendNobody, tables, ghosts
<1> QED
  BY <1>1, <1>2, <1>4, <1>5 DEF vars, tables, ghosts

\* The clock, the faults and the account rows.
LEMMA RestIsTyped ==
  ASSUME IInv, [Next]_vars
  PROVE  now' \in Second /\ now <= now' /\ faults' \in 0 .. MaxFaults /\ deleted' \in SUBSET User
<1> USE RolesAssumption DEF IInv, RolesTypeOK, Second
<1>1. CASE UNCHANGED vars
  BY <1>1 DEF vars, tables
<1>2. CASE Tick
  BY <1>2 DEF Tick, tables
<1>3. ASSUME NEW u \in User, DeleteUser(u) PROVE deleted' \in SUBSET User /\ UNCHANGED <<now, faults>>
  BY <1>3 DEF DeleteUser
<1>4. ASSUME NEW r \in Req, Administer(r) \/ Proceed(r) \/ Crash(r)
      PROVE  UNCHANGED <<now, deleted>> /\ (UNCHANGED faults \/ Fault)
  BY <1>4 DEF Administer, Proceed, Crash, CreateRole, StoreRole, InsertRole, AssignRoleToUser,
       RemoveRoleFromUser, PromoteUserToAdmin, FindRoleByID, AppendRole, FindAdminRole,
       CreateAdminRole, FindAdminAgain, AppendNobody, tables
<1>5. ASSUME NEW c \in Client,
             (\E u \in User : FindAccount(c, u)) \/ GetUserRoles(c) \/ SignAccessToken(c)
      PROVE  UNCHANGED <<now, deleted>> /\ (UNCHANGED faults \/ Fault)
  BY <1>5 DEF FindAccount, GetUserRoles, SignAccessToken, tables
<1>6. CASE SeedAdminRole
  BY <1>6 DEF SeedAdminRole
<1> QED
  BY <1>1, <1>2, <1>3, <1>4, <1>5, <1>6 DEF Next, Fault

\* What was read in time stays so, whatever becomes of the tables.
LEMMA ReadStaysInTime ==
  ASSUME IInv, [Next]_vars, NEW t, ReadInTime(t), t.sub \in User, t.read \in Second
  PROVE  ReadInTime(t)'
<1>1. /\ now \in Nat /\ now' \in Nat /\ now <= now'
      /\ lost'[t.sub] \in {lost[t.sub], now}
      /\ HasPower(t.sub) => HasPower(t.sub)' \/ lost'[t.sub] = now
  BY LossesAreNoted, RestIsTyped DEF IInv, RolesTypeOK, Second
<1>2. \A n : Opens(n)' <=> Opens(n)
  BY DEF Opens
<1>3. t.read \in Nat /\ t.read <= now
  BY RolesAssumption DEF ReadInTime, Second
<1>4. ASSUME \E n \in t.roles : Opens(n) PROVE HasPower(t.sub)' \/ t.read <= lost'[t.sub]
  BY <1>1, <1>3, <1>4 DEF ReadInTime
<1>5. t.read <= now'
  BY <1>1, <1>3
<1> QED
  BY <1>2, <1>4, <1>5 DEF ReadInTime

\* A signing that is past the reading has a time of it, and so has a token.
LEMMA SigningsAreTyped ==
  ASSUME RolesTypeOK, NEW c \in Client
  PROVE  /\ signing[c] # None => /\ signing[c].sub \in User /\ signing[c].roles \in SUBSET Name
                                 /\ signing[c].read # None => signing[c].read \in Second
         /\ held[c] # None => /\ held[c].sub \in User /\ held[c].read \in Second
                              /\ held[c].iat \in Second
BY DEF RolesTypeOK, Signing, Token

LEMMA TokensAreSignedInTime ==
  ASSUME IInv, [Next]_vars
  PROVE  /\ held' \in [Client -> Token \cup {None}]
         /\ signing' \in [Client -> Signing \cup {None}]
         /\ \A c \in Client : SignedInTime(c)' /\ UnderWayInTime(c)'
<1> USE RolesAssumption DEF IInv, RolesTypeOK
<1>1. now' \in Nat /\ now <= now' /\ now \in Second
  BY RestIsTyped DEF Second
<1>2. ASSUME NEW c \in Client, held'[c] = held[c] PROVE SignedInTime(c)'
  <2>1. CASE held[c] = None
    BY <1>2, <2>1 DEF SignedInTime
  <2>2. CASE held[c] # None
    <3>1. ReadInTime(held[c]) /\ held[c].iat <= now /\ held[c].iat \in Nat
      BY <2>2, SigningsAreTyped DEF SignedInTime, Second
    <3>2. PICK t : t = held[c]
      OBVIOUS
    <3>3. ReadInTime(t)'
      BY <2>2, <3>1, <3>2, ReadStaysInTime, SigningsAreTyped
    <3>4. held'[c] = t /\ ReadInTime(held[c])'
      BY <1>2, <3>2, <3>3 DEF ReadInTime, HasPower
    <3>5. held'[c].iat <= now'
      BY <1>1, <1>2, <3>1 DEF Second
    <3> QED
      BY <3>4, <3>5 DEF SignedInTime
  <2> QED
    BY <2>1, <2>2
<1>3. ASSUME NEW c \in Client, signing'[c] = signing[c] PROVE UnderWayInTime(c)'
  <2>1. CASE signing[c] = None \/ signing[c].read = None
    BY <1>3, <2>1 DEF UnderWayInTime
  <2>2. CASE signing[c] # None /\ signing[c].read # None
    <3>1. ReadInTime(signing[c])
      BY <2>2 DEF UnderWayInTime
    <3>2. PICK t : t = signing[c]
      OBVIOUS
    <3>3. ReadInTime(t)'
      BY <2>2, <3>1, <3>2, ReadStaysInTime, SigningsAreTyped
    <3>4. ReadInTime(signing[c])'
      BY <1>3, <3>2, <3>3 DEF ReadInTime, HasPower
    <3> QED
      BY <3>4 DEF UnderWayInTime
  <2> QED
    BY <2>1, <2>2
<1>4. ASSUME NEW c \in Client, NEW u \in User, FindAccount(c, u)
      PROVE  /\ signing' \in [Client -> Signing \cup {None}] /\ UNCHANGED held
             /\ \A d \in Client : UnderWayInTime(d)'
  <2>1. /\ signing' = [signing EXCEPT ![c] = [sub |-> u, roles |-> {}, read |-> None]]
        /\ UNCHANGED held
    BY <1>4 DEF FindAccount
  <2>2. UnderWayInTime(c)'
    BY <2>1 DEF UnderWayInTime
  <2> QED
    BY <1>3, <2>1, <2>2 DEF Signing
<1>5. ASSUME NEW c \in Client, GetUserRoles(c)
      PROVE  /\ signing' \in [Client -> Signing \cup {None}] /\ UNCHANGED held
             /\ \A d \in Client : UnderWayInTime(d)'
  <2>1. /\ signing[c] \in Signing /\ UNCHANGED <<held, now, members, deleted, lost>>
        /\ \A d \in Client \ {c} : signing'[d] = signing[d]
    BY <1>5 DEF GetUserRoles, Asked, tables, ghosts
  <2>2. PICK names \in {RolesOf(signing[c].sub), {}} :
          /\ names = {} \/ signing[c].sub \notin deleted
          /\ signing' = [signing EXCEPT ![c].read = now, ![c].roles = names]
    BY <1>5 DEF GetUserRoles
  <2>3. PICK t \in Signing : /\ t.sub = signing[c].sub /\ t.read = now /\ t.roles = names
                             /\ signing' = [signing EXCEPT ![c] = t]
    <3>1. PICK t : t = [signing[c] EXCEPT !.read = now, !.roles = names]
      OBVIOUS
    <3>2. now \in Second /\ names \in SUBSET Name
      BY DEF RolesOf
    <3>3. t \in Signing /\ t.sub = signing[c].sub /\ t.read = now /\ t.roles = names
      BY <2>1, <3>1, <3>2 DEF Signing
    <3>4. signing' = [signing EXCEPT ![c] = t]
      BY <2>1, <2>2, <3>1
    <3> QED
      BY <3>3, <3>4
  <2>4. signing'[c] = t /\ ReadInTime(t)'
    <3>1. t.read <= now' /\ signing'[c] = t
      BY <1>1, <2>1, <2>3 DEF Second
    <3>2. (\E n \in t.roles : Opens(n)) => HasPower(t.sub)
      BY <2>2, <2>3 DEF RolesOf, HasPower
    <3> QED
      BY <2>1, <3>1, <3>2 DEF ReadInTime, HasPower
  <2>5. UnderWayInTime(c)'
    BY <2>4 DEF UnderWayInTime, ReadInTime, HasPower
  <2> QED
    BY <1>3, <2>1, <2>3, <2>5
<1>6. ASSUME NEW c \in Client, SignAccessToken(c)
      PROVE  /\ held' \in [Client -> Token \cup {None}]
             /\ signing' \in [Client -> Signing \cup {None}]
             /\ \A d \in Client : SignedInTime(d)' /\ UnderWayInTime(d)'
  <2>1. /\ signing[c] # None /\ signing[c].read # None
        /\ UNCHANGED <<now, members, deleted, lost>>
        /\ signing' = [signing EXCEPT ![c] = None]
    BY <1>6 DEF SignAccessToken, tables, ghosts
  <2>2. PICK t : t = [sub |-> signing[c].sub, roles |-> signing[c].roles,
                      read |-> signing[c].read, iat |-> now]
    OBVIOUS
  <2>3. t \in Token /\ held' = [held EXCEPT ![c] = t]
    BY <1>1, <1>6, <2>1, <2>2, SigningsAreTyped DEF Token, SignAccessToken
  <2>4. ReadInTime(signing[c])
    BY <2>1 DEF UnderWayInTime
  <2>5. ReadInTime(t)'
    BY <2>1, <2>2, <2>4 DEF ReadInTime, HasPower, Opens
  <2>6. SignedInTime(c)'
    BY <1>1, <2>1, <2>2, <2>3, <2>5 DEF SignedInTime, ReadInTime, HasPower, Second
  <2>7. UnderWayInTime(c)'
    BY <2>1 DEF UnderWayInTime
  <2> QED
    BY <1>2, <1>3, <2>1, <2>3, <2>6, <2>7
<1>7. ASSUME Next, \A c \in Client, u \in User : ~FindAccount(c, u),
             \A c \in Client : ~GetUserRoles(c) /\ ~SignAccessToken(c)
      PROVE  UNCHANGED signed
  BY <1>7 DEF Next, Tick, SeedAdminRole, DeleteUser, Administer, Proceed, Crash, CreateRole,
       StoreRole, InsertRole, AssignRoleToUser, RemoveRoleFromUser, PromoteUserToAdmin,
       FindRoleByID, AppendRole, FindAdminRole, CreateAdminRole, FindAdminAgain, AppendNobody,
       signed
<1> QED
  BY <1>2, <1>3, <1>4, <1>5, <1>6, <1>7 DEF vars, signed

\* A step of a request leaves the other requests where they are, and what they
\* rest on only grows.
LEMMA OthersCarried ==
  ASSUME IInv, [Next]_vars, NEW q \in Req,
         pc'[q] = pc[q], job'[q] = job[q]
  PROVE  Carried(q)'
<1>1. roles \subseteq roles'
  BY RolesGrow
<1>2. swallowed \subseteq swallowed'
  BY DEF Next, Tick, SeedAdminRole, DeleteUser, FindAccount, GetUserRoles, SignAccessToken, Administer, Proceed, Crash,
     CreateRole, StoreRole, InsertRole, AssignRoleToUser, RemoveRoleFromUser, PromoteUserToAdmin,
     FindRoleByID, AppendRole, FindAdminRole, CreateAdminRole, FindAdminAgain, AppendNobody,
     ghosts, vars
<1> QED
  BY <1>1, <1>2 DEF IInv, Carried

\* Where a request may go, and what it then carries.
LEMMA Moves ==
  ASSUME IInv, NEW r \in Req, Administer(r) \/ Proceed(r) \/ Crash(r)
  PROVE  \E stage \in Stage, u \in User \cup {None}, n \in Name \cup {None} :
           /\ Go(r, stage, u, n)
           /\ stage # "idle" =>
                /\ stage = "insertRole" => n \in Name
                /\ stage # "insertRole" => u \in User /\ n \in Name
                /\ stage \in {"findAdmin", "createAdmin", "findAgain"} => n = Admin
                /\ stage = "append" => n \in roles'
                /\ stage = "findAgain" => Admin \in roles'
                /\ stage = "appendNobody" => <<u, Admin>> \in swallowed'
<1> USE RolesAssumption DEF IInv, RolesTypeOK, Stage, Job
<1>1. ASSUME NEW n \in Name, CreateRole(r, n)
      PROVE  Answer(r) \/ Go(r, "insertRole", None, n)
  BY <1>1 DEF CreateRole
<1>2. ASSUME NEW u \in User, NEW n \in Name, AssignRoleToUser(r, u, n) \/ RemoveRoleFromUser(r, u, n)
      PROVE  Answer(r) \/ Go(r, "findRole", u, n)
  BY <1>2 DEF AssignRoleToUser, RemoveRoleFromUser
<1>3. ASSUME NEW u \in User, PromoteUserToAdmin(r, u)
      PROVE  Answer(r) \/ Go(r, "findAdmin", u, Admin)
  BY <1>3 DEF PromoteUserToAdmin
<1>4. CASE StoreRole(r) \/ AppendRole(r) \/ AppendNobody(r) \/ Crash(r)
  <2>1. Answer(r)
    BY <1>4 DEF StoreRole, InsertRole, AppendRole, AppendNobody, Crash
  <2> QED
    BY <2>1 DEF Answer
<1>5. CASE FindRoleByID(r)
  <2>1. Answer(r) \/ (Continue(r, "append") /\ job[r].role \in roles /\ UNCHANGED roles /\ job[r].user \in User)
    BY <1>5 DEF FindRoleByID, Carried, tables
  <2> QED
    BY <2>1 DEF Answer, Continue
<1>6. CASE FindAdminRole(r)
  <2>1. /\ Continue(r, "createAdmin") \/ (Continue(r, "append") /\ Admin \in roles)
        /\ UNCHANGED roles /\ job[r].user \in User /\ job[r].role = Admin
    BY <1>6 DEF FindAdminRole, Carried, tables
  <2> QED
    BY <2>1 DEF Continue
<1>7. CASE CreateAdminRole(r)
  <2>1. /\ Answer(r) \/ (Continue(r, "findAgain") /\ Admin \in roles')
        /\ job[r].user \in User /\ job[r].role = Admin
    BY <1>7 DEF CreateAdminRole, InsertRole, Carried
  <2> QED
    BY <2>1 DEF Answer, Continue
<1>8. CASE FindAdminAgain(r)
  <2>1. /\ \/ Continue(r, "append")
           \/ Continue(r, "appendNobody") /\ <<job[r].user, Admin>> \in swallowed'
        /\ job[r].user \in User /\ job[r].role = Admin /\ Admin \in roles'
    BY <1>8 DEF FindAdminAgain, Carried, tables
  <2> QED
    BY <2>1 DEF Continue
<1> QED
  BY <1>1, <1>2, <1>3, <1>4, <1>5, <1>6, <1>7, <1>8 DEF Administer, Proceed, Answer

\* A step is a step of one request, or leaves all of them where they are.
LEMMA RequestsStep ==
  ASSUME IInv, [Next]_vars
  PROVE  /\ pc' \in [Req -> Stage] /\ job' \in [Req -> Job]
         /\ \A r \in Req : Carried(r)' /\ (pc'[r] = "append" => job'[r].role \in roles')
<1> USE RolesAssumption DEF IInv, RolesTypeOK
<1>1. CASE UNCHANGED <<pc, job>>
  <2>1. \A r \in Req : Carried(r)'
    BY <1>1, OthersCarried
  <2>2. roles \subseteq roles'
    BY RolesGrow
  <2> QED
    BY <1>1, <2>1, <2>2
<1>2. ASSUME NEW r \in Req, Administer(r) \/ Proceed(r) \/ Crash(r)
      PROVE  /\ pc' \in [Req -> Stage] /\ job' \in [Req -> Job]
             /\ \A q \in Req : Carried(q)' /\ (pc'[q] = "append" => job'[q].role \in roles')
  <2>1. PICK stage \in Stage, u \in User \cup {None}, n \in Name \cup {None} :
           /\ Go(r, stage, u, n)
           /\ stage # "idle" =>
                /\ stage = "insertRole" => n \in Name
                /\ stage # "insertRole" => u \in User /\ n \in Name
                /\ stage \in {"findAdmin", "createAdmin", "findAgain"} => n = Admin
                /\ stage = "append" => n \in roles'
                /\ stage = "findAgain" => Admin \in roles'
                /\ stage = "appendNobody" => <<u, Admin>> \in swallowed'
    BY <1>2, Moves
  <2>2. /\ pc' = [pc EXCEPT ![r] = stage]
        /\ job' = [job EXCEPT ![r] = [user |-> u, role |-> n]]
    BY <2>1 DEF Go
  <2>3. pc' \in [Req -> Stage] /\ job' \in [Req -> Job]
    BY <2>2 DEF Job
  <2>4. pc'[r] = stage /\ job'[r].user = u /\ job'[r].role = n
    BY <2>2
  <2>5. Carried(r)' /\ (pc'[r] = "append" => job'[r].role \in roles')
    BY <2>1, <2>4 DEF Carried, Admin
  <2>6. ASSUME NEW q \in Req \ {r}
        PROVE  Carried(q)' /\ (pc'[q] = "append" => job'[q].role \in roles')
    <3>1. pc'[q] = pc[q] /\ job'[q] = job[q]
      BY <2>2
    <3>2. roles \subseteq roles'
      BY RolesGrow
    <3> QED
      BY <3>1, <3>2, OthersCarried
  <2> QED
    BY <2>3, <2>5, <2>6
<1>3. CASE \/ \E u \in User : DeleteUser(u) \/ \E c \in Client : FindAccount(c, u)
           \/ \E c \in Client : GetUserRoles(c) \/ SignAccessToken(c)
  BY <1>1, <1>3 DEF DeleteUser, FindAccount, GetUserRoles, SignAccessToken
<1>4. CASE Tick \/ SeedAdminRole
  BY <1>1, <1>4 DEF Tick, SeedAdminRole
<1> QED
  BY <1>1, <1>2, <1>3, <1>4 DEF Next, vars

\* Rows of user_roles come from Append, and a grant is told when its row is there.
LEMMA GrantsStep ==
  ASSUME IInv, [Next]_vars
  PROVE  /\ members' \in SUBSET (User \X roles') /\ GrantsHold'
         /\ told' \in SUBSET (User \X Name) /\ swallowed' \in SUBSET (User \X Name)
<1> USE RolesAssumption DEF IInv, RolesTypeOK, GrantsHold
<1>0. roles \subseteq roles'
  BY RolesGrow
<1>1. CASE UNCHANGED <<members, told, swallowed>>
  BY <1>0, <1>1
<1>2. ASSUME NEW r \in Req, AppendRole(r) PROVE
        /\ members' \in SUBSET (User \X roles') /\ GrantsHold'
        /\ told' \in SUBSET (User \X Name) /\ swallowed' \in SUBSET (User \X Name)
  <2>1. job[r].user \in User /\ job[r].role \in roles /\ UNCHANGED swallowed
    BY <1>2 DEF AppendRole, Carried
  <2>2. \/ UNCHANGED <<members, told>>
        \/ /\ members' = members \cup {<<job[r].user, job[r].role>>}
           /\ told' = told \cup {<<job[r].user, job[r].role>>}
    BY <1>2 DEF AppendRole
  <2> QED
    BY <1>0, <2>1, <2>2
<1>3. ASSUME NEW r \in Req, NEW u \in User, NEW n \in Name, RemoveRoleFromUser(r, u, n) PROVE
        /\ members' \in SUBSET (User \X roles') /\ GrantsHold'
        /\ told' \in SUBSET (User \X Name) /\ swallowed' \in SUBSET (User \X Name)
  BY <1>0, <1>3 DEF RemoveRoleFromUser
<1>4. ASSUME NEW r \in Req, FindAdminAgain(r) \/ AppendNobody(r) PROVE
        /\ members' \in SUBSET (User \X roles') /\ GrantsHold'
        /\ told' \in SUBSET (User \X Name) /\ swallowed' \in SUBSET (User \X Name)
  <2>1. job[r].user \in User /\ UNCHANGED members
    BY <1>4 DEF FindAdminAgain, AppendNobody, Carried, tables
  <2>2. CASE FindAdminAgain(r)
    BY <1>0, <2>1, <2>2 DEF FindAdminAgain
  <2>3. CASE AppendNobody(r)
    BY <1>0, <2>1, <2>3 DEF AppendNobody, Carried
  <2> QED
    BY <1>4, <2>2, <2>3
<1>5. ASSUME Next,
             \A r \in Req : ~(AppendRole(r) \/ FindAdminAgain(r) \/ AppendNobody(r)),
             \A r \in Req, u \in User, n \in Name : ~RemoveRoleFromUser(r, u, n)
      PROVE  UNCHANGED <<members, told, swallowed>>
  BY <1>5 DEF Next, Tick, SeedAdminRole, DeleteUser, FindAccount, GetUserRoles, SignAccessToken, Administer, Proceed,
       Crash, CreateRole, StoreRole, InsertRole, AssignRoleToUser, PromoteUserToAdmin,
       FindRoleByID, FindAdminRole, CreateAdminRole, tables, ghosts
<1> QED
  BY <1>1, <1>2, <1>3, <1>4, <1>5 DEF vars, tables, ghosts

LEMMA RolesStep == IInv /\ [Next]_vars => IInv'
<1> SUFFICES ASSUME IInv, [Next]_vars PROVE IInv'
  OBVIOUS
<1>1. roles' \in SUBSET Name /\ SlugsAreUnique'
  BY RolesGrow
<1>2. lost' \in [User -> Second]
  BY LossesAreNoted
<1>3. now' \in Second /\ faults' \in 0 .. MaxFaults /\ deleted' \in SUBSET User
  BY RestIsTyped
<1>4. /\ held' \in [Client -> Token \cup {None}] /\ signing' \in [Client -> Signing \cup {None}]
      /\ \A c \in Client : SignedInTime(c)' /\ UnderWayInTime(c)'
  BY TokensAreSignedInTime
<1>5. /\ pc' \in [Req -> Stage] /\ job' \in [Req -> Job]
      /\ \A r \in Req : Carried(r)' /\ (pc'[r] = "append" => job'[r].role \in roles')
  BY RequestsStep
<1>6. /\ members' \in SUBSET (User \X roles') /\ GrantsHold'
      /\ told' \in SUBSET (User \X Name) /\ swallowed' \in SUBSET (User \X Name)
  BY GrantsStep
<1>7. RolesTypeOK'
  BY <1>1, <1>2, <1>3, <1>4, <1>5, <1>6 DEF RolesTypeOK, Second
<1> QED
  BY <1>1, <1>4, <1>5, <1>6, <1>7 DEF IInv

\* The inductive invariant: what the tables, the tokens in hand and the requests
\* know of each other.
THEOREM RolesInvariance == Spec => []IInv
BY RolesInit, RolesStep, PTL DEF Spec

\* Every variable keeps its type, and no account has a role that does not exist.
THEOREM RolesAreTyped == Spec => []RolesTypeOK
<1>1. IInv => RolesTypeOK
  BY DEF IInv
<1> QED
  BY <1>1, RolesInvariance, PTL

\* Names that RequireRole takes for one another share a slug, which is unique.
THEOREM TheGateHasOneKey == Spec => []OneRoleOpensTheGate
<1>1. IInv => OneRoleOpensTheGate
  BY DEF IInv, SlugsAreUnique, OneRoleOpensTheGate, Opens, GenerateSlug
<1> QED
  BY <1>1, RolesInvariance, PTL

\* A grant that was answered with success is in the table until it is undone.
THEOREM GrantsAreKept == Spec => []GrantsHold
<1>1. IInv => GrantsHold
  BY DEF IInv
<1> QED
  BY <1>1, RolesInvariance, PTL

\* A removed administrator is out after the lifetime of an access token and the
\* time of a signing that had read the roles before.
THEOREM PowerFades == Spec => []PowerFadesInTime
<1>1. ASSUME IInv PROVE PowerFadesInTime
  <2> SUFFICES ASSUME NEW c \in Client, Admitted(c), ~HasPower(held[c].sub)
               PROVE  now < lost[held[c].sub] + AccessTTL + (held[c].iat - held[c].read)
    BY DEF PowerFadesInTime
  <2>1. held[c] # None /\ now < held[c].iat + AccessTTL /\ \E n \in held[c].roles : Opens(n)
    BY DEF Admitted
  <2>2. held[c].read <= lost[held[c].sub]
    BY <1>1, <2>1 DEF IInv, SignedInTime, ReadInTime
  <2>3. /\ held[c].iat \in Nat /\ held[c].read \in Nat /\ now \in Nat
        /\ lost[held[c].sub] \in Nat
    BY <1>1, <2>1, SigningsAreTyped DEF IInv, RolesTypeOK, Second
  <2> QED
    BY <2>1, <2>2, <2>3, RolesAssumption
<1> QED
  BY <1>1, RolesInvariance, PTL

\* Another role has taken the slug of "admin", which itself does not exist.
Shadowed == Admin \notin roles /\ \E m \in roles : GenerateSlug(m) = GenerateSlug(Admin)

\* Roles are never deleted or renamed: FindRoleByName, which compares names
\* exactly, goes on missing a shadowed role, and CreateRole and the seeder go on
\* being refused its slug. Nobody can be promoted any more, whatever is tried.
THEOREM ShadowsAreForEver ==
  Spec => [](Shadowed => [](Shadowed /\ \A u \in User : <<u, Admin>> \notin members))
<1>1. ASSUME IInv, Shadowed, [Next]_vars PROVE Shadowed'
  <2>1. roles \subseteq roles' /\ SlugsAreUnique'
    BY <1>1, RolesGrow
  <2>2. PICK m \in roles : GenerateSlug(m) = GenerateSlug(Admin)
    BY <1>1 DEF Shadowed
  <2>3. m \in roles' /\ m # Admin
    BY <1>1, <2>1, <2>2 DEF Shadowed
  <2>4. Admin \notin roles'
    BY <2>1, <2>2, <2>3 DEF SlugsAreUnique
  <2> QED
    BY <2>2, <2>3, <2>4 DEF Shadowed, GenerateSlug, ToLower, Admin
<1>2. IInv /\ Shadowed => \A u \in User : <<u, Admin>> \notin members
  BY DEF IInv, RolesTypeOK, Shadowed
<1> QED
  BY <1>1, <1>2, RolesInvariance, PTL DEF Spec

\* The repository calls a request at this stage may still make.
CallsLeft(stage) ==
  CASE stage = "findAdmin" -> 4
    [] stage = "createAdmin" -> 3
    [] stage \in {"findRole", "findAgain"} -> 2
    [] stage \in {"insertRole", "append", "appendNobody"} -> 1
    [] OTHER -> 0

\* No request waits for another administrator's: each step it takes leaves it
\* fewer calls, at most four, and no step of another one sends it back.
THEOREM HandlersEnd ==
  Spec => [][\A r \in Req : ~Free(r) =>
               \/ pc'[r] = pc[r] /\ ~Proceed(r)
               \/ CallsLeft(pc'[r]) < CallsLeft(pc[r])]_vars
<1> USE DEF RolesTypeOK, Go, Continue, Answer, Free
<1>1. ASSUME RolesTypeOK, NEW r \in Req, Proceed(r) \/ Crash(r)
      PROVE  CallsLeft(pc'[r]) < CallsLeft(pc[r])
  <2> USE DEF CallsLeft
  <2>1. CASE Crash(r)
    <3>1. pc[r] \in Stage \ {"idle"} /\ pc'[r] = "idle"
      BY <1>1, <2>1 DEF Crash
    <3> QED
      BY <3>1 DEF Stage
  <2>2. CASE StoreRole(r) \/ AppendRole(r) \/ AppendNobody(r)
    BY <1>1, <2>2 DEF StoreRole, InsertRole, AppendRole, AppendNobody
  <2>3. CASE FindRoleByID(r) \/ FindAdminRole(r)
    BY <1>1, <2>3 DEF FindRoleByID, FindAdminRole
  <2>4. CASE CreateAdminRole(r) \/ FindAdminAgain(r)
    BY <1>1, <2>4 DEF CreateAdminRole, InsertRole, FindAdminAgain
  <2> QED
    BY <1>1, <2>1, <2>2, <2>3, <2>4 DEF Proceed
<1>2. ASSUME RolesTypeOK, NEW r \in Req, ~Free(r), ~Proceed(r), ~Crash(r), [Next]_vars
      PROVE  pc'[r] = pc[r]
  <2>1. ASSUME NEW q \in Req \ {r}, Administer(q)
        PROVE  pc'[r] = pc[r]
    BY <1>2, <2>1 DEF Administer, CreateRole, AssignRoleToUser, RemoveRoleFromUser,
                      PromoteUserToAdmin
  <2>2. ASSUME NEW q \in Req \ {r}, Proceed(q) \/ Crash(q)
        PROVE  pc'[r] = pc[r]
    BY <1>2, <2>2 DEF Proceed, Crash, StoreRole, InsertRole, FindRoleByID, AppendRole,
                      FindAdminRole, CreateAdminRole, FindAdminAgain, AppendNobody
  <2>3. ~Administer(r)
    BY <1>2 DEF Administer
  <2>4. CASE \/ UNCHANGED vars \/ Tick \/ SeedAdminRole
             \/ \E u \in User : DeleteUser(u) \/ \E c \in Client : FindAccount(c, u)
             \/ \E c \in Client : GetUserRoles(c) \/ SignAccessToken(c)
    BY <2>4 DEF vars, Tick, SeedAdminRole, DeleteUser, FindAccount, GetUserRoles, SignAccessToken
  <2> QED
    BY <1>2, <2>1, <2>2, <2>3, <2>4 DEF Next
<1>3. RolesTypeOK /\ [Next]_vars =>
        [\A r \in Req : ~Free(r) => \/ pc'[r] = pc[r] /\ ~Proceed(r)
                                    \/ CallsLeft(pc'[r]) < CallsLeft(pc[r])]_vars
  BY <1>1, <1>2
<1> QED
  BY <1>3, RolesAreTyped, PTL DEF Spec

\* As long as no call failed and no pod died, whoever was told "Promoted" or
\* "assigned" has the role: the exception of GrantsHold is a failed lookup.
THEOREM WithoutFailuresGrantsHold == Spec => [](faults = 0 => told \subseteq members)
<1> DEFINE Excused == swallowed # {} => faults > 0
<1>1. Init => Excused
  BY DEF Init
<1>2. ASSUME IInv, Excused, [Next]_vars PROVE Excused'
  <2>1. faults \in Nat
    BY <1>2 DEF IInv, RolesTypeOK
  <2>2. ASSUME NEW r \in Req, FindAdminAgain(r) PROVE Excused'
    <3>1. UNCHANGED <<swallowed, faults>> \/ faults' = faults + 1
      BY <2>2 DEF FindAdminAgain, Fault
    <3> QED
      BY <1>2, <2>1, <3>1
  <2>3. ASSUME Next, \A r \in Req : ~FindAdminAgain(r)
        PROVE  swallowed' = swallowed /\ (faults' = faults \/ faults' = faults + 1)
    BY <2>3 DEF Next, Tick, SeedAdminRole, DeleteUser, FindAccount, GetUserRoles, SignAccessToken, Administer, Proceed,
         Crash, CreateRole, StoreRole, InsertRole, AssignRoleToUser, RemoveRoleFromUser,
         PromoteUserToAdmin, FindRoleByID, AppendRole, FindAdminRole, CreateAdminRole,
         AppendNobody, ghosts, Fault
  <2> QED
    BY <1>2, <2>1, <2>2, <2>3 DEF vars, ghosts
<1>3. GrantsHold /\ Excused => (faults = 0 => told \subseteq members)
  BY DEF GrantsHold
<1> QED
  BY <1>1, <1>2, <1>3, RolesInvariance, GrantsAreKept, PTL DEF Spec
=============================================================================
