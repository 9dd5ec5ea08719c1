-------------------------------- MODULE Roles --------------------------------
(***************************************************************************)
(* Roles and administration: creating, assigning and removing roles, and   *)
(* promoting an account (services/role_service.go, user_admin_service.go,  *)
(* repository/role_repository.go), what an access token carries of them    *)
(* (generateTokens) and the gate of /api/admin (middleware).               *)
(*                                                                         *)
(* A role is its name: a row gets its slug from its name when it is        *)
(* inserted, both are unique, and no code updates or deletes a role. As in *)
(* module Sessions every repository call commits on its own, a request     *)
(* arrives with its first call and is answered with its last. A signing    *)
(* finds the account, reads its roles, and signs them a moment later.      *)
(***************************************************************************)
EXTENDS Naturals

CONSTANTS
  User, Client, Req, None,
  Text,       \* what is left of a name in lower case without special characters
  AdminText,  \* the text "admin"
  Name,       \* the names administrators give to roles
  MaxTime,    \* bound on the clock
  AccessTTL,  \* lifetime of an access token
  MaxFaults   \* bound on failed calls and crashes

\* capitals: some letter is in upper case; marks: special characters, spaces or
\* surplus dashes.
Spelling == [text : Text, capitals : BOOLEAN, marks : BOOLEAN]
Admin == [text |-> AdminText, capitals |-> FALSE, marks |-> FALSE]
Second == 0 .. MaxTime
\* What generateTokens has of the account it signs for: its roles, once read, and
\* when it read them. In a token "read" is a ghost.
Signing == [sub : User, roles : SUBSET Name, read : Second \cup {None}]
Token == [sub : User, roles : SUBSET Name, read : Second, iat : Second]

ASSUME RolesAssumption ==
  /\ AdminText \in Text /\ Name \subseteq Spelling /\ Admin \in Name
  /\ None \notin User /\ None \notin Name /\ None \notin Second
  /\ None \notin Signing /\ None \notin Token
  /\ MaxTime \in Nat /\ AccessTTL \in Nat \ {0} /\ MaxFaults \in Nat

VARIABLES
  now,
  roles,      \* table roles
  members,    \* table user_roles, as pairs of an account and a role
  deleted,    \* accounts whose users.deleted_at is set
  signing,    \* the signing under way for each client
  held,       \* the access token each client holds
  pc, job,    \* the step each request is at, and the account and role it is about
  told,       \* grants a client was told of, and that nobody has undone
  swallowed,  \* those told although the role could not be read
  lost,       \* when each account last lost its way through the gate
  faults

tables == <<roles, members, deleted>>
ghosts == <<told, swallowed, lost>>
signed == <<signing, held>>
vars   == <<now, tables, signed, pc, job, ghosts, faults>>

\* What a request was answered only matters when a grant was told (told).
Stage == {"idle", "insertRole", "findRole", "append", "findAdmin",
          "createAdmin", "findAgain", "appendNobody"}
Job == [user : User \cup {None}, role : Name \cup {None}]
NoJob == [user |-> None, role |-> None]

Free(r) == pc[r] = "idle"
Go(r, stage, u, n) ==
  /\ pc' = [pc EXCEPT ![r] = stage]
  /\ job' = [job EXCEPT ![r] = [user |-> u, role |-> n]]
Continue(r, stage) == Go(r, stage, job[r].user, job[r].role)
Answer(r) == Go(r, "idle", None, None)
Fault == faults < MaxFaults /\ faults' = faults + 1

(***************************************************************************)
(* Names.                                                                  *)
(***************************************************************************)
ToLower(n) == [n EXCEPT !.capitals = FALSE]

\* Mutant: the slug keeps the case of the name.
SlugAsTyped(n) == [n EXCEPT !.marks = FALSE]

GenerateSlug(n) == [ToLower(n) EXCEPT !.marks = FALSE]

\* The unique indexes on name and slug.
Taken(n) == \E m \in roles : m = n \/ GenerateSlug(m) = GenerateSlug(n)

\* RequireRole("admin") ignores case.
Opens(n) == ToLower(n) = ToLower(Admin)

HasPower(u) == u \notin deleted /\ \E n \in Name : <<u, n>> \in members /\ Opens(n)

\* AuthMiddleware and RequireRole: the token is believed, nothing is looked up.
Admitted(c) ==
  /\ held[c] # None
  /\ now < held[c].iat + AccessTTL
  /\ \E n \in held[c].roles : Opens(n)

\* Either the database was seeded, or its roles are not there (yet, or any more)
\* while tokens signed before are still in hand.
Init ==
  /\ now = 0
  /\ deleted = {}
  /\ \/ /\ roles = {Admin}
        /\ members \in SUBSET (User \X {Admin})
        /\ held = [c \in Client |-> None]
     \/ /\ roles = {} /\ members = {}
        /\ held \in [Client -> {[sub |-> u, roles |-> {Admin}, read |-> 0, iat |-> 0] : u \in User}]
  /\ signing = [c \in Client |-> None]
  /\ pc = [r \in Req |-> "idle"]
  /\ job = [r \in Req |-> NoJob]
  /\ told = {} /\ swallowed = {}
  /\ lost = [u \in User |-> 0]
  /\ faults = 0

\* What an account loses by a change of the tables.
NoteLosses ==
  lost' = [u \in User |-> IF HasPower(u) /\ ~HasPower(u)' THEN now ELSE lost[u]]

(***************************************************************************)
(* Signing: a login or a refresh of an account through a client, which has *)
(* found the account before generateTokens runs. GetUserRoles finds it     *)
(* again; its error is dropped, and the token then carries no role.        *)
(* Nothing looks at the tables between the roles and the signature.        *)
(***************************************************************************)
RolesOf(u) == {n \in Name : <<u, n>> \in members}

FindAccount(c, u) ==
  /\ signing[c] = None /\ u \notin deleted
  /\ signing' = [signing EXCEPT ![c] = [sub |-> u, roles |-> {}, read |-> None]]
  /\ UNCHANGED <<now, tables, held, pc, job, ghosts, faults>>

Asked(c) == signing[c] # None /\ signing[c].read = None

\* Mutant: a refresh copies the roles of the token it replaces.
GetHeldRoles(c) ==
  /\ Asked(c)
  /\ signing' = [signing EXCEPT ![c].read = now,
                    ![c].roles = IF held[c] # None /\ held[c].sub = signing[c].sub
                                 THEN held[c].roles ELSE RolesOf(signing[c].sub)]
  /\ UNCHANGED <<now, tables, held, pc, job, ghosts, faults>>

GetUserRoles(c) ==
  LET u == signing[c].sub
      Found(names) == signing' = [signing EXCEPT ![c].read = now, ![c].roles = names]
  IN /\ Asked(c)
     /\ \/ u \notin deleted /\ Found(RolesOf(u)) /\ UNCHANGED faults
        \/ u \in deleted /\ Found({}) /\ UNCHANGED faults
        \/ Found({}) /\ Fault
     /\ UNCHANGED <<now, tables, held, pc, job, ghosts>>

SignAccessToken(c) ==
  /\ signing[c] # None /\ signing[c].read # None
  /\ held' = [held EXCEPT ![c] = [sub |-> signing[c].sub, roles |-> signing[c].roles,
                                  read |-> signing[c].read, iat |-> now]]
  /\ signing' = [signing EXCEPT ![c] = None]
  /\ UNCHANGED <<now, tables, pc, job, ghosts, faults>>

(***************************************************************************)
(* CreateRole.                                                             *)
(***************************************************************************)
\* FindRoleByName compares exactly, and its failure reads as "not there".
CreateRole(r, n) ==
  /\ \/ /\ IF n \in roles THEN Answer(r) ELSE Go(r, "insertRole", None, n)
        /\ UNCHANGED faults
     \/ Fault /\ Go(r, "insertRole", None, n)
  /\ UNCHANGED <<now, tables, signed, ghosts>>

\* BeforeCreate fills in the slug.
InsertRole(r, n, next) ==
  /\ \/ Taken(n) /\ Answer(r) /\ UNCHANGED <<roles, faults>>
     \/ ~Taken(n) /\ roles' = roles \cup {n} /\ next /\ UNCHANGED faults
     \/ Fault /\ Answer(r) /\ UNCHANGED roles
  /\ UNCHANGED <<now, members, deleted, signed, ghosts>>

StoreRole(r) == pc[r] = "insertRole" /\ InsertRole(r, job[r].role, Answer(r))

(***************************************************************************)
(* AssignRoleToUser and RemoveRoleFromUser.                                *)
(***************************************************************************)
AssignRoleToUser(r, u, n) ==
  /\ IF u \in deleted THEN Answer(r) ELSE Go(r, "findRole", u, n)
  /\ UNCHANGED <<now, tables, signed, ghosts, faults>>

\* Mutant: the error of the lookup is not looked at.
FindRoleUnchecked(r) ==
  /\ pc[r] = "findRole"
  /\ Continue(r, "append")
  /\ UNCHANGED <<now, tables, signed, ghosts, faults>>

FindRoleByID(r) ==
  /\ pc[r] = "findRole"
  /\ \/ /\ IF job[r].role \in roles THEN Continue(r, "append") ELSE Answer(r)
        /\ UNCHANGED faults
     \/ Fault /\ Answer(r)
  /\ UNCHANGED <<now, tables, signed, ghosts>>

\* Append adds the row, or leaves the one there is.
AppendRole(r) ==
  LET grant == <<job[r].user, job[r].role>> IN
  /\ pc[r] = "append"
  /\ \/ /\ members' = members \cup {grant}
        /\ told' = told \cup {grant}
        /\ Answer(r)
        /\ UNCHANGED faults
     \/ Fault /\ Answer(r) /\ UNCHANGED <<members, told>>
  /\ UNCHANGED <<now, roles, deleted, signed, swallowed, lost>>

RemoveRoleFromUser(r, u, n) ==
  /\ members' = members \ {<<u, n>>}
  /\ told' = told \ {<<u, n>>}
  /\ Answer(r)
  /\ UNCHANGED deleted /\ NoteLosses
  /\ UNCHANGED <<now, roles, signed, swallowed, faults>>

(***************************************************************************)
(* PromoteUserToAdmin.                                                     *)
(***************************************************************************)
PromoteUserToAdmin(r, u) ==
  /\ IF u \in deleted THEN Answer(r) ELSE Go(r, "findAdmin", u, Admin)
  /\ UNCHANGED <<now, tables, signed, ghosts, faults>>

\* Any failure reads as "no such role".
FindAdminRole(r) ==
  /\ pc[r] = "findAdmin"
  /\ \/ /\ Continue(r, IF Admin \in roles THEN "append" ELSE "createAdmin")
        /\ UNCHANGED faults
     \/ Fault /\ Continue(r, "createAdmin")
  /\ UNCHANGED <<now, tables, signed, ghosts>>

\* Mutant: the error of CreateRole is not looked at.
CreateAdminUnchecked(r) ==
  /\ pc[r] = "createAdmin"
  /\ roles' = IF Taken(Admin) THEN roles ELSE roles \cup {Admin}
  /\ Continue(r, IF Taken(Admin) /\ Admin \notin roles THEN "appendNobody" ELSE "findAgain")
  /\ UNCHANGED <<now, members, deleted, signed, ghosts, faults>>

CreateAdminRole(r) == pc[r] = "createAdmin" /\ InsertRole(r, Admin, Continue(r, "findAgain"))

\* The second lookup, whose error is dropped: the id is then 0.
FindAdminAgain(r) ==
  /\ pc[r] = "findAgain"
  /\ \/ Continue(r, "append") /\ UNCHANGED <<swallowed, faults>>
     \/ /\ Fault
        /\ swallowed' = swallowed \cup {<<job[r].user, Admin>>}
        /\ Continue(r, "appendNobody")
  /\ UNCHANGED <<now, tables, signed, told, lost>>

\* Append of a role without an id inserts and grants a nameless one, or fails.
AppendNobody(r) ==
  /\ pc[r] = "appendNobody"
  /\ \/ Answer(r) /\ told' = told \cup {<<job[r].user, Admin>>}
     \/ Answer(r) /\ UNCHANGED told
  /\ UNCHANGED <<now, tables, signed, swallowed, lost, faults>>

(***************************************************************************)
(* The environment.                                                        *)
(***************************************************************************)
\* The seeder of a pod that starts looks for the slug.
SeedAdminRole ==
  /\ ~\E m \in roles : GenerateSlug(m) = GenerateSlug(Admin)
  /\ roles' = roles \cup {Admin}
  /\ UNCHANGED <<now, members, deleted, signed, pc, job, ghosts, faults>>

DeleteUser(u) ==
  /\ deleted' = deleted \cup {u}
  /\ UNCHANGED members /\ NoteLosses
  /\ UNCHANGED <<now, roles, signed, pc, job, told, swallowed, faults>>

Crash(r) ==
  /\ ~Free(r)
  /\ Fault /\ Answer(r)
  /\ UNCHANGED <<now, tables, signed, ghosts>>

Tick ==
  /\ now < MaxTime /\ now' = now + 1
  /\ UNCHANGED <<tables, signed, pc, job, ghosts, faults>>

\* The routes of /api/admin, behind the gate.
Administer(r) ==
  /\ Free(r) /\ \E c \in Client : Admitted(c)
  /\ \/ \E n \in Name : CreateRole(r, n)
     \/ \E u \in User, n \in Name : AssignRoleToUser(r, u, n) \/ RemoveRoleFromUser(r, u, n)
     \/ \E u \in User : PromoteUserToAdmin(r, u)

Proceed(r) ==
  \/ StoreRole(r) \/ FindRoleByID(r) \/ AppendRole(r) \/ FindAdminRole(r)
  \/ CreateAdminRole(r) \/ FindAdminAgain(r) \/ AppendNobody(r)

Next ==
  \/ Tick \/ SeedAdminRole
  \/ \E u \in User : DeleteUser(u) \/ \E c \in Client : FindAccount(c, u)
  \/ \E c \in Client : GetUserRoles(c) \/ SignAccessToken(c)
  \/ \E r \in Req : Administer(r) \/ Proceed(r) \/ Crash(r)

Spec == Init /\ [][Next]_vars

(***************************************************************************)
(* Properties.                                                             *)
(***************************************************************************)
\* The type of every variable; a member has a role that exists, and a request
\* about to grant one has found it.
RolesTypeOK ==
  /\ now \in Second /\ faults \in 0 .. MaxFaults
  /\ roles \in SUBSET Name /\ deleted \in SUBSET User
  /\ members \in SUBSET (User \X roles)
  /\ signing \in [Client -> Signing \cup {None}] /\ held \in [Client -> Token \cup {None}]
  /\ pc \in [Req -> Stage] /\ job \in [Req -> Job]
  /\ told \in SUBSET (User \X Name) /\ swallowed \in SUBSET (User \X Name)
  /\ lost \in [User -> Second]
  /\ \A r \in Req : pc[r] = "append" => job[r].role \in roles

\* RequireRole ignores case, FindRoleByName and the unique index on the name do
\* not: an "Admin" beside "admin" would open the gate as well. The slug, which
\* both names share, is what keeps one of them out.
OneRoleOpensTheGate == \A n, m \in roles : Opens(n) /\ Opens(m) => n = m

\* An assignment or a promotion that was answered with success gave the role,
\* and the account has it until somebody removes it. The exception is the
\* promotion whose second lookup failed: "Promoted", and nothing was granted.
GrantsHold == told \ swallowed \subseteq members

\* Roles are checked in the token, never in the table. An account that lost its
\* role, or was deleted, still passes the gate, but not beyond the lifetime of
\* an access token, and the time its signing took once it had read the roles: a
\* signing under way at the loss dates its token after it. No refresh that reads
\* the table later carries the old roles over.
PowerFadesInTime ==
  \A c \in Client : Admitted(c) =>
    \/ HasPower(held[c].sub)
    \/ now < lost[held[c].sub] + AccessTTL + (held[c].iat - held[c].read)
=============================================================================
