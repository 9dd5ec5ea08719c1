----------------------------- MODULE Onboarding -----------------------------
(***************************************************************************)
(* How accounts come to exist: registration, verification of the e-mail    *)
(* address, and sign-in through Google or Microsoft, which creates an      *)
(* account or is linked to one (RegisterUser and VerifyEmail of            *)
(* internal/services/auth_service.go, LoginWithOAuth of oauth_login.go).   *)
(*                                                                         *)
(* As in module Sessions, each repository call commits on its own and the  *)
(* requests interleave between them. An account is its uuid. The tokens    *)
(* that end a sign-in are the subject of Sessions: here a sign-in ends     *)
(* with the last call before them. The call that asks user-service for a   *)
(* blank profile (user_client.go) is left out: its outcome is a log line.  *)
(***************************************************************************)
CONSTANTS
  Account,     \* uuids that CreateUser may draw
  Address,     \* e-mail addresses, as they are spelled
  Lower(_),    \* strings.ToLower(strings.TrimSpace(...)) of an address
  External,    \* external identities: a provider and a subject of it
  Req,         \* requests in flight at once
  None,        \* no account, address or identity
  AutoVerify,  \* AUTO_VERIFY_EMAIL
  MaxFaults    \* bound on failed database calls and crashes

LOCAL INSTANCE Naturals

ASSUME OnboardingAssumption ==
  /\ None \notin Account \cup Address \cup External
  /\ \A e \in Address : Lower(e) \in Address
  /\ AutoVerify \in BOOLEAN
  /\ MaxFaults \in Nat

VARIABLES
  address,   \* column users.email, None where there is no row
  verified,  \* accounts whose users.is_email_verified is set
  deleted,   \* accounts whose users.deleted_at is set
  granted,   \* accounts with the role "user"
  link,      \* table oauth_accounts
  ticket,    \* the e-mail verification token of each account
  mailed,    \* accounts whose verification mail was delivered
  pc,        \* the step each request is at, or its last reply
  job,       \* what each request in flight carries
  creator,   \* the identity whose sign-in created the account
  vouched,   \* identities linked on the word of a certified address
  entered,   \* which identity was let into which account
  faults

users   == <<address, verified, deleted, granted>>
tickets == <<ticket, mailed>>
history == <<creator, vouched, entered>>
vars    == <<users, link, tickets, pc, job, history, faults>>

Resting == {"idle", "ok", "failed"}
Stage == Resting \cup {"createUser", "grantRole", "storeTicket", "mark", "drop",
                       "openLinked", "match", "createClient", "link"}

Job == [account : Account \cup {None}, address : Address \cup {None},
        ident : External \cup {None}, certified : BOOLEAN]
NoJob == [account |-> None, address |-> None, ident |-> None, certified |-> FALSE]

Free(r) == pc[r] \in Resting

Begin(r, stage, carried) ==
  /\ pc' = [pc EXCEPT ![r] = stage]
  /\ job' = [job EXCEPT ![r] = carried]

Continue(r, stage) ==
  /\ pc' = [pc EXCEPT ![r] = stage]
  /\ UNCHANGED job

Answer(r, reply) == Begin(r, reply, NoJob)

Fault == faults < MaxFaults /\ faults' = faults + 1

Exists(a) == address[a] # None
Holder(e) == {a \in Account : address[a] = e}  \* what the unique index sees
Visible(e) == Holder(e) \ deleted              \* what FindGlobalByEmail sees

Init ==
  /\ address = [a \in Account |-> None]
  /\ verified = {}
  /\ deleted = {}
  /\ granted = {}
  /\ link = [x \in External |-> None]
  /\ ticket = [a \in Account |-> "absent"]
  /\ mailed = {}
  /\ pc = [r \in Req |-> "idle"]
  /\ job = [r \in Req |-> NoJob]
  /\ creator = [a \in Account |-> None]
  /\ vouched = {}
  /\ entered = {}
  /\ faults = 0

(***************************************************************************)
(* RegisterUser. A lookup that fails reads as "no such account".           *)
(***************************************************************************)
RegisterUser(r, e) ==
  LET carried == [NoJob EXCEPT !.address = e] IN
  /\ Free(r)
  /\ \/ Visible(e) # {} /\ Answer(r, "failed") /\ UNCHANGED faults
     \/ Visible(e) = {} /\ Begin(r, "createUser", carried) /\ UNCHANGED faults
     \/ Fault /\ Begin(r, "createUser", carried)
  /\ UNCHANGED <<users, link, tickets, history>>

\* Mutant: the handler goes on with the id it had before BeforeCreate drew one.
InsertUserUnnamed(r, confirmed, stages) ==
  \E a \in Account, stage \in stages :
    /\ ~Exists(a) /\ Holder(job[r].address) = {}
    /\ address' = [address EXCEPT ![a] = job[r].address]
    /\ verified' = verified \cup (IF confirmed THEN {a} ELSE {})
    /\ creator' = [creator EXCEPT ![a] = job[r].ident]
    /\ Continue(r, stage)
    /\ UNCHANGED <<deleted, granted, faults>>

\* repo.CreateUser: a fresh uuid, and the unique index on the address, which
\* soft-deleted rows still occupy.
InsertUser(r, confirmed, stages) ==
  \/ /\ Holder(job[r].address) = {}
     /\ \E a \in Account, stage \in stages :
          /\ ~Exists(a)
          /\ address' = [address EXCEPT ![a] = job[r].address]
          /\ verified' = verified \cup (IF confirmed THEN {a} ELSE {})
          /\ creator' = [creator EXCEPT ![a] = job[r].ident]
          /\ Begin(r, stage, [job[r] EXCEPT !.account = a])
     /\ UNCHANGED <<deleted, granted, faults>>
  \/ /\ Holder(job[r].address) # {}
     /\ Answer(r, "failed")
     /\ UNCHANGED <<users, creator, faults>>
  \/ Fault /\ Answer(r, "failed") /\ UNCHANGED <<users, creator>>

\* An account of a restaurant (tenantID in the request) gets no default role.
CreateUser(r) ==
  /\ pc[r] = "createUser"
  /\ InsertUser(r, AutoVerify, {"grantRole", "storeTicket"})
  /\ UNCHANGED <<link, tickets, vouched, entered>>

\* FindRoleBySlug and AssignRoleToUser, whose errors are dropped.
GrantRole(r) ==
  LET a == job[r].account IN
  /\ pc[r] = "grantRole"
  /\ \/ granted' = granted \cup {a} /\ UNCHANGED faults
     \/ Fault /\ UNCHANGED granted
  /\ Continue(r, IF job[r].ident = None THEN "storeTicket" ELSE "link")
  /\ UNCHANGED <<address, verified, deleted, link, tickets, history>>

\* The token, whose insert may fail unnoticed, and the goroutine that mails it,
\* stored or not, and may fail or die with its pod. Whether the mail arrives is
\* decided here, for its reader may follow the link at any time after.
StoreTicket(r) ==
  LET a == job[r].account IN
  /\ pc[r] = "storeTicket"
  /\ IF AutoVerify
       THEN UNCHANGED <<ticket, mailed, faults>>
       ELSE /\ \/ ticket' = [ticket EXCEPT ![a] = "open"] /\ UNCHANGED faults
               \/ Fault /\ UNCHANGED ticket
            /\ mailed' \in {mailed, mailed \cup {a}}
  /\ Answer(r, "ok")
  /\ UNCHANGED <<users, link, history>>

(***************************************************************************)
(* VerifyEmail, with the link of the mail.                                 *)
(***************************************************************************)
VerifyEmail(r, a) ==
  /\ Free(r)
  /\ a \in mailed
  /\ IF ticket[a] = "open"
       THEN Begin(r, "mark", [NoJob EXCEPT !.account = a])
       ELSE Answer(r, "failed")
  /\ UNCHANGED <<users, link, tickets, history, faults>>

\* Mutant: the error of the update is dropped.
MarkUserAsVerifiedLax(r) ==
  /\ pc[r] = "mark"
  /\ \/ verified' = verified \cup ({job[r].account} \ deleted) /\ UNCHANGED faults
     \/ Fault /\ UNCHANGED verified
  /\ Continue(r, "drop")
  /\ UNCHANGED <<address, deleted, granted, link, tickets, history>>

\* Mutant: an Unscoped() update, which reaches soft-deleted accounts.
MarkUserAsVerifiedUnscoped(r) ==
  /\ pc[r] = "mark"
  /\ verified' = verified \cup {job[r].account}
  /\ Continue(r, "drop")
  /\ UNCHANGED <<address, deleted, granted, link, tickets, history, faults>>

\* No row matches a soft-deleted account, which is no error.
MarkUserAsVerified(r) ==
  /\ pc[r] = "mark"
  /\ \/ /\ verified' = verified \cup ({job[r].account} \ deleted)
        /\ Continue(r, "drop")
        /\ UNCHANGED faults
     \/ Fault /\ Answer(r, "failed") /\ UNCHANGED verified
  /\ UNCHANGED <<address, deleted, granted, link, tickets, history>>

DeleteEmailVerificationToken(r) ==
  /\ pc[r] = "drop"
  /\ \/ ticket' = [ticket EXCEPT ![job[r].account] = "dropped"] /\ UNCHANGED faults
     \/ Fault /\ UNCHANGED ticket
  /\ Answer(r, "ok")
  /\ UNCHANGED <<users, link, mailed, history>>

(***************************************************************************)
(* LoginWithOAuth, with a profile the provider vouches for: the identity,  *)
(* the address it declares today, and whether it certifies that address.   *)
(***************************************************************************)
Enter(r, a) == entered' = entered \cup {<<job[r].ident, a>>} /\ Answer(r, "ok")

FindOAuthAccount(r, x, e, certified) ==
  LET carried == [account |-> None, address |-> Lower(e), ident |-> x,
                  certified |-> certified] IN
  /\ Free(r)
  /\ \/ /\ link[x] # None
        /\ Begin(r, "openLinked", [carried EXCEPT !.account = link[x]])
        /\ UNCHANGED faults
     \/ link[x] = None /\ Begin(r, "match", carried) /\ UNCHANGED faults
     \/ Fault /\ Begin(r, "match", carried)
  /\ UNCHANGED <<users, link, tickets, history>>

FindLinkedUser(r) ==
  LET a == job[r].account IN
  /\ pc[r] = "openLinked"
  /\ \/ a \in deleted /\ Answer(r, "failed") /\ UNCHANGED <<entered, faults>>
     \/ a \notin deleted /\ Enter(r, a) /\ UNCHANGED faults
     \/ Fault /\ Answer(r, "failed") /\ UNCHANGED entered
  /\ UNCHANGED <<users, link, tickets, creator, vouched>>

\* Mutant: an address is taken on its word.
MatchAddressTrusting(r) ==
  /\ pc[r] = "match"
  /\ \/ \E a \in Visible(job[r].address) :
          Begin(r, "link", [job[r] EXCEPT !.account = a])
     \/ Visible(job[r].address) = {} /\ Continue(r, "createClient")
  /\ UNCHANGED <<users, link, tickets, history, faults>>

\* Mutant: an Unscoped() lookup of the address.
MatchAddressUnscoped(r) ==
  /\ pc[r] = "match"
  /\ \/ \E a \in Holder(job[r].address) :
          IF job[r].certified
            THEN Begin(r, "link", [job[r] EXCEPT !.account = a])
            ELSE Answer(r, "failed")
     \/ Holder(job[r].address) = {} /\ Continue(r, "createClient")
  /\ UNCHANGED <<users, link, tickets, history, faults>>

MatchAddress(r) ==
  /\ pc[r] = "match"
  /\ \/ /\ \E a \in Visible(job[r].address) :
             IF job[r].certified
               THEN Begin(r, "link", [job[r] EXCEPT !.account = a])
               ELSE Answer(r, "failed")
        /\ UNCHANGED faults
     \/ /\ Visible(job[r].address) = {}
        /\ Continue(r, "createClient")
        /\ UNCHANGED faults
     \/ Fault /\ Continue(r, "createClient")
  /\ UNCHANGED <<users, link, tickets, history>>

CreateOAuthUser(r) ==
  /\ pc[r] = "createClient"
  /\ InsertUser(r, TRUE, {"grantRole"})
  /\ UNCHANGED <<link, tickets, vouched, entered>>

\* Mutant: the error of the insert is dropped.
LinkAccountLax(r) ==
  LET a == job[r].account  x == job[r].ident IN
  /\ pc[r] = "link"
  /\ link' = [link EXCEPT ![x] = IF @ = None THEN a ELSE @]
  /\ vouched' = vouched \cup (IF job[r].certified THEN {x} ELSE {})
  /\ Enter(r, a)
  /\ UNCHANGED <<users, tickets, creator, faults>>

\* The unique index on (provider, subject) refuses a second link.
LinkAccount(r) ==
  LET a == job[r].account  x == job[r].ident IN
  /\ pc[r] = "link"
  /\ \/ /\ link[x] = None
        /\ link' = [link EXCEPT ![x] = a]
        /\ vouched' = vouched \cup (IF job[r].certified THEN {x} ELSE {})
        /\ Enter(r, a)
        /\ UNCHANGED faults
     \/ /\ link[x] # None
        /\ Answer(r, "failed")
        /\ UNCHANGED <<link, vouched, entered, faults>>
     \/ Fault /\ Answer(r, "failed") /\ UNCHANGED <<link, vouched, entered>>
  /\ UNCHANGED <<users, tickets, creator>>

(***************************************************************************)
(* The environment.                                                        *)
(***************************************************************************)
\* The last write of DeleteAccount, which module Sessions models.
DeleteUser(a) ==
  /\ Exists(a) /\ a \notin deleted
  /\ deleted' = deleted \cup {a}
  /\ UNCHANGED <<address, verified, granted, link, tickets, pc, job, history, faults>>

\* 24 hours pass.
ExpireTicket(a) ==
  /\ ticket[a] = "open"
  /\ ticket' = [ticket EXCEPT ![a] = "expired"]
  /\ UNCHANGED <<users, link, mailed, pc, job, history, faults>>

Crash(r) ==
  /\ ~Free(r)
  /\ Fault
  /\ Answer(r, "failed")
  /\ UNCHANGED <<users, link, tickets, history>>

Arrive(r) ==
  \/ \E e \in Address : RegisterUser(r, e)
  \/ \E a \in Account : VerifyEmail(r, a)
  \/ \E x \in External, e \in Address, certified \in BOOLEAN :
       FindOAuthAccount(r, x, e, certified)

Proceed(r) ==
  \/ CreateUser(r) \/ GrantRole(r) \/ StoreTicket(r)
  \/ MarkUserAsVerified(r) \/ DeleteEmailVerificationToken(r)
  \/ FindLinkedUser(r) \/ MatchAddress(r) \/ CreateOAuthUser(r) \/ LinkAccount(r)

Next ==
  \/ \E r \in Req : Arrive(r) \/ Proceed(r) \/ Crash(r)
  \/ \E a \in Account : DeleteUser(a) \/ ExpireTicket(a)

Spec == Init /\ [][Next]_vars

(***************************************************************************)
(* Properties.                                                             *)
(***************************************************************************)
\* The type of every variable.
OnboardingTypeOK ==
  /\ address \in [Account -> Address \cup {None}]
  /\ verified \in SUBSET Account
  /\ deleted \in SUBSET Account
  /\ granted \in SUBSET Account
  /\ link \in [External -> Account \cup {None}]
  /\ ticket \in [Account -> {"absent", "open", "expired", "dropped"}]
  /\ mailed \in SUBSET Account
  /\ pc \in [Req -> Stage]
  /\ job \in [Req -> Job]
  /\ creator \in [Account -> External \cup {None}]
  /\ vouched \in SUBSET External
  /\ entered \in SUBSET (External \X Account)
  /\ faults \in 0 .. MaxFaults

\* Every sign-in of an identity opens the account it is linked to, the same one
\* for ever, two first sign-ins under different addresses at once included.
EntersLinkedAccount == \A p \in entered : link[p[1]] = p[2]

\* The account has no verification token yet, and a request is about to store one.
AwaitsTicket(a) ==
  \E r \in Req : pc[r] \in {"grantRole", "storeTicket"} /\ job[r].account = a

\* A live account that is not verified has a token: its token is dropped after
\* the account is marked, whatever fails in between. One that has none waits for
\* its registration to store it, or lost it to a failed call or a crash there.
UnverifiedKeepsTicket ==
  \A a \in Account \ (verified \cup deleted) : Exists(a) =>
    \/ ticket[a] \in {"open", "expired"}
    \/ ticket[a] = "absent" /\ (AwaitsTicket(a) \/ faults > 0)

\* README.md:74-77: an identity is attached to an account it did not create
\* only under an address its provider certified, failed lookups included.
AttachedOnlyIfCertified ==
  \A x \in External : link[x] # None /\ creator[link[x]] # x => x \in vouched

\* A sign-in chose the account, or created it, and has yet to link it.
BeingJoined(a) ==
  \E r \in Req : /\ pc[r] \in {"grantRole", "link"}
                 /\ job[r].account = a /\ job[r].ident # None

\* A deleted account is found by no sign-in any more, by its address or by its
\* link, through any of the lookups that each of them takes on its own, failed
\* ones included: only one that had it in hand at the deletion still enters it.
DeletedIsJoinedNoMore ==
  [][\A a \in deleted : ~BeingJoined(a) =>
       /\ ~BeingJoined(a)'
       /\ \A x \in External : <<x, a>> \in entered' => <<x, a>> \in entered]_vars

\* The job of a request is filled in for the step it is at.
JobFilled(r) ==
  /\ pc[r] \in {"createUser", "match", "createClient"} => job[r].address \in Address
  /\ pc[r] \in {"openLinked", "match", "createClient", "link"} => job[r].ident \in External
  /\ pc[r] \in {"grantRole", "storeTicket", "mark", "drop", "openLinked", "link"} =>
       job[r].account \in Account /\ Exists(job[r].account)

\* The account a request carries is the one its tables showed it.
AccountFollowed(r) ==
  LET a == job[r].account  x == job[r].ident IN
  /\ pc[r] = "createUser" => x = None
  /\ pc[r] = "openLinked" => link[x] = a
  /\ pc[r] = "grantRole" => x = creator[a]
  /\ pc[r] = "link" => job[r].certified \/ x = creator[a]
  /\ pc[r] = "drop" => a \in verified \cup deleted

\* What links the requests in flight to the tables, on which the invariants
\* above rest: each carries an account that exists and, to be linked to it, an
\* identity that created it or a certified address.
RequestsMatchTables ==
  /\ \A r \in Req : JobFilled(r) /\ AccountFollowed(r)
  /\ \A x \in External : link[x] # None => Exists(link[x])
  /\ \A a \in Account : a \in mailed \/ ticket[a] # "absent" => Exists(a)

\* The tables keep the promise of module Directory.
Dir == INSTANCE Directory
DirectorySpec == Dir!Spec

(***************************************************************************)
(* What the documentation says and the code does not do.                   *)
(***************************************************************************)
\* README.md:74-75, "si l'email existe deja localement, le compte externe y est
\* lie": no sign-in under a certified address creates an account beside a live
\* one of the same address, however that one spelled it.
JoinsExistingAccount ==
  [][\A r \in Req : pc[r] = "createClient" /\ pc'[r] = "grantRole" /\ job[r].certified =>
       \A a \in Account \ deleted : Exists(a) => Lower(address[a]) # job[r].address]_vars
=============================================================================
