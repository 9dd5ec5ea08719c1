# Verification of the auth-service

This directory holds TLA+ models of the GoodFood auth-service (a Go service:
gin, GORM, PostgreSQL, Kubernetes), the TLC configurations that check them on
small instances, and proofs that TLAPS checks for every instance. Paths are
relative to the root of the repository.

Running it, in this directory:

    tlc -config Sessions.cfg MCSessions       # any run: <cfg> with its MC module
    tlapm SessionsProofs.tla                  # and every other *Proofs.tla

`PROJECT.json` lists the runs, the properties of each, the lines every definition
models, the hazards, and for each property a mutant: a plausible bug in the code
that makes TLC find the property violated.

## 1. The system

One process per pod. gin runs each HTTP request in a goroutine of its own;
a deployment keeps at least two pods, which share one PostgreSQL and nothing else.
**No handler opens a transaction**: each call of `internal/repository` is one SQL
statement that commits alone, so a handler is a series of atomic steps between
which the requests of the same pod and of the others run. Many of those calls have
their error dropped. Everything below follows from these two facts.

| Component | State | Operations | Modules |
|---|---|---|---|
| Sessions and credentials: `services/auth_service.go`, `controllers/auth_controller.go`, `controllers/profile_controller.go`, `repository/token_repository.go` | `users.password`, `users.deleted_at`, `refresh_tokens`, `password_reset_tokens`; JWTs held by clients | LoginUser, RefreshAccessToken, LogoutUser, ForgotPassword, ResetPassword, ChangePassword, DeleteAccount | `Sessions`, `AccountLedger` |
| Registration and verification: `services/auth_service.go`, `repository/user_repository.go` | `users.email`, `is_email_verified`, the default role, `email_verification_tokens`, mails under way | RegisterUser, VerifyEmail, mail goroutine | `Onboarding`, `Directory` |
| External sign-in: `services/oauth_login.go`, `repository/oauth_repository.go` | `oauth_accounts` | LoginWithOAuth | `Onboarding`, `Directory`; the tokens it ends in: `Sessions` |
| Process start: `cmd/main.go` | `db`, `dbReady`, the repository the services hold | dialing, migration, 3 s wait, serving, health routes | `Startup` |
| Kubernetes deployment: `k8s/deployment.yaml` | pods, endpoints | rolling update, readiness, restart | `Rollout` (EXTENDS `Startup`) |
| OAuth redirect: `controllers/oauth_controller.go` | the browser's state cookie | Start, Callback | `OAuthFlow` |
| OAuth providers: `services/oauth_providers.go` | none | AuthorizeURL, ExchangeCode, fetchUserInfo | `OAuthFlow`; the profile is an input of `Onboarding` |
| Roles and administration: `services/role_service.go`, `services/user_admin_service.go`, `controllers/role_controller.go`, `controllers/admin_controller.go`, `repository/role_repository.go`, `models/role.go`, `models/slug.go` | `roles`, `user_roles` | CreateRole, AssignRoleToUser, RemoveRoleFromUser, PromoteUserToAdmin, BeforeCreate, the signing of roles | `Roles` |
| JWT middleware: `middleware/auth_middleware.go` | none: signature and `exp` only | AuthMiddleware, RequireRole | `Authenticated` in `Sessions`, `Admitted` in `Roles`, `AccessCookie` in `WebClient` |
| Rate limiter: `middleware/rate_limit.go` | a counter per pod, in the limiter library | allow 10 requests a minute | not modelled |
| Seeder: `seeder/seeder.go`, `services/franchise_client.go` | accounts, roles and tenants of the demonstration | SeedDatabase, ensureRole, ensureTenant | `Seeder` (one step of `Startup`) |
| user-service client: `services/user_client.go` | none | one notification, no retry | not modelled |
| Web client: the cookies of `auth_controller.go` | the pair of cookies of each browser | which request carries which cookie, what a reply leaves | `WebClient` (EXTENDS `Sessions`) |
| CI/CD, Terraform, scripts: `.github/workflows/ci-cd.yml`, `terraform/` | tags, images | tag, push, deploy | not modelled |

Interactions. A client reaches a handler through the middleware and holds the
tokens it was handed. A handler calls services, which call the repository.
RegisterUser starts two goroutines (mail, user-service) that outlive the reply and
nobody waits for. `main` and its dialing goroutine share the variable `db`,
ordered by the closing of `dbReady` only when the close is what ended the wait.
Kubernetes sees `/health` and nothing else. OAuth sends the browser to the
provider and takes it back with a `state` kept in a cookie: the server remembers
nothing of a flow, nor of a session beyond the refresh tokens. The roles of an
account reach the middleware inside its access token and nowhere else.

What is hard:

- *interleaving*: state read in one call is acted on in a later one: a password
  read before it is changed, a reset key read open and marked three calls later,
  an address found free and inserted later, a link found absent;
- *partial failure*: dropped errors (the insert and the revocation of refresh
  tokens, the update of a reset, the marking of a key, the default role), and
  lookups whose failure reads as "none";
- *crashes* between two calls of a handler, with no recovery code;
- *numeric edges*: a refresh token is the JWT `{sub, exp}` with `exp` in whole
  seconds, so its text is a function of account and second;
- *delivery*: one mail, no retry, from a goroutine that dies with the pod;
- *start-up*: a race between the 3 s timer and the connection, read once;
- *cookies*: what a browser holds depends on the order in which replies arrive, and
  on replies that do not;
- *stale tokens*: roles are those read before the signing, for as long as the token
  lives;
- *seeding*: pods that start together each seed the database, outside any
  transaction, from a list of restaurants fetched before.

What makes each component correct:

- sessions: what a client was told is closed stays closed; a reset key opens
  nothing once it was used; an account whose sessions are all over is opened by a
  login only, with its password or an external identity, a deleted one by nothing; the
  tables only move forward; every request is answered;
- onboarding: an address and an external identity each name one account for ever; no
  race and no step of VerifyEmail leaves an account unable to verify, only a failure; an
  identity joins an account it did not create only on a certified address; a deleted
  account is joined no more;
- start-up and rollout: every pod serves; one whose start was over in time has its
  repository; an update completes; a ready pod answers unless its start was late or
  never got through;
- seeder: an account a pod is through with has its role, a manager its restaurant;
  concurrent and interrupted seedings do not end each other, overwrite nothing valid from
  a current list, and converge;
- roles: one role opens /api/admin; what was granted with success is there until it is
  removed; power that was taken fades with the access token, up to the time a signing
  takes;
- redirect flow: a sign-in ends in the browser that began it; a code signs in once, as
  an identity of the provider the flow began with; an answered state serves no more; a
  refusal has a reason;
- web client: nobody is signed out by accident, nor in; every request is answered.

## 2. The modules

### Sessions

The account database and the requests on it. `password`, `deleted`, `rt` and
`reset` are the columns and tables; `now` the clock in seconds; `pc` and `job`
where each request is in its handler and its local variables. `handed`,
`retired`, `spent` record what clients were given and told; `swallowed` the writes
whose error the handler dropped. No guard of a handler reads a history
variable, except that a client can only present tokens it was handed, and that an
access token of an account was handed to somebody (`Authenticated`).

One action per repository call, named after the function that makes it (or the
repository call, when a handler makes several). The arrival of a request is merged
with its first read and the reply with the last write: nothing observable happens
in between. Every call may fail (`Fault`) where failure changes what follows: a
failed first read is a failed reply that changes nothing, as a wrong password is.

- A `Token` is `[sub, iat]`: two pairs signed for one account in one second are
  the same token (`auth_service.go:91-95`), and the insert of the second violates
  the unique index (`models/token.go:8`), an error that is dropped.
- `Authenticated` is AuthMiddleware: signature and `exp`, no lookup. Its bound is
  the lifetime of the refresh half of the pair, which is longer: the model allows
  more requests than the code, never fewer.
- ResetPassword may come with the cookie of a session, which it then closes.
- ForgotPassword draws a key nobody has: 16 random bytes (`auth_service.go:56`) do not
  collide.
- Accounts exist from the start: how they come to exist is `Onboarding`.
- `LoginWithOAuth` is the third way to generateTokens, beside a login and a refresh:
  an account that is not deleted is opened without its password. Which identity may open
  which account is `Onboarding`, whose sign-ins end where this action begins.
- `overtaken`, in the job of a login or refresh under way, records that a password change
  revoked the sessions of its account meanwhile.

`AccountLedger` is what the tables promise: one table per write, tokens and keys
that only go absent, live, closed; no password written on a deleted account.
`Ledger == INSTANCE AccountLedger` maps `rt` to its `session` and each reset row to
a life; `LedgerSpec` is the refinement.

### Onboarding

How accounts come to exist. `address`, `verified`, `deleted`, `granted`, `link` and `ticket`
are the tables; `mailed` the mails that arrived; `creator`, `vouched`, `entered` the history
the properties need. `InsertUser` is `repo.CreateUser`, shared by registration and external
sign-in: a fresh uuid, and the unique index on the address, which rows of deleted accounts
still occupy while `FindGlobalByEmail` does not see them. `Lower` is the normalisation of an
address, which LoginWithOAuth applies and RegisterUser does not; it is a constant operator
with no assumption but its type, so the proofs hold for any. A sign-in ends with the last
call before the tokens, which are the subject of `Sessions` (its action LoginWithOAuth).
Whether a mail arrives is chosen when it is sent. The profile request to user-service is
left out: nothing in this service reads its outcome.

`Directory` is what the tables promise: an address belongs to one account for
ever, an account stays verified, an identity is linked once, to an account that
exists, and a deleted account is confirmed no more.

### Startup

One pod: `dialer` is the goroutine (up to 30 attempts, then migration and seeding,
then `dbReady` closed), `main` waits at most 3 s, reads `db` once and serves for
ever. When the timer ended the wait, nothing orders the read of `db` after its
assignment, a data race: the read sees the assignment or misses it. `Health`
and `Api` are what the routes reply: on a nil repository a handler panics and gin's
Recovery replies 500. The code has no step that repairs it. Boot and Stop let a
process start over. No run checks a pod alone: `Rollout` runs them all, with every
start, crash and outage, and checks the properties of both modules. Without DATABASE_URL
(`configured`) the goroutine gives up at once: docker-compose.yml can start such a
process, Kubernetes cannot, so that this start is in StartupProofs and in no run.

### Rollout

EXTENDS `Startup` with the update of the deployment: `phase` of each pod, `ready`
endpoints. The controller and the kubelet are external and modelled by what `replicas`,
`maxSurge`, `maxUnavailable` and the probes ask of them; a pod starts exactly as in
`Startup`, through its own actions. Every pod has its DATABASE_URL: the secretKeyRef
(deployment.yaml:34-38) is not optional, so a container without it does not start.
The liveness probe cannot fail
(it first asks 15 s after the start, and /health looks at nothing) and is left out.

### Seeder

What `seeder.Seed` does in each pod, one action per database call: the roles in
the order of `roleDefs`, then the accounts in the order of `users`. `roles`, `present`,
`deleted`, `granted` and `tenant` are the tables, `edition` the restaurants that
franchise-service has; `pc`, `at`, `list`, `seen` and `skipped` are local to a pod:
the call it makes next, its place in the list, the restaurants it fetched, the
`tenant_id` of the account it read, and the accounts it logged a warning for.

- The unique indexes decide the races: a second insert of a role ends the seeding of
  its pod (`seeder.go:80-82`), a second insert of an account is a warning (`:198-204`).
  `user_roles` has no such index: two pods may add two rows, which nothing tells from
  one, so `granted` is a set.
- The lookup of an account does not see soft-deleted ones; the index does.
- An account expects one role. Other roles of an account, which ensureRole keeps, and
  their removal by an administrator are not here.
- `Manager` are the accounts whose restaurant franchise-service knows: managers and the
  admin. A restaurant is `<<edition, which>>`: rebuilding franchise-service gives all
  of them new ids.
- `Init` is a database that any former start, or none, left behind, phantom
  attachments included. A pod that died starts over; one that ended in an error stays,
  since main only logs it.

`Startup` takes all of this as one step of the dialing goroutine (Migrate): what
its pods serve does not depend on the outcome of the seeding.

### Roles

The tables `roles` and `members` (user_roles), and `held`, the access token each client
presents. A name is reduced to what the code tells apart: its `text` in lower case
without special characters, whether it has `capitals` and whether it has `marks`
(special characters, spaces, surplus dashes). `ToLower` and `GenerateSlug` then do to
a name what they do in the code: the first drops the capitals, the second both. That
is enough to have names that are equal, equal but for case, or of one slug.

- `Taken` is the two unique indexes; FindRoleByName compares exactly; RequireRole
  ignores case (`Opens`). The three disagree, and the properties are about that.
- `Administer` is the arrival of a request of /api/admin: some client passes the gate
  (`Admitted`), with a token whose roles may long be gone. The actions are cut at each
  repository call. A failed lookup of the role reads as "no such role".
- AppendNobody: the second lookup of a promotion fails, its error is dropped, and
  Append gets a role whose id is 0. The nameless row it may insert is left out: nothing
  finds it and it opens nothing.
- A signing is three steps: the login or refresh finds the account (FindAccount),
  generateTokens reads its roles (GetUserRoles; a failure or an account deleted meanwhile
  gives none), and dates and signs the token (SignAccessToken) without looking again. The
  ghost `read` of a token is when its roles were read.
- `told` records the grants a client was told of and nobody has undone, `swallowed`
  those whose lookup failed unnoticed, `lost` when an account last lost its power.
  No guard reads them.
- `Init` has the seeded database, or one without roles while tokens signed before are
  still in hand: PromoteUserToAdmin is then the one who creates the role.

### OAuthFlow

Browsers, the provider and Callback. `jar` is the cookie oauth_state of each browser,
`flow` who began with a state and how far the reply of Start is, `grant` what a code
stands for and whether it has served, `pc` and `job` each Callback at work or its reply
under way. A reply changes the cookies when it lands (LandStart,
Land), or is lost. `Links` are the URLs a provider may have redirected to: the user may
open one again, go back to the consent page, open it in another browser, or under the path of
another provider, which the handler takes from the path and compares with nothing.

- The order of the checks of Callback is kept: an error first, then the comparison
  with the cookie, then the clearing of the cookie, then the code. `Clearing` are the
  replies that carry the clearing.
- PostForm and FetchUserInfo may fail at any time: the provider refused, the answer is
  unreadable, or 10 s have passed, with the code taken or not. An exchange succeeds only
  where the provider redeems the code: it is enabled, it is the one that gave the code
  (`Redeems`), and the code has not served. That a provider does so is what the code
  counts on (external).
- What a profile contains is not here. Its address may come from preferred_username, and
  what the claims about it mean is the provider's to say; `Onboarding` takes any address,
  certified or not, so that nothing it promises rests on a provider's word.
- `overtaken` records the states whose browser began or finished something since, or
  whose ten minutes are over; `answered` those whose reply landed; `entered` the codes
  that signed somebody in.
- A state is drawn once: 32 random bytes.
- What LoginWithOAuth does with the profile is `Onboarding`; here it succeeds or fails.

### WebClient

EXTENDS `Sessions`: the same handlers, but the token that a request presents is the
one its browser has a cookie for. `RefreshCookie` and `AccessCookie` are the paths and
lifetimes of auth_controller.go:89-90. The two cookies are set and cleared together, so
`jar` has one token for both. `web` is the browser of each request and the cookies its
reply will set; it stays after the handler is done, until the reply lands or is lost.
`excused` records the tokens whose session may have ended without the browser's doing: the
account closed all its sessions, a reply was lost, or the text was issued twice.
Requests that carry a cookie to a route where the code looks for it (refresh) use
it; where the path keeps it away (logout, reset-password) they come without.
Failed calls and crashes are checked in `Sessions` (MaxFaults is 0 here). Mobile clients,
which send tokens in the body, are `Sessions` itself. So are sign-ins with an external
identity: their tokens reach the front end in the fragment of a URL
(oauth_controller.go:114-121) and set no cookie, and no request of `WebClient` is one.

### Proof and MC modules

`SessionsProofs`, `OnboardingProofs`, `StartupProofs`, `RolloutProofs`, `SeederProofs`,
`RolesProofs`, `OAuthFlowProofs` and `WebClientProofs` hold the theorems about the module
they extend; the last also extends `SessionsProofs`, whose lemmas it cites.
`MCSessions`, `MCOnboarding`, `MCRoles` and `MCOAuthFlow` add the symmetry sets;
`MCOnboarding` also the two readings of `Lower`, `MCRoles` three names ("admin", "Admin",
"chef!"); `MCSeeder` names two roles and two accounts and puts them in order;
`MCRollout` and `MCWebClient` only extend.

## 3. The runs

### Passing

| Run | Instance | Checks | Shows |
|---|---|---|---|
| `sessions` | 1 account, 2 passwords, 1 reset key, 2 requests, clock 0..2, refresh tokens live 2 s and keys 1 s, 1 fault | TypeOK, RetiredIsRevoked, SpentIsUsed, DepartureIsFinal, OnlyLoginReopens, LedgerSpec | any two handlers of an account, at any step of each other, with a dropped error or a crash |
| `web_client` | 1 browser, 1 account, 2 passwords, 1 reset key, 2 requests, clock 0..1, access tokens live 1 s | JarTypeOK, CookieServes, OnlyLoginSignsIn, EveryRequestIsAnswered | two tabs that refresh, log out, reset or change at once, replies in any order or lost |
| `onboarding` | 2 uuids, 2 addresses, 1 identity, 2 requests, 1 fault | OnboardingTypeOK, EntersLinkedAccount, UnverifiedKeepsTicket, AttachedOnlyIfCertified, DeletedIsJoinedNoMore, DirectorySpec | two registrations or sign-ins that race for one address or one identity, over deletions |
| `rollout` | 2 old pods, 2 new, surge 1, unavailable 0, 2 attempts, 1 outage, 1 crash | StartupTypeOK, RepositoryMatchesConnection, ReadyPodsAnswer, EveryPodServes, DialingEnds, RolloutCompletes | starts, restarts and the update as deployed, while PostgreSQL comes or goes |
| `seeder` | 2 pods, 2 roles, 2 accounts of which one is a manager, 3 editions of the restaurants, 1 failed call or death | SeederTypeOK, SeededAccountsHaveRoles, ManagersAreAttached, SomeSeedingGoesOn, ValidAttachmentIsKept, SeedingConverges | two starts at once, from any state a former start left, over deletions and a silent or rebuilt franchise-service |
| `roles` | 1 account, 1 client, 2 requests, 3 names over 2 slugs, clock 0..2, access tokens live 1 s, 1 fault | RolesTypeOK, OneRoleOpensTheGate, GrantsHold, PowerFadesInTime | administrators who create, assign, remove and promote at once, while a token is being signed with roles that may be gone |
| `oauth` | 2 browsers, 2 providers, 2 states, 2 codes, 2 Callbacks | OAuthTypeOK, SignedInWhereBegun, CodeSignsInOnce, RefusedForAReason, AnsweredStateIsDead | tabs, URLs opened twice, elsewhere or under another path, replies in any order or lost, exchanges that time out |

### Violations: where the code does not do what a document says

| Run | Property | The document | The code |
|---|---|---|---|
| `sessions_same_second` | HandedTokenIsLive | README.md:50-51: login returns a refresh token good for 7 days | a token that is revoked is handed out again when an account logs out and in within a second |
| `sessions_overtaken` | NoSessionOutlivesChange | auth_service.go:259-260: "All existing sessions are revoked afterwards" | a login under way with the old password opens its session after the UPDATE |
| `onboarding_case` | JoinsExistingAccount | README.md:74-75: an existing address is linked | registration keeps the case, sign-in lowers it: two accounts |
| `rollout_reachable` | ServiceStaysReachable | docs/ARCHITECTURE.md:441: "Le service reste accessible pendant tout le processus" | a readiness probe blind to the database replaces working pods by degraded ones: in the trace PostgreSQL is up, every pod is configured, and the connections come after the 3 seconds |
| `web_logout` | LogoutRevokes | README.md:54: "Déconnexion avec révocation du jeton de rafraîchissement" | the path of the refresh cookie (auth_controller.go:90) keeps it from /api/auth/logout: a browser's logout revokes nothing |

Each is a separate run of one property, so that a passing run never depends on a
property the code does not keep. Section 4 proves of four of them what is left when the
cause the trace shows is taken away, and so that there is no other. The invariants are
stated with the exceptions the code really has: RetiredIsRevoked and SpentIsUsed leave
out the tokens and keys in `swallowed`, whose write failed unnoticed, GrantsHold the
promotions whose second lookup did, and UnverifiedKeepsTicket the accounts whose
registration a failed call or a crash ended before it stored the token.
RepositoryMatchesConnection and ReadyPodsAnswer except the pods that timed out:
`dbReady` is closed after the migration and the seeding (main.go:57-79), so a pod that
connected at once may time out behind them, and main, which the channel then does not
order, may miss the connection it has. PowerFadesInTime allows a token the time between
auth_service.go:66, where its roles are read, and :78, where it is dated.
DeletedIsJoinedNoMore leaves out the sign-in that had the account in hand when it was
deleted: that one still links and enters it.

OnlyLoginReopens and OnlyLoginSignsIn are what a user expects of "signed out everywhere"
and "signed out here", stated for the moment from which the code keeps it. An account is
`Closed` when no session of it is live and the only requests about to issue one are those
that its password change overtook; these may still open it (`sessions_overtaken`), as may
a login, with the password or, without any, with an external identity. A browser is signed
out when it has no cookie and none is on its way to it: before that a refresh that overlaps
a logout may still bring one.

Three more sentences of the repository are not what the code does, and need no run to
see it. seeder.go:283 says that a valid attachment is never overwritten: EnsureTenant
does so with a list fetched before franchise-service was rebuilt (ValidAttachmentIsKept:
and in no other case). README.md:182 says that a degraded pod "renvoie 503": `Api`
replies 500, since the handler panics on a nil repository, and for as long as the pod
lives (it is part of the trace of `rollout_reachable`). README.md:121-122 says that
"l'échec d'un compte n'interrompt plus la création des suivants": that holds for the
insert of the account and for its restaurant, but the insert of its role returns the
error (seeder.go:212-213, :226-227), which `InsertRole` of `Seeder` does.

### The bounds

`MaxTime`, `MaxFaults`, `MaxRetries`, `MaxOutages`, `MaxCrashes`, `MaxFailures` and
`MaxEdition` bound counters
in guards; the other bounds are the sizes of sets.

- Two requests: the races of this code are between two handlers, each row being
  written by one update. A third request adds interleavings of pairs.
- One account in `sessions`: handlers touch rows of one account each (a token
  carries its owner, `RevokeAll` goes by owner). The proofs have any number, verified
  or not.
- Clock 0..2 with refresh tokens of 2 s: two pairs in one second, two in different
  seconds and the expiry of a token are all reachable.
- Two uuids and two addresses: enough for two accounts to race for an address, for an
  identity to be offered two accounts. With one identity, two of its first sign-ins
  run at once.
- One fault: each dropped error and each crash point is met alone. The proofs
  cover any number.
- Startup within `rollout`: two attempts show both a retry and giving up; one outage
  ends a connection, or stands for a database that comes too late, since it may start
  down only by that outage. The proofs start from either and take any number.
- Seeder: two pods race for a role and for an account; two roles let one pod be ahead
  of the other; two accounts show what the failure of the first does to the second,
  and one who is attached beside one who never is. Editions 0 to 2 are a
  restaurant already gone at the start, a current one, and one rebuilt meanwhile.
  A second failure only repeats the first; the proofs cover any number.
- Rollout: the deployment's own numbers (2 replicas, surge 1, unavailable 0).
- Roles: two requests race for one name; three names are one that opens the gate, one that
  would as well but for its case, and one that does not. One account and one client: a
  token concerns no other. The clock has a second in which the roles are read, one in which
  they are lost and the token is dated, and one in which it expires.
- OAuthFlow: two browsers tell the one that began from another; two states are two tabs,
  or two browsers, at once; two Callbacks one that overtakes the other. Two codes are two
  flows, or two consents of one flow.
- WebClient: one browser with two requests under way; the clock has the second in which a
  token is issued and the next, so that an access cookie expires and two texts differ.
  A cookie that is gone after 7 days is not reached.

Symmetry is used where there is no liveness property and the permuted values are
interchangeable in Init and Next: requests and passwords in `sessions`, requests
and uuids in `onboarding`, requests in `roles`, browsers, states,
codes and requests in `oauth`.

CHECK_DEADLOCK is FALSE where the model may stop because a bound is reached and no
request has anything to do (the uuids are used up, the pods are replaced, the
seedings are over).

### Fairness

- `WebClient`: WF(Handle(r)) for each request: a handler that has begun goes on, for
  goroutines are scheduled and a database call returns (with a result or an error).
  Arrivals and the clock are not fair, and nothing is assumed of the network: a reply
  may be under way for ever.
- `Rollout`: WF of the dialing goroutine and WF of main in each pod (`select` wakes on
  the timer), and of the controller's and kubelet's own actions: Kubernetes reconciles
  until the state is the one declared. Nothing is assumed of PostgreSQL: neither that it
  comes up nor that it stays.
- `OAuthFlow`: none, and no liveness property. Theorem CallbacksEnd says that after at most
  four steps a Callback is over (exchange, userinfo, login, reply), each of which returns,
  after 10 s at the latest.
- `Seeder`: WF(Seed(p)) for each pod: the goroutine goes on, calls return or time out,
  and Kubernetes starts a dead pod again (a restart is the first step of Seed).
  Failures, deaths, deletions and rebuilds are not fair. SeedingConverges is
  stated for executions without a failed call, but with deaths: after a failed call
  the code promises nothing before the next start.

## 4. What is proved

Every theorem holds for all values of the constants that satisfy the ASSUME of its
module: any number of accounts, requests, tokens, keys, pods, browsers, faults, any clock.

**SessionsProofs.** `IInv == TypeOK /\ TablesMatchRequests /\ RetiredIsRevoked /\
SpentIsUsed` is inductive (`Invariance`). RetiredIsRevoked alone is not: a refresh
that answers adds the token it came with to `retired`, and only the position
of the request and the row it revoked two steps before tell that this token is revoked.
TablesMatchRequests keeps that: past `revokeOld` the token of a request is revoked or
its failed write swallowed. It stays true under the steps of the others because
tokens and keys move forward only (TokensMoveForward and KeysMoveForward, over the eight
calls that WhoWrites leaves to look at),
which is where the unique index matters: no insert brings a revoked row back. The
proof therefore has, for each action, what it does to its own request
(OwnTokenFollowed, OwnKeyFollowed) and one lemma for what any step leaves of
the others (OthersInFlight). From it follow

- `RetirementIsFinal`: Spec => []RetiredIsRevoked
- `ResetKeysAreSpent`: Spec => []SpentIsUsed
- `RequestsAgreeWithTables`, `Typing`
- `DeletionIsFinal`: Spec => DepartureIsFinal, an action property
- `ClosedAccountsStayClosed`: Spec => OnlyLoginReopens, sign-ins with an external identity
  and overtaken requests named. It needs SignsForItsUser, invariant beside IInv: a request
  signs for the account whose password or token it came with, so that a login or a refresh
  of another account cannot make a row of this one
- `RevocationIsForEver`: no step brings a revoked token or a used key back, whether
  anybody was told or not
- `FinishedCredentialsOpenNothing`: what the two promises are worth: no request that
  presents a finished token or key passes the first lookup
- `SessionsImplementLedger`: Spec => LedgerSpec; each handler step is a step of the
  ledger or leaves it unchanged

The exceptions of the two promises are weighed as well: each step adds one element to
`swallowed` at most, and only with a failed call, so there are no more exceptions than
failures (`ExceptionsAreFailures`), and none without (`WithoutFailuresNothingIsExcepted`).
No exception is there for the sake of a race.

Two theorems say what alone makes the two violations of Sessions possible.
`FirstDeliveriesAreLive`: a pair that is delivered is live unless the same text was
delivered before (`sessions_same_second`) or its insert failed; it needs that every row
is of a text that was handed out (RowsAreHanded). `ChangesCloseAccounts`: the answer to a
change of password leaves the account closed unless a login or a refresh of it was under
way (`sessions_overtaken`).

**WebClientProofs.** CookieServes alone is not inductive: a refresh revokes the token
in the jar two calls before the reply that replaces it, and in between only the
position of that request tells that the browser is being served. `WebInv` adds to the
`IInv` of Sessions: RowsAreHanded (only delivered tokens have rows); RequestsBelong (a
request at work is one of a browser's, and a reply has no tokens before the handler's
end); RepliesAreFresh (the token a reply will set is in no other reply, request or jar
unless excused); CookiesAreApart (no two browsers have one cookie, and only requests of its
own browser use it up, unless excused); CookiesLive (without failures, tokens under way
are active, and a cookie is, or is excused, or is being replaced by a request of its own
browser). `WebInvariance`, `JarsAreTyped` and
`NobodyIsSignedOutByAccident` hold for any number of browsers and tabs, where the run has
one browser. `BrowsersAreClients` is WebSpec => Spec: each step of a browser is one of
a client of Sessions or none, so that every theorem above is one about browsers;
`RetirementIsFinalForBrowsers` states two. `SignedOutStaysSignedOut` is WebSpec =>
OnlyLoginSignsIn: only the refresh of a cookie the browser has, or a login, begins to
issue tokens to it (SignInIsALogin), no later call of a handler does (WorkIssuesNothingNew),
and a reply lands in the browser it was made for. `web_logout` shows that the token of a
browser that logged out stays active; `ForgottenTokensStayForgotten` says what the cookies
do about it: once no jar holds a token and no reply brings it, no browser has it again,
unless the same text is signed anew in the second of its issue.

**OnboardingProofs.** The same shape: the tables only advance (TablesMoveForward),
so what a request read of them stays true (StayingInFlight, OwnInFlight), and
RequestsMatchTables, part of `IInv`, carries each property across the gap between look
and write.
AttachedOnlyIfCertified, for instance, needs that a request that reached `link`
holds a certified address or an account its own identity created. UnverifiedKeepsTicket
needs ConfirmedAtBirth (an account that an identity created is verified from the first,
so that only registrations owe a token) and, where a registration ends without storing
its token, that a call failed or the process died (TicketStep, WaitingGoesOn).
`OnboardingInvariance`, `SignInsAreStable`,
`TicketsLastLongEnough`, `JoiningTakesCertification`, `OnboardingIsTyped`,
`OnboardingIsSound`, and the
refinement `OnboardingImplementsDirectory`. `DeletionShutsOut` is Spec =>
DeletedIsJoinedNoMore: each of the lookups of a sign-in is taken on its own, and a failed one
leads to an insert, of a uuid no row has; it needs that a deleted account keeps its row
(`RowsOutliveDeletion`). `BelongingsAreForEver` is the action property
the rest leans on: no later step gives an address, a creator or an identity to another
account, or undoes a verification or a certification. `LowerCaseJoins` is
JoinsExistingAccount for addresses in lower case, and `OnlyRegisteredAccountsAreMissed`, for
any idempotent `Lower`, that an account a sign-in misses was registered with a password
under an address not in lower case: the violation of `onboarding_case` has no other cause,
no race or failed lookup among them.

**StartupProofs.** `StartupInv` adds to the types the handshake of a pod: when the
channel is closed, the goroutine is done, and is connected unless it gave up or
there was nothing to dial. A main that the channel let go on therefore sees the connection.
`RepositoriesMatchConnections` follows: Spec => []RepositoryMatchesConnection. It says
nothing of a pod that timed out but that it has no repository without a connection: such
a pod may have connected at once and be migrating or seeding still.

**SeederProofs.** `IInv` adds to the properties what a pod knows between two calls:
RoleFollowed (past ensureRole the account has its role), TenantFollowed (while
franchise-service keeps its ids, an attachment that was read valid is still valid when
ensureTenant decides on it), both stable because the tables only advance
(TablesMoveForward). SomeSeedingGoesOn alone is not inductive: two pods about to insert
one role, and a third that inserts it, leave two that will fail. `Doomed` says which
those are, and the invariant is that some pod is not: the one that inserted the role
dooms others and goes on (SurefootedStep, DoomedStep). `SeederInvariance`,
`SeederIsTyped`, `SeededAccountsKeepRoles`, `ManagersStayAttached`, `SeedingGoesOn`.
`ValidAttachmentsStay` is Spec => ValidAttachmentIsKept, the sentence of seeder.go:283
("Un rattachement encore valide n'est jamais écrasé") with the one exception the code
has: a pod whose list predates the current restaurants. It needs ReadFollows: a manager
who is at another restaurant than the expected one was there when the pod read its row,
because no seeding writes such a one. With it, `SeedingAgainChangesNothing`: the
restarts of a deployment leave a complete database as it is.

**RolloutProofs.** `RolloutInv` is StartupInv with what the update needs: the controller
leaves Replicas - MaxUnavailable pods ready (EnoughAreReady), `ready` are pods that exist,
the schema and the configuration stay, and as long as no container crashed, a ready pod is the
process that answered the probe (ReadyServes). EnoughAreReady restates two guards of the
controller, which is external, and is no property of its own: that removing a pod which is
not ready changes no count, and that one pod created adds one, are facts about finite sets
(FiniteSetTheorems). `RolloutInvariance`, `PodsAreTyped`, `UpdatesMatchConnections`, and
`OnlyLateStartsDoNotAnswer`, which is ReadyPodsAnswer under MaxUnavailable < Replicas
(without which an update may leave no pod at all): with PostgreSQL up, a ready pod that
does not answer had a start that was not over within the 3 s, or attempts that all failed.
`rollout_reachable`, in which no container crashes, has no other cause.
`PodsRunAsStartupSays` is RolloutSpec => [][Next]_vars: whatever the controller and the
kubelet do, a pod takes steps of `Startup` or none. It needs that a pod that is not there
is at rest in its initial state, since the model then creates it by its Boot.
`RecoveryRepairsNothing` takes the trace of `rollout_reachable` to its end: once the update
is over and its pods serve without a repository, every ready pod replies 200 to the
probe and 500 to the rest, and only the crash of a container ends that.

**RolesProofs.** `IInv` adds SlugsAreUnique, from which OneRoleOpensTheGate follows, as
names equal but for case have one slug; `Carried`, what a request holds at each step (past
the second lookup the role exists; past a dropped error the grant is in `swallowed`); and
`SignedInTime` with `UnderWayInTime`: for an account without the role, a token that opens
the gate, or a signing under way that will make one, had its roles read before the loss.
PowerFadesInTime alone is not inductive: nothing in it relates the reading to the loss.
`RolesInvariance`, `RolesAreTyped`, `TheGateHasOneKey`, `GrantsAreKept`, `PowerFades`.
GrantsHold leaves out the promotions whose second lookup failed: `WithoutFailuresGrantsHold`
says that there are none as long as no call fails. `ShadowsAreForEver` states a state the
code cannot leave: if "Admin" was created before "admin", the exact lookup misses it, the
slug is taken, and since roles are never renamed or deleted nobody can be promoted any more.

**OAuthFlowProofs.** `FlowInv` follows a flow through the browser: a cookie is that of a
flow its browser began (CookiesAreOpen), a code that of a flow that went away
(GrantsAreTrue), a Callback past the comparison that of a flow of its browser
(CallbacksFollow), and FlowsAreAlone: the browser of a flow that was not overtaken has
its state in the cookie and no other reply to come that could change it, which is what
makes RefusedForAReason an invariant matter. `FlowInvariance`, `FlowsAreTyped`,
`SignInsComeHome`, and the action properties `RefusalsHaveAReason`,
`AnsweredStatesAreDead` and `CodesSignInOnce` (Spec => CodeSignsInOnce):
AnsweredStateIsDead lets two Callbacks of one URL past the comparison when both were
sent before a reply, but the exchange comes before any profile is read, only one of
them gets past it, and only under the path of the provider the flow began with. That
needs CodesAreSpent: a Callback past the exchange has the only use of its code.

**Handlers end.** Liveness needs fairness and ENABLED, which the provers do not reach.
What can be proved of it is its variant: each step a request takes leaves it strictly
fewer calls, from at most four, and no step of another request changes where it is
(`HandlersEnd` of SessionsProofs, OnboardingProofs and RolesProofs, `CallbacksEnd`). A
seeding ends after the list, 2 calls a role and 4 an account at most, unless its pod
dies (`SeedingsEnd`); the dialing goroutine and the wait of main use up their attempts
and their time (`StartsEnd`, and within an update `UpdatesStartPods`). No retry loop, no
lock and no wait for another actor can creep into a handler without breaking one of
these. That there is always a next step to take is what the liveness properties add, on
the instances of the runs.

Only model-checked: the liveness properties (EveryRequestIsAnswered, EveryPodServes,
DialingEnds, RolloutCompletes, SeedingConverges), which need fairness and are out of the
prover's reach; and the violations, which are
traces.

## 5. What is left out

- Texts: HTML, mail content, log lines, validation of the shape of an address or
  of a password. `Password` is the set that passes validatePasswordComplex.
- bcrypt, JWT signatures and random strings are taken as what they are used for.
- Read-only routes (profile, lists of users and roles, versions): a single read each,
  which changes nothing. `FindAll` and the clamping of pages only shape a reply.
- The profile a provider sends, and how its address is found and certified (`email` or
  preferred_username; `email_verified`, `xms_edov`, a configured tenant): what a claim is
  worth is outside the code. `Onboarding` takes any address, certified or not.
- The row without a name that a failed promotion may insert (`Roles`).
- The rate limiter is a library's counter in one pod; user_client is fire and forget.
- Terraform, the scripts and the pipeline act on outside services and keep no state in
  this program.
- A way back for an account whose token was never stored: it can neither be verified nor
  registered again. The model contains the behaviour, and UnverifiedKeepsTicket says that
  only a failed call or a crash leads to it; no document of the repository promises one.

## 6. What could come next

Done, in the order of importance: Sessions with AccountLedger; Onboarding with
Directory; Startup; Rollout; Seeder; Roles; OAuthFlow; WebClient; proofs
of all of them.

1. `Seeder` in place of Migrate in `Startup`, so that the rows the migration needs and
   the accounts a new pod serves are one model.
2. OAuthFlow with `Onboarding` behind LoginWithOAuth, and WebClient with the flow's
   tokens, which reach the browser in a fragment and not in a cookie.
