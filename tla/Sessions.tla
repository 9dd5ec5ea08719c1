------------------------------ MODULE Sessions ------------------------------
(***************************************************************************)
(* Sessions and credentials of the auth-service: login, sign-in with an    *)
(* external identity, refresh, logout, forgotten password, password reset, *)
(* password change and account deletion (internal/services/auth_service.go *)
(* and oauth_login.go with their controllers, and                          *)
(* internal/repository/token_repository.go).                               *)
(*                                                                         *)
(* Requests run concurrently, on several pods that share one PostgreSQL.   *)
(* No handler opens a transaction: each repository call commits on its     *)
(* own, so a handler is a series of atomic steps, one per call, and other  *)
(* requests run between them. A request's arrival is merged with its first *)
(* read, and the last write with the reply.                                *)
(*                                                                         *)
(* A refresh token is the HS256 JWT {sub, exp}, exp in whole seconds: its  *)
(* text is a function of the account and of the second of signing, which   *)
(* is therefore all that a Token is here.                                  *)
(***************************************************************************)
EXTENDS Naturals

CONSTANTS
  User,        \* accounts that exist when the model starts
  Verified,    \* those whose e-mail address is verified
  Password,    \* passwords that pass validatePasswordComplex
  Key,         \* reset keys generateTokenString may draw
  Req,         \* requests in flight at once
  None,        \* no account, token, key or password
  MaxTime,     \* bound on the clock, in seconds
  RefreshTTL,  \* lifetime of a refresh token
  ResetTTL,    \* lifetime of a reset key
  MaxFaults    \* bound on failed database calls and crashes

Second == 0 .. MaxTime
Token == [sub : User, iat : Second]

ASSUME SessionsAssumption ==
  /\ Verified \subseteq User
  /\ None \notin User \cup Password \cup Key \cup Token
  /\ MaxTime \in Nat /\ RefreshTTL \in Nat /\ ResetTTL \in Nat
  /\ MaxFaults \in Nat

VARIABLES
  now,        \* the clock the pods and the database share
  password,   \* column users.password
  deleted,    \* accounts whose users.deleted_at is set
  rt,         \* table refresh_tokens: a row is absent, active or revoked
  reset,      \* table password_reset_tokens: owner (None: no row), until, used
  pc,         \* the step each request is at, or its last reply
  job,        \* what each request in flight carries
  handed,     \* tokens delivered to a client by a login or a refresh
  retired,    \* tokens whose client was told they no longer serve
  spent,      \* keys whose holder was told that the password was reset
  swallowed,  \* tokens and keys whose write failed with the error dropped
  faults      \* failures so far

database == <<password, deleted, rt, reset>>
history  == <<handed, retired, spent, swallowed>>
vars == <<now, database, pc, job, history, faults>>

(***************************************************************************)
(* Requests.                                                               *)
(***************************************************************************)
Resting == {"idle", "ok", "failed"}
Issuing == {"findUser", "revokeOld", "sign", "store"}
\* The steps a request only reaches once its account was found in the table.
Granted == {"revokeOld", "sign", "store", "createReset", "applyReset", "markUsed",
            "setPassword", "revokeAll", "endSessions", "removeUser"}
\* The steps of a reset whose key was read.
KeySteps == {"checkNew", "applyReset", "markUsed", "dropCookie"}
Stage == Resting \cup Granted \cup {"findUser", "checkNew", "dropCookie"}

Job == [user : User \cup {None}, token : Token \cup {None},
        issued : Token \cup {None}, key : Key \cup {None},
        wanted : Password \cup {None}, overtaken : BOOLEAN]
NoJob == [user |-> None, token |-> None, issued |-> None, key |-> None,
          wanted |-> None, overtaken |-> FALSE]
JobOf(u) == [NoJob EXCEPT !.user = u]

ResetRow == [owner : User \cup {None}, until : Nat, used : BOOLEAN]

Free(r) == pc[r] \in Resting

Begin(r, stage, carried) ==
  /\ pc' = [pc EXCEPT ![r] = stage]
  /\ job' = [job EXCEPT ![r] = carried]

Continue(r, stage) ==
  /\ pc' = [pc EXCEPT ![r] = stage]
  /\ UNCHANGED job

Answer(r, reply) == Begin(r, reply, NoJob)

\* A database call that returns an error, or a pod that dies.
Fault == faults < MaxFaults /\ faults' = faults + 1

TokensOf(u) == {t \in Token : t.sub = u}
Live(t) == rt[t] = "active" /\ now < t.iat + RefreshTTL
OpenKey(k) == reset[k].owner # None /\ ~reset[k].used /\ now < reset[k].until

\* AuthMiddleware checks the signature and exp of a JWT and looks nothing up.
\* Both halves of a pair carry the account, and the refresh half lasts longer.
Authenticated(u) == \E t \in handed : t.sub = u /\ now < t.iat + RefreshTTL

Revoke(T) == rt' = [t \in Token |-> IF t \in T /\ rt[t] = "active"
                                    THEN "revoked" ELSE rt[t]]

Init ==
  /\ now = 0
  /\ password \in [User -> Password]
  /\ deleted = {}
  /\ rt = [t \in Token |-> "absent"]
  /\ reset = [k \in Key |-> [owner |-> None, until |-> 0, used |-> FALSE]]
  /\ pc = [r \in Req |-> "idle"]
  /\ job = [r \in Req |-> NoJob]
  /\ handed = {}
  /\ retired = {}
  /\ spent = {}
  /\ swallowed = {}
  /\ faults = 0

(***************************************************************************)
(* Issuing a pair of tokens, shared by both logins and refresh.            *)
(***************************************************************************)
\* GetUserRoles, whose error is dropped, then the signing.
SignTokens(r) ==
  /\ pc[r] = "sign"
  /\ Begin(r, "store", [job[r] EXCEPT !.issued = [sub |-> job[r].user, iat |-> now]])
  /\ UNCHANGED <<now, database, history, faults>>

\* Mutant: ON CONFLICT (token) DO UPDATE SET revoked = false.
UpsertRefreshToken(r) ==
  /\ pc[r] = "store"
  /\ rt' = [rt EXCEPT ![job[r].issued] = "active"]
  /\ handed' = handed \cup {job[r].issued}
  /\ retired' = retired \cup ({job[r].token} \cap Token)
  /\ Answer(r, "ok")
  /\ UNCHANGED <<now, password, deleted, reset, spent, swallowed, faults>>

\* The insert. A second row for the same text violates the unique index; that
\* error, like any other, is dropped and the pair is delivered all the same.
CreateRefreshToken(r) ==
  LET t == job[r].issued IN
  /\ pc[r] = "store"
  /\ \/ /\ rt' = [rt EXCEPT ![t] = IF @ = "absent" THEN "active" ELSE @]
        /\ UNCHANGED <<faults, swallowed>>
     \/ Fault /\ swallowed' = swallowed \cup {t} /\ UNCHANGED rt
  /\ handed' = handed \cup {t}
  /\ retired' = retired \cup ({job[r].token} \cap Token)
  /\ Answer(r, "ok")
  /\ UNCHANGED <<now, password, deleted, reset, spent>>

LoginUser(r, u, p) ==
  /\ Free(r)
  /\ IF u \in Verified \ deleted /\ p = password[u]
       THEN Begin(r, "sign", JobOf(u))
       ELSE Answer(r, "failed")
  /\ UNCHANGED <<now, database, history, faults>>

\* An identity the account is linked to, or a certified address it has, opens it
\* without the password. Which of them do, what is refused and what is created on
\* the way is module Onboarding: once the account was found and the link, if it
\* is new, stored, nothing looks at the account again.
LoginWithOAuth(r, u) ==
  /\ Free(r)
  /\ \/ u \notin deleted /\ Begin(r, "sign", JobOf(u))
     \/ Answer(r, "failed")
  /\ UNCHANGED <<now, database, history, faults>>

(***************************************************************************)
(* RefreshAccessToken.                                                     *)
(***************************************************************************)
\* Mutant: the query does not look at the column revoked.
GetRefreshTokenRevoked(r, t) ==
  /\ Free(r)
  /\ IF rt[t] # "absent" /\ now < t.iat + RefreshTTL
       THEN Begin(r, "findUser", [JobOf(t.sub) EXCEPT !.token = t])
       ELSE Answer(r, "failed")
  /\ UNCHANGED <<now, database, history, faults>>

GetRefreshToken(r, t) ==
  /\ Free(r)
  /\ IF Live(t)
       THEN Begin(r, "findUser", [JobOf(t.sub) EXCEPT !.token = t])
       ELSE Answer(r, "failed")
  /\ UNCHANGED <<now, database, history, faults>>

\* Mutant: an Unscoped() lookup, which also finds soft-deleted accounts.
FindTokenOwnerUnscoped(r) ==
  /\ pc[r] = "findUser"
  /\ Continue(r, "revokeOld")
  /\ UNCHANGED <<now, database, history, faults>>

\* Mutant: the lookup is retried until it finds the account.
FindTokenOwnerRetried(r) ==
  /\ pc[r] = "findUser"
  /\ IF job[r].user \in deleted THEN UNCHANGED <<pc, job>> ELSE Continue(r, "revokeOld")
  /\ UNCHANGED <<now, database, history, faults>>

FindTokenOwner(r) ==
  /\ pc[r] = "findUser"
  /\ \/ /\ IF job[r].user \in deleted
             THEN Answer(r, "failed")
             ELSE Continue(r, "revokeOld")
        /\ UNCHANGED faults
     \/ Fault /\ Answer(r, "failed")
  /\ UNCHANGED <<now, database, history>>

RevokeOldToken(r) ==
  LET t == job[r].token IN
  /\ pc[r] = "revokeOld"
  /\ \/ Revoke({t}) /\ UNCHANGED <<faults, swallowed>>
     \/ Fault /\ swallowed' = swallowed \cup {t} /\ UNCHANGED rt
  /\ Continue(r, "sign")
  /\ UNCHANGED <<now, password, deleted, reset, handed, retired, spent>>

(***************************************************************************)
(* LogoutUser: a single update, whose error the controller drops. A        *)
(* request that carries no refresh token changes nothing.                  *)
(***************************************************************************)
LogoutUser(r, t) ==
  /\ Free(r)
  /\ \/ Revoke({t}) /\ UNCHANGED <<faults, swallowed>>
     \/ Fault /\ swallowed' = swallowed \cup {t} /\ UNCHANGED rt
  /\ retired' = retired \cup {t}
  /\ Answer(r, "ok")
  /\ UNCHANGED <<now, password, deleted, reset, handed, spent>>

LogoutWithoutToken(r) ==
  /\ Free(r)
  /\ Answer(r, "ok")
  /\ UNCHANGED <<now, database, history, faults>>

(***************************************************************************)
(* ForgotPassword. An unknown address gets the same reply as a known one,  *)
(* and a failed insert the same as a stored key.                           *)
(***************************************************************************)
ForgotPassword(r, u) ==
  /\ Free(r)
  /\ IF u \in deleted
       THEN Answer(r, "ok")
       ELSE \E k \in Key :
              /\ reset[k].owner = None
              /\ \A q \in Req : job[q].key # k
              /\ Begin(r, "createReset", [JobOf(u) EXCEPT !.key = k])
  /\ UNCHANGED <<now, database, history, faults>>

\* Mutant: the lifetime is subtracted from the clock.
CreateExpiredResetToken(r) ==
  /\ pc[r] = "createReset"
  /\ reset' = [reset EXCEPT ![job[r].key] =
                [owner |-> job[r].user, until |-> now - ResetTTL, used |-> FALSE]]
  /\ Answer(r, "ok")
  /\ UNCHANGED <<now, password, deleted, rt, history, faults>>

CreatePasswordResetToken(r) ==
  /\ pc[r] = "createReset"
  /\ \/ /\ reset' = [reset EXCEPT ![job[r].key] =
              [owner |-> job[r].user, until |-> now + ResetTTL, used |-> FALSE]]
        /\ UNCHANGED faults
     \/ Fault /\ UNCHANGED reset
  /\ Answer(r, "ok")
  /\ UNCHANGED <<now, password, deleted, rt, history>>

(***************************************************************************)
(* ResetPassword.                                                          *)
(***************************************************************************)
GetPasswordResetToken(r, k, p) ==
  /\ Free(r)
  /\ IF OpenKey(k)
       THEN Begin(r, "checkNew",
                  [JobOf(reset[k].owner) EXCEPT !.key = k, !.wanted = p])
       ELSE Answer(r, "failed")
  /\ UNCHANGED <<now, database, history, faults>>

CheckNewPassword(r) ==
  /\ pc[r] = "checkNew"
  /\ \/ /\ IF job[r].user \in deleted \/ password[job[r].user] = job[r].wanted
             THEN Answer(r, "failed")
             ELSE Continue(r, "applyReset")
        /\ UNCHANGED faults
     \/ Fault /\ Answer(r, "failed")
  /\ UNCHANGED <<now, database, history>>

\* Mutant: the handler returns before it marks the key.
ApplyResetOnly(r) ==
  /\ pc[r] = "applyReset"
  /\ password' = [password EXCEPT ![job[r].user] = job[r].wanted]
  /\ Continue(r, "dropCookie")
  /\ UNCHANGED <<now, deleted, rt, reset, history, faults>>

\* The update matches no row once the account is soft-deleted, which is no
\* error, and its error would be dropped.
ApplyReset(r) ==
  LET u == job[r].user IN
  /\ pc[r] = "applyReset"
  /\ \/ /\ password' = IF u \in deleted THEN password
                       ELSE [password EXCEPT ![u] = job[r].wanted]
        /\ UNCHANGED faults
     \/ Fault /\ UNCHANGED password
  /\ Continue(r, "markUsed")
  /\ UNCHANGED <<now, deleted, rt, reset, history>>

MarkPasswordResetTokenAsUsed(r) ==
  LET k == job[r].key IN
  /\ pc[r] = "markUsed"
  /\ \/ reset' = [reset EXCEPT ![k].used = TRUE] /\ UNCHANGED <<faults, swallowed>>
     \/ Fault /\ swallowed' = swallowed \cup {k} /\ UNCHANGED reset
  /\ Continue(r, "dropCookie")
  /\ UNCHANGED <<now, password, deleted, rt, handed, retired, spent>>

\* The controller then logs out the session whose cookie came along, if any.
DropSessionCookie(r) ==
  /\ pc[r] = "dropCookie"
  /\ \/ UNCHANGED <<rt, retired, swallowed, faults>>
     \/ \E t \in handed :
          /\ \/ Revoke({t}) /\ UNCHANGED <<faults, swallowed>>
             \/ Fault /\ swallowed' = swallowed \cup {t} /\ UNCHANGED rt
          /\ retired' = retired \cup {t}
  /\ spent' = spent \cup {job[r].key}
  /\ Answer(r, "ok")
  /\ UNCHANGED <<now, password, deleted, reset, handed>>

(***************************************************************************)
(* ChangePassword.                                                         *)
(***************************************************************************)
ChangePassword(r, u, current, new) ==
  /\ Free(r)
  /\ Authenticated(u)
  /\ IF u \notin deleted /\ current = password[u] /\ new # password[u]
       THEN Begin(r, "setPassword", [JobOf(u) EXCEPT !.wanted = new])
       ELSE Answer(r, "failed")
  /\ UNCHANGED <<now, database, history, faults>>

\* Mutant: the update also matches soft-deleted accounts.
SetPasswordUnscoped(r) ==
  /\ pc[r] = "setPassword"
  /\ password' = [password EXCEPT ![job[r].user] = job[r].wanted]
  /\ Continue(r, "revokeAll")
  /\ UNCHANGED <<now, deleted, rt, reset, history, faults>>

SetPassword(r) ==
  LET u == job[r].user IN
  /\ pc[r] = "setPassword"
  /\ \/ /\ password' = IF u \in deleted THEN password
                       ELSE [password EXCEPT ![u] = job[r].wanted]
        /\ Continue(r, "revokeAll")
        /\ UNCHANGED faults
     \/ Fault /\ Answer(r, "failed") /\ UNCHANGED password
  /\ UNCHANGED <<now, deleted, rt, reset, history>>

\* The last write of the handler: every session the table holds is closed. A
\* login or a refresh of the account that is still running is not in it yet.
RevokeAllRefreshTokens(r) ==
  LET u == job[r].user IN
  /\ pc[r] = "revokeAll"
  /\ \/ /\ Revoke(TokensOf(u))
        /\ retired' = retired \cup {t \in TokensOf(u) : rt[t] # "absent"}
        /\ pc' = [pc EXCEPT ![r] = "ok"]
        /\ job' = [q \in Req |->
                     IF q = r THEN NoJob
                     ELSE IF job[q].user = u /\ pc[q] \in Issuing
                            THEN [job[q] EXCEPT !.overtaken = TRUE]
                            ELSE job[q]]
        /\ UNCHANGED faults
     \/ Fault /\ Answer(r, "failed") /\ UNCHANGED <<rt, retired>>
  /\ UNCHANGED <<now, password, deleted, reset, handed, spent, swallowed>>

(***************************************************************************)
(* DeleteAccount.                                                          *)
(***************************************************************************)
DeleteAccount(r, u, p) ==
  /\ Free(r)
  /\ Authenticated(u)
  /\ IF u \notin deleted /\ p = password[u]
       THEN Begin(r, "endSessions", JobOf(u))
       ELSE Answer(r, "failed")
  /\ UNCHANGED <<now, database, history, faults>>

EndSessions(r) ==
  LET u == job[r].user IN
  /\ pc[r] = "endSessions"
  /\ \/ /\ Revoke(TokensOf(u))
        /\ retired' = retired \cup {t \in TokensOf(u) : rt[t] # "absent"}
        /\ Continue(r, "removeUser")
        /\ UNCHANGED faults
     \/ Fault /\ Answer(r, "failed") /\ UNCHANGED <<rt, retired>>
  /\ UNCHANGED <<now, password, deleted, reset, handed, spent, swallowed>>

DeleteUser(r) ==
  /\ pc[r] = "removeUser"
  /\ \/ /\ deleted' = deleted \cup {job[r].user}
        /\ Answer(r, "ok")
        /\ UNCHANGED faults
     \/ Fault /\ Answer(r, "failed") /\ UNCHANGED deleted
  /\ UNCHANGED <<now, password, rt, reset, history>>

(***************************************************************************)
(* The environment.                                                        *)
(***************************************************************************)
\* The pod running a request dies: what it wrote stays, the client sees an
\* error. The death of a pod with several requests is several such steps.
Crash(r) ==
  /\ ~Free(r)
  /\ Fault
  /\ Answer(r, "failed")
  /\ UNCHANGED <<now, database, history>>

Tick ==
  /\ now < MaxTime
  /\ now' = now + 1
  /\ UNCHANGED <<database, pc, job, history, faults>>

\* A request arrives. Clients present the tokens they were handed.
Arrive(r) ==
  \/ LogoutWithoutToken(r)
  \/ \E t \in handed : GetRefreshToken(r, t) \/ LogoutUser(r, t)
  \/ \E u \in User : ForgotPassword(r, u) \/ LoginWithOAuth(r, u)
  \/ \E u \in User, p \in Password : LoginUser(r, u, p) \/ DeleteAccount(r, u, p)
  \/ \E k \in Key, p \in Password : GetPasswordResetToken(r, k, p)
  \/ \E u \in User, p, q \in Password : ChangePassword(r, u, p, q)

\* A request in flight makes its next repository call.
Proceed(r) ==
  \/ SignTokens(r) \/ CreateRefreshToken(r)
  \/ FindTokenOwner(r) \/ RevokeOldToken(r)
  \/ CreatePasswordResetToken(r)
  \/ CheckNewPassword(r) \/ ApplyReset(r)
  \/ MarkPasswordResetTokenAsUsed(r) \/ DropSessionCookie(r)
  \/ SetPassword(r) \/ RevokeAllRefreshTokens(r)
  \/ EndSessions(r) \/ DeleteUser(r)

Next == Tick \/ \E r \in Req : Arrive(r) \/ Proceed(r) \/ Crash(r)

Spec == Init /\ [][Next]_vars

(***************************************************************************)
(* Properties.                                                             *)
(***************************************************************************)
\* The type of every variable.
TypeOK ==
  /\ now \in Second
  /\ password \in [User -> Password]
  /\ deleted \in SUBSET User
  /\ rt \in [Token -> {"absent", "active", "revoked"}]
  /\ reset \in [Key -> ResetRow]
  /\ pc \in [Req -> Stage]
  /\ job \in [Req -> Job]
  /\ handed \in SUBSET Token
  /\ retired \in SUBSET Token
  /\ spent \in SUBSET Key
  /\ swallowed \in SUBSET (Token \cup Key)
  /\ faults \in 0 .. MaxFaults

\* A token whose client was told that it no longer serves (logout, rotation by
\* a refresh, password change, account deletion) is revoked from then on: no
\* concurrent request, crash or second issue of the same text brings it back.
\* Only a write error that the handler dropped can leave it alive.
RetiredIsRevoked == \A t \in retired \ swallowed : rt[t] = "revoked"

\* A reset key whose holder was told that the password was reset opens nothing
\* any more, unless the error of the update that marks it was dropped.
SpentIsUsed == \A k \in spent \ swallowed : reset[k].used

\* From the moment an account is deleted no request about it gets past its
\* account check, tokens and keys left over in the tables included.
DepartureIsFinal ==
  [][\A r \in Req : job'[r].user \in deleted /\ pc'[r] \in Granted
                      => pc[r] \in Granted]_vars

\* No session of the account is active, and of the logins and refreshes that
\* would open one at their end only those are under way that its change of
\* password overtook.
Closed(u) ==
  /\ \A t \in TokensOf(u) : rt[t] # "active"
  /\ \A r \in Req : job[r].user = u /\ pc[r] \in Issuing => job[r].overtaken

\* What a change of password or a logout everywhere is for: an account that is
\* closed stays so, whoever presents its old tokens, reset keys and access
\* tokens, until somebody signs in, with the password it then has or with an
\* external identity, which asks for none, or until an overtaken request of its
\* own, the one NoSessionOutlivesChange is about, stores what it signed.
OnlyLoginReopens ==
  [][\A u \in User : Closed(u) =>
       \/ Closed(u)'
       \/ \E r \in Req :
            \/ LoginUser(r, u, password[u]) \/ LoginWithOAuth(r, u)
            \/ CreateRefreshToken(r) /\ job[r].user = u /\ job[r].overtaken]_vars

\* Whatever the handlers do at once, the tables keep the promise of module
\* AccountLedger: one table per write, tokens and keys that only move forward,
\* no password written on a deleted account.
KeyLife(k) == IF reset[k].owner = None THEN "absent"
              ELSE IF reset[k].used THEN "used" ELSE "open"
Ledger == INSTANCE AccountLedger
            WITH session <- rt, key <- [k \in Key |-> KeyLife(k)]
LedgerSpec == Ledger!Spec

\* The job of a request is filled in for the step it is at.
JobFilled(r) ==
  /\ ~Free(r) => job[r].user \in User
  /\ pc[r] = "store" => job[r].issued \in Token
  /\ pc[r] \in {"checkNew", "applyReset", "setPassword"} => job[r].wanted \in Password
  /\ pc[r] \in {"findUser", "revokeOld"} => job[r].token \in Token
  /\ pc[r] \in KeySteps \cup {"createReset"} => job[r].key \in Key

\* The token a refresh came with has its row and, past the rotation, is revoked.
TokenFollowed(r) ==
  /\ pc[r] \in {"findUser", "revokeOld"} => rt[job[r].token] # "absent"
  /\ pc[r] \in {"sign", "store"} /\ job[r].token \in Token \ swallowed =>
       rt[job[r].token] = "revoked"

\* A key being stored is free and drawn by one request only, the key a reset
\* came with belongs to an account and, once marked, is used.
KeyFollowed(r) ==
  /\ pc[r] = "createReset" =>
       /\ reset[job[r].key].owner = None
       /\ \A q \in Req \ {r} : pc[q] = "createReset" => job[q].key # job[r].key
  /\ pc[r] \in KeySteps => reset[job[r].key].owner \in User
  /\ pc[r] = "dropCookie" /\ job[r].key \notin swallowed => reset[job[r].key].used

InFlight(r) == JobFilled(r) /\ TokenFollowed(r) /\ KeyFollowed(r)

\* What links the requests in flight to the tables, on which the invariants
\* above rest: every request is where its job and the rows it read say, and
\* every delivered token and spent key has its row.
TablesMatchRequests ==
  /\ \A r \in Req : InFlight(r)
  /\ \A t \in handed \ swallowed : rt[t] # "absent"
  /\ \A k \in spent : reset[k].owner \in User

(***************************************************************************)
(* What the documentation says and the code does not do.                   *)
(***************************************************************************)
\* README.md:50-51, a login returns a refresh token good for 7 days: as long as
\* no database call fails, a pair that a login or a refresh delivers is live.
HandedTokenIsLive ==
  [][\A r \in Req : pc[r] = "store" /\ pc'[r] = "ok" /\ faults' = 0
                      => rt'[job[r].issued] = "active"]_vars

\* auth_service.go:259-260, "All existing sessions are revoked afterwards": a
\* login or refresh that began before the change was answered opens none.
NoSessionOutlivesChange ==
  [][\A r \in Req : pc[r] = "store" /\ job[r].overtaken
                      => rt'[job[r].issued] # "active" \/ rt' = rt]_vars
=============================================================================
