--------------------------- MODULE SessionsProofs ---------------------------
(* Theorems about Sessions, for every set of users, requests and keys, every *)
(* lifetime and every bound on the clock and the failures.                   *)
EXTENDS Sessions, FiniteSetTheorems, TLAPS

(***************************************************************************)
(* Type correctness.                                                       *)
(***************************************************************************)
LEMMA TypingInit == Init => TypeOK
BY SessionsAssumption
DEF Init, TypeOK, ResetRow, Second, Stage, Resting, Granted, Job, NoJob

\* Filling in a job keeps its type.
LEMMA JobTypes ==
  ASSUME NEW u \in User
  PROVE  /\ NoJob \in Job
         /\ JobOf(u) \in Job
         /\ \A t \in Token : [JobOf(u) EXCEPT !.token = t] \in Job
         /\ \A k \in Key : [JobOf(u) EXCEPT !.key = k] \in Job
         /\ \A p \in Password : [JobOf(u) EXCEPT !.wanted = p] \in Job
         /\ \A k \in Key, p \in Password :
              [JobOf(u) EXCEPT !.key = k, !.wanted = p] \in Job
BY DEF Job, NoJob, JobOf

LEMMA RowTypes ==
  /\ \A u \in User, n \in Nat : [owner |-> u, until |-> n, used |-> FALSE] \in ResetRow
  /\ \A row \in ResetRow : [row EXCEPT !.used = TRUE] \in ResetRow
BY DEF ResetRow

LEMMA JobUpdates ==
  ASSUME NEW j \in Job
  PROVE  /\ \A t \in Token : [j EXCEPT !.issued = t] \in Job
         /\ [j EXCEPT !.overtaken = TRUE] \in Job
BY DEF Job

LEMMA JobFields ==
  ASSUME NEW u \in User
  PROVE  /\ JobOf(u).user = u /\ JobOf(u).token = None
         /\ \A t \in Token : LET j == [JobOf(u) EXCEPT !.token = t]
                             IN j.user = u /\ j.token = t
         /\ \A k \in Key : LET j == [JobOf(u) EXCEPT !.key = k]
                           IN j.user = u /\ j.key = k
         /\ \A p \in Password : LET j == [JobOf(u) EXCEPT !.wanted = p]
                                IN j.user = u /\ j.wanted = p
         /\ \A k \in Key, p \in Password :
              LET j == [JobOf(u) EXCEPT !.key = k, !.wanted = p]
              IN j.user = u /\ j.key = k /\ j.wanted = p
BY DEF NoJob, JobOf

LEMMA NoJobType == NoJob \in Job
BY DEF Job, NoJob

LEMMA BeginTypes ==
  ASSUME TypeOK,
         NEW r \in Req, NEW stage \in Stage, NEW carried \in Job,
         Begin(r, stage, carried)
  PROVE  pc' \in [Req -> Stage] /\ job' \in [Req -> Job]
BY DEF Begin, TypeOK

\* What InFlight says of a job, one fact per step that relies on it.
LEMMA JobFilledIn ==
  ASSUME \A r \in Req : InFlight(r), NEW r \in Req
  PROVE  /\ pc[r] \notin Resting => job[r].user \in User
         /\ pc[r] = "store" => job[r].issued \in Token
         /\ pc[r] \in {"applyReset", "setPassword"} => job[r].wanted \in Password
         /\ pc[r] = "revokeOld" => job[r].token \in Token
         /\ pc[r] \in {"createReset", "markUsed", "dropCookie"} => job[r].key \in Key
BY DEF InFlight, JobFilled, KeySteps, Free

\* A step preserves the types, given that the jobs in flight are filled in.
LEMMA TypingStep ==
  ASSUME TypeOK, \A r \in Req : InFlight(r), [Next]_vars
  PROVE  TypeOK'
<1> USE SessionsAssumption, NoJobType
    DEF TypeOK, vars, database, history, Fault, Continue, Answer,
        Stage, Resting, Granted, Revoke, TokensOf
<1>1. CASE UNCHANGED vars
  BY <1>1
<1>2. CASE Tick
  BY <1>2 DEF Tick, Second
<1>3. ASSUME NEW r \in Req, LogoutWithoutToken(r) PROVE TypeOK'
  BY <1>3, BeginTypes DEF LoginWithOAuth, LogoutWithoutToken
<1>4. ASSUME NEW r \in Req, NEW t \in handed, GetRefreshToken(r, t) PROVE TypeOK'
  BY <1>4, JobTypes, BeginTypes DEF GetRefreshToken, Token, Live
<1>5. ASSUME NEW r \in Req, NEW t \in handed, LogoutUser(r, t) PROVE TypeOK'
  BY <1>5, BeginTypes DEF LogoutUser
<1>6. ASSUME NEW r \in Req, NEW u \in User, ForgotPassword(r, u) PROVE TypeOK'
  BY <1>6, JobTypes, BeginTypes DEF ForgotPassword
<1>7. ASSUME NEW r \in Req, NEW u \in User, NEW p \in Password, LoginUser(r, u, p) PROVE TypeOK'
  BY <1>7, JobTypes, BeginTypes DEF LoginUser
<1>8. ASSUME NEW r \in Req, NEW u \in User, NEW p \in Password, DeleteAccount(r, u, p) PROVE TypeOK'
  BY <1>8, JobTypes, BeginTypes DEF DeleteAccount
<1>9. ASSUME NEW r \in Req, NEW k \in Key, NEW p \in Password, GetPasswordResetToken(r, k, p) PROVE TypeOK'
  <2>1. OpenKey(k) => reset[k].owner \in User
    BY DEF OpenKey, ResetRow
  <2> QED
    BY <1>9, <2>1, JobTypes, BeginTypes DEF GetPasswordResetToken
<1>10. ASSUME NEW r \in Req, NEW u \in User, NEW p \in Password, NEW q \in Password, ChangePassword(r, u, p, q) PROVE TypeOK'
  BY <1>10, JobTypes, BeginTypes DEF ChangePassword
<1>11. ASSUME NEW r \in Req, SignTokens(r) PROVE TypeOK'
  <2>1. [sub |-> job[r].user, iat |-> now] \in Token
    BY <1>11, JobFilledIn DEF SignTokens, Token
  <2>2. \A t \in Token : [job[r] EXCEPT !.issued = t] \in Job
    BY JobUpdates
  <2> QED
    BY <1>11, <2>1, <2>2, BeginTypes DEF SignTokens
<1>12. ASSUME NEW r \in Req, CreateRefreshToken(r) PROVE TypeOK'
  BY <1>12, BeginTypes, JobFilledIn DEF CreateRefreshToken
<1>13. ASSUME NEW r \in Req, FindTokenOwner(r) PROVE TypeOK'
  BY <1>13, BeginTypes DEF FindTokenOwner
<1>14. ASSUME NEW r \in Req, RevokeOldToken(r) PROVE TypeOK'
  BY <1>14, BeginTypes, JobFilledIn DEF RevokeOldToken
<1>15. ASSUME NEW r \in Req, CreatePasswordResetToken(r) PROVE TypeOK'
  <2>1. job[r].key \in Key /\ job[r].user \in User /\ now + ResetTTL \in Nat
    BY <1>15, JobFilledIn DEF CreatePasswordResetToken, Second
  <2>2. reset' \in [Key -> ResetRow]
    BY <1>15, <2>1, RowTypes DEF CreatePasswordResetToken
  <2>3. job' \in [Req -> Job] /\ pc' \in [Req -> Stage]
    BY <1>15, BeginTypes DEF CreatePasswordResetToken
  <2> QED
    BY <1>15, <2>2, <2>3 DEF CreatePasswordResetToken
<1>16. ASSUME NEW r \in Req, CheckNewPassword(r) PROVE TypeOK'
  BY <1>16, BeginTypes DEF CheckNewPassword
<1>17. ASSUME NEW r \in Req, ApplyReset(r) PROVE TypeOK'
  BY <1>17, BeginTypes, JobFilledIn DEF ApplyReset
<1>18. ASSUME NEW r \in Req, MarkPasswordResetTokenAsUsed(r) PROVE TypeOK'
  <2>1. job[r].key \in Key
    BY <1>18, JobFilledIn DEF MarkPasswordResetTokenAsUsed
  <2>2. reset' \in [Key -> ResetRow]
    BY <1>18, <2>1, RowTypes DEF MarkPasswordResetTokenAsUsed
  <2> QED
    BY <1>18, <2>1, <2>2 DEF MarkPasswordResetTokenAsUsed
<1>19. ASSUME NEW r \in Req, DropSessionCookie(r) PROVE TypeOK'
  BY <1>19, BeginTypes, JobFilledIn DEF DropSessionCookie
<1>20. ASSUME NEW r \in Req, SetPassword(r) PROVE TypeOK'
  BY <1>20, BeginTypes, JobFilledIn DEF SetPassword
<1>21. ASSUME NEW r \in Req, RevokeAllRefreshTokens(r) PROVE TypeOK'
  <2>1. \A q \in Req : [job[q] EXCEPT !.overtaken = TRUE] \in Job
    BY JobUpdates
  <2>2. job' \in [Req -> Job] /\ pc' \in [Req -> Stage]
    <3>1. CASE Answer(r, "failed")
      BY <3>1, BeginTypes
    <3>2. CASE ~Answer(r, "failed")
      BY <1>21, <3>2, <2>1 DEF RevokeAllRefreshTokens
    <3> QED
      BY <3>1, <3>2
  <2> QED
    BY <1>21, <2>2 DEF RevokeAllRefreshTokens
<1>22. ASSUME NEW r \in Req, EndSessions(r) PROVE TypeOK'
  BY <1>22, BeginTypes DEF EndSessions
<1>23. ASSUME NEW r \in Req, DeleteUser(r) PROVE TypeOK'
  BY <1>23, BeginTypes, JobFilledIn DEF DeleteUser
<1>24. ASSUME NEW r \in Req, Crash(r) PROVE TypeOK'
  BY <1>24, BeginTypes DEF Crash
<1>25. ASSUME NEW r \in Req, NEW u \in User, LoginWithOAuth(r, u) PROVE TypeOK'
  BY <1>25, JobTypes, BeginTypes DEF LoginWithOAuth
<1> QED
  BY <1>1, <1>2, <1>3, <1>4, <1>5, <1>6, <1>7, <1>8, <1>9, <1>10, <1>11, <1>12, <1>13,
     <1>14, <1>15, <1>16, <1>17, <1>18, <1>19, <1>20, <1>21, <1>22, <1>23, <1>24, <1>25
  DEF Next, Arrive, Proceed

(***************************************************************************)
(* The tables only move forward.                                           *)
(***************************************************************************)
\* Eight calls write the rows of tokens and keys, or tell a client about them.
Writes(r) ==
  \/ CreateRefreshToken(r) \/ RevokeOldToken(r) \/ \E t \in handed : LogoutUser(r, t)
  \/ CreatePasswordResetToken(r) \/ MarkPasswordResetTokenAsUsed(r) \/ DropSessionCookie(r)
  \/ RevokeAllRefreshTokens(r) \/ EndSessions(r)

\* The others leave all of that alone, whether they fail or not.
LEMMA WhoWrites ==
  ASSUME [Next]_vars
  PROVE  \/ UNCHANGED <<rt, reset, handed, retired, spent, swallowed>>
            /\ (faults' = faults \/ Fault)
         \/ \E r \in Req : Writes(r)
<1> DEFINE Quiet == UNCHANGED <<rt, reset, handed, retired, spent, swallowed>>
                      /\ (faults' = faults \/ Fault)
<1> USE DEF database, history
<1>1. CASE Tick \/ UNCHANGED vars
  BY <1>1 DEF Tick, vars
<1>2. ASSUME NEW r \in Req, NEW t \in handed, GetRefreshToken(r, t) PROVE Quiet
  BY <1>2 DEF GetRefreshToken
<1>3. ASSUME NEW r \in Req, NEW u \in User, ForgotPassword(r, u) \/ LoginWithOAuth(r, u)
      PROVE  Quiet
  BY <1>3 DEF ForgotPassword, LoginWithOAuth
<1>4. ASSUME NEW r \in Req, NEW u \in User, NEW p \in Password,
             LoginUser(r, u, p) \/ DeleteAccount(r, u, p)
      PROVE  Quiet
  BY <1>4 DEF LoginUser, DeleteAccount
<1>5. ASSUME NEW r \in Req, NEW k \in Key, NEW p \in Password, GetPasswordResetToken(r, k, p)
      PROVE  Quiet
  BY <1>5 DEF GetPasswordResetToken
<1>6. ASSUME NEW r \in Req, NEW u \in User, NEW p \in Password, NEW q \in Password,
             ChangePassword(r, u, p, q)
      PROVE  Quiet
  BY <1>6 DEF ChangePassword
<1>7. ASSUME NEW r \in Req, LogoutWithoutToken(r) \/ Crash(r) PROVE Quiet
  BY <1>7 DEF LoginWithOAuth, LogoutWithoutToken, Crash
<1>8. ASSUME NEW r \in Req, SignTokens(r) \/ FindTokenOwner(r) \/ CheckNewPassword(r)
      PROVE  Quiet
  BY <1>8 DEF SignTokens, FindTokenOwner, CheckNewPassword
<1>9. ASSUME NEW r \in Req, ApplyReset(r) \/ SetPassword(r) \/ DeleteUser(r) PROVE Quiet
  BY <1>9 DEF ApplyReset, SetPassword, DeleteUser
<1>10. ASSUME NEW r \in Req, Arrive(r) PROVE Quiet \/ Writes(r)
  <2> HIDE DEF Quiet
  <2> QED
    BY <1>2, <1>3, <1>4, <1>5, <1>6, <1>7, <1>10 DEF Arrive, Writes
<1>11. ASSUME NEW r \in Req, Proceed(r) PROVE Quiet \/ Writes(r)
  <2> HIDE DEF Quiet
  <2> QED
    BY <1>8, <1>9, <1>11 DEF Proceed, Writes
<1> QED
  <2> HIDE DEF Quiet
  <2>1. Next => Tick \/ Quiet \/ \E r \in Req : Writes(r)
    BY <1>7, <1>10, <1>11 DEF Next
  <2> QED
    BY <1>1, <2>1 DEF Quiet

\* A row of refresh_tokens stays, a revoked one stays revoked, and a dropped
\* error is never forgotten.
TokensAdvance ==
  /\ \A t \in Token : rt[t] # "absent" => rt'[t] # "absent"
  /\ \A t \in Token : rt[t] = "revoked" => rt'[t] = "revoked"
  /\ swallowed \subseteq swallowed'

LEMMA TokensMoveForward ==
  ASSUME TypeOK, \A r \in Req : InFlight(r), [Next]_vars
  PROVE  TokensAdvance
<1> USE DEF TypeOK, vars, database, history, TokensAdvance, Revoke
<1>1. CASE UNCHANGED rt /\ UNCHANGED swallowed
  BY <1>1
<1>2. ASSUME NEW r \in Req, CreateRefreshToken(r) PROVE TokensAdvance
  BY <1>2, JobFilledIn DEF CreateRefreshToken
<1>3. ASSUME NEW r \in Req, RevokeOldToken(r) PROVE TokensAdvance
  BY <1>3 DEF RevokeOldToken
<1>4. ASSUME NEW r \in Req, NEW t \in handed, LogoutUser(r, t) PROVE TokensAdvance
  BY <1>4 DEF LogoutUser
<1>5. ASSUME NEW r \in Req, MarkPasswordResetTokenAsUsed(r) PROVE TokensAdvance
  BY <1>5 DEF MarkPasswordResetTokenAsUsed
<1>6. ASSUME NEW r \in Req, DropSessionCookie(r) PROVE TokensAdvance
  BY <1>6 DEF DropSessionCookie
<1>7. ASSUME NEW r \in Req, RevokeAllRefreshTokens(r) PROVE TokensAdvance
  BY <1>7 DEF RevokeAllRefreshTokens
<1>8. ASSUME NEW r \in Req, EndSessions(r) PROVE TokensAdvance
  BY <1>8 DEF EndSessions
<1>9. ASSUME NEW r \in Req, CreatePasswordResetToken(r) PROVE TokensAdvance
  BY <1>9 DEF CreatePasswordResetToken
<1> QED
  BY <1>1, <1>2, <1>3, <1>4, <1>5, <1>6, <1>7, <1>8, <1>9, WhoWrites DEF Writes

\* The owner of a reset key is set once and a used key stays used.
KeysAdvance ==
  \A k \in Key : reset[k].owner # None =>
    reset'[k].owner = reset[k].owner /\ (reset[k].used => reset'[k].used)

LEMMA KeysMoveForward ==
  ASSUME TypeOK, \A r \in Req : InFlight(r), [Next]_vars
  PROVE  KeysAdvance
<1> USE DEF TypeOK, vars, database, history, KeysAdvance
<1>1. CASE UNCHANGED reset
  BY <1>1
<1>2. ASSUME NEW r \in Req, CreatePasswordResetToken(r) PROVE KeysAdvance
  <2>1. job[r].key \in Key /\ reset[job[r].key].owner = None
    BY <1>2, JobFilledIn DEF CreatePasswordResetToken, InFlight, KeyFollowed
  <2> QED
    BY <1>2, <2>1 DEF CreatePasswordResetToken
<1>3. ASSUME NEW r \in Req, MarkPasswordResetTokenAsUsed(r) PROVE KeysAdvance
  <2>1. job[r].key \in Key
    BY <1>3, JobFilledIn DEF MarkPasswordResetTokenAsUsed
  <2> QED
    BY <1>3, <2>1 DEF MarkPasswordResetTokenAsUsed, ResetRow
<1>4. ASSUME NEW r \in Req, Writes(r),
             ~CreatePasswordResetToken(r), ~MarkPasswordResetTokenAsUsed(r)
      PROVE  UNCHANGED reset
  BY <1>4 DEF Writes, CreateRefreshToken, RevokeOldToken, LogoutUser, DropSessionCookie,
     RevokeAllRefreshTokens, EndSessions
<1> QED
  BY <1>1, <1>2, <1>3, <1>4, WhoWrites

(***************************************************************************)
(* The requests in flight agree with the tables.                           *)
(***************************************************************************)
\* A step of one request leaves the others where they are.
LEMMA OthersStay ==
  ASSUME TypeOK, NEW r \in Req, Arrive(r) \/ Proceed(r) \/ Crash(r),
         NEW q \in Req \ {r}
  PROVE  /\ pc'[q] = pc[q]
         /\ job'[q].user = job[q].user /\ job'[q].token = job[q].token
         /\ job'[q].issued = job[q].issued /\ job'[q].key = job[q].key
         /\ job'[q].wanted = job[q].wanted
<1> USE DEF TypeOK, Begin, Continue, Answer
<1>1. CASE RevokeAllRefreshTokens(r)
  <2>1. job[q] \in Job
    OBVIOUS
  <2> QED
    BY <1>1, <2>1 DEF RevokeAllRefreshTokens, Job
<1>2. CASE ~RevokeAllRefreshTokens(r)
  BY <1>2
  DEF Arrive, Proceed, Crash, LoginWithOAuth, LogoutWithoutToken, GetRefreshToken, LogoutUser,
      ForgotPassword, LoginUser, DeleteAccount, GetPasswordResetToken, ChangePassword,
      SignTokens, CreateRefreshToken, FindTokenOwner, RevokeOldToken,
      CreatePasswordResetToken, CheckNewPassword, ApplyReset,
      MarkPasswordResetTokenAsUsed, DropSessionCookie, SetPassword, EndSessions,
      DeleteUser
<1> QED
  BY <1>1, <1>2

\* The request that takes the step is where its job says.
LEMMA OwnJobFilled ==
  ASSUME TypeOK, NEW r \in Req, JobFilled(r), Arrive(r) \/ Proceed(r) \/ Crash(r)
  PROVE  JobFilled(r)'
<1> USE SessionsAssumption
    DEF TypeOK, JobFilled, KeySteps, Free, Resting, Begin, Continue, Answer
<1>1. CASE pc'[r] \in Resting
  BY <1>1
<1>2. ASSUME NEW t \in handed, GetRefreshToken(r, t), ~Free(r)' PROVE JobFilled(r)'
  <2>1. t \in Token /\ t.sub \in User
    BY DEF Token
  <2>2. pc'[r] = "findUser" /\ job'[r] = [JobOf(t.sub) EXCEPT !.token = t]
    BY <1>2 DEF GetRefreshToken
  <2> QED
    BY <2>1, <2>2, JobFields
<1>3. ASSUME NEW u \in User, ForgotPassword(r, u), ~Free(r)' PROVE JobFilled(r)'
  <2>1. PICK k \in Key : pc'[r] = "createReset" /\ job'[r] = [JobOf(u) EXCEPT !.key = k]
    BY <1>3 DEF ForgotPassword
  <2> QED
    BY <2>1, JobFields
<1>4. ASSUME NEW u \in User, NEW p \in Password, LoginUser(r, u, p), ~Free(r)' PROVE JobFilled(r)'
  BY <1>4, JobFields DEF LoginUser
<1>5. ASSUME NEW u \in User, NEW p \in Password, DeleteAccount(r, u, p), ~Free(r)' PROVE JobFilled(r)'
  BY <1>5, JobFields DEF DeleteAccount
<1>6. ASSUME NEW k \in Key, NEW p \in Password, GetPasswordResetToken(r, k, p), ~Free(r)' PROVE JobFilled(r)'
  <2>1. /\ pc'[r] = "checkNew"
        /\ job'[r] = [JobOf(reset[k].owner) EXCEPT !.key = k, !.wanted = p]
    BY <1>6 DEF GetPasswordResetToken
  <2>2. reset[k].owner \in User
    BY <1>6 DEF GetPasswordResetToken, OpenKey, ResetRow
  <2> QED
    BY <2>1, <2>2, JobFields
<1>7. ASSUME NEW u \in User, NEW p \in Password, NEW q \in Password, ChangePassword(r, u, p, q), ~Free(r)' PROVE JobFilled(r)'
  <2>1. pc'[r] = "setPassword" /\ job'[r] = [JobOf(u) EXCEPT !.wanted = q]
    BY <1>7 DEF ChangePassword
  <2> QED
    BY <2>1, JobFields
<1>8. CASE SignTokens(r) /\ pc'[r] \notin Resting
  BY <1>8 DEF SignTokens, Token
<1>9. CASE FindTokenOwner(r) /\ pc'[r] \notin Resting
  BY <1>9 DEF FindTokenOwner
<1>10. CASE RevokeOldToken(r) /\ pc'[r] \notin Resting
  BY <1>10 DEF RevokeOldToken
<1>11. CASE CheckNewPassword(r) /\ pc'[r] \notin Resting
  BY <1>11 DEF CheckNewPassword
<1>12. CASE ApplyReset(r) /\ pc'[r] \notin Resting
  BY <1>12 DEF ApplyReset
<1>13. CASE MarkPasswordResetTokenAsUsed(r) /\ pc'[r] \notin Resting
  BY <1>13 DEF MarkPasswordResetTokenAsUsed
<1>14. CASE SetPassword(r) /\ pc'[r] \notin Resting
  BY <1>14 DEF SetPassword
<1>15. CASE RevokeAllRefreshTokens(r) /\ pc'[r] \notin Resting
  BY <1>15 DEF RevokeAllRefreshTokens
<1>16. CASE EndSessions(r) /\ pc'[r] \notin Resting
  BY <1>16 DEF EndSessions
<1>17. ASSUME NEW u \in User, LoginWithOAuth(r, u), ~Free(r)' PROVE JobFilled(r)'
  BY <1>17, JobFields DEF LoginWithOAuth
<1> QED
  BY <1>1, <1>2, <1>3, <1>4, <1>5, <1>6, <1>7, <1>8, <1>9, <1>10, <1>11, <1>12, <1>13,
     <1>14, <1>15, <1>16, <1>17
  DEF Arrive, Proceed, Crash, LoginWithOAuth, LogoutWithoutToken, LogoutUser,
      CreateRefreshToken, CreatePasswordResetToken, DropSessionCookie, DeleteUser

LEMMA OwnTokenFollowed ==
  ASSUME TypeOK, NEW r \in Req, InFlight(r), Arrive(r) \/ Proceed(r) \/ Crash(r)
  PROVE  TokenFollowed(r)'
<1> USE DEF TypeOK, InFlight, JobFilled, TokenFollowed, Resting, Free, Begin, Continue,
            Answer
<1>1. CASE pc'[r] \notin {"findUser", "revokeOld", "sign", "store"}
  BY <1>1
<1>2. ASSUME NEW t \in handed, GetRefreshToken(r, t), ~Free(r)' PROVE TokenFollowed(r)'
  <2>1. t \in Token /\ t.sub \in User
    BY DEF Token
  <2>2. pc'[r] = "findUser" /\ job'[r] = [JobOf(t.sub) EXCEPT !.token = t]
    BY <1>2 DEF GetRefreshToken
  <2>3. rt' = rt /\ rt[t] = "active"
    BY <1>2 DEF GetRefreshToken, Live, database
  <2> QED
    BY <2>1, <2>2, <2>3, JobFields
<1>3. ASSUME NEW u \in User, NEW p \in Password, ~Free(r)',
             LoginUser(r, u, p) \/ LoginWithOAuth(r, u)
      PROVE  TokenFollowed(r)'
  <2>1. pc'[r] = "sign" /\ job'[r] = JobOf(u)
    BY <1>3 DEF LoginUser, LoginWithOAuth
  <2> QED
    BY <2>1, JobFields, SessionsAssumption
<1>4. CASE SignTokens(r)
  <2>1. job[r] \in Job
    OBVIOUS
  <2> QED
    BY <1>4, <2>1 DEF SignTokens, Job, database, history
<1>5. CASE FindTokenOwner(r) /\ pc'[r] = "revokeOld"
  BY <1>5 DEF FindTokenOwner, database, history
<1>6. CASE RevokeOldToken(r)
  BY <1>6 DEF RevokeOldToken, Revoke
<1> HIDE DEF InFlight, JobFilled, TokenFollowed
<1> QED
  BY <1>1, <1>2, <1>3, <1>4, <1>5, <1>6
  DEF Arrive, Proceed, Crash, LogoutWithoutToken, LogoutUser, ForgotPassword,
      DeleteAccount, GetPasswordResetToken, ChangePassword, CreateRefreshToken,
      CreatePasswordResetToken, CheckNewPassword, ApplyReset,
      MarkPasswordResetTokenAsUsed, DropSessionCookie, SetPassword,
      RevokeAllRefreshTokens, EndSessions, DeleteUser, FindTokenOwner

LEMMA OwnKeyFollowed ==
  ASSUME TypeOK, NEW r \in Req, InFlight(r), Arrive(r) \/ Proceed(r) \/ Crash(r)
  PROVE  KeyFollowed(r)'
<1> USE DEF TypeOK, InFlight, JobFilled, KeyFollowed, KeySteps, Resting, Free, Begin,
            Continue, Answer
<1>1. CASE pc'[r] \notin KeySteps \cup {"createReset"}
  BY <1>1
<1>2. ASSUME NEW u \in User, ForgotPassword(r, u), ~Free(r)' PROVE KeyFollowed(r)'
  <2>1. PICK k \in Key : /\ reset[k].owner = None
                         /\ \A q \in Req : job[q].key # k
                         /\ Begin(r, "createReset", [JobOf(u) EXCEPT !.key = k])
                         /\ reset' = reset
    BY <1>2, SessionsAssumption DEF ForgotPassword, database
  <2>2. pc'[r] = "createReset" /\ job'[r] = [JobOf(u) EXCEPT !.key = k]
    BY <2>1
  <2>3. job'[r].key = k
    BY <2>2, JobFields
  <2>4. \A q \in Req \ {r} : job'[q].key # k
    BY <2>1, OthersStay
  <2> QED
    BY <2>1, <2>2, <2>3, <2>4
<1>3. ASSUME NEW k \in Key, NEW p \in Password, GetPasswordResetToken(r, k, p), ~Free(r)'
      PROVE  KeyFollowed(r)'
  <2>1. /\ pc'[r] = "checkNew"
        /\ job'[r] = [JobOf(reset[k].owner) EXCEPT !.key = k, !.wanted = p]
        /\ reset' = reset
    BY <1>3 DEF GetPasswordResetToken, database
  <2>2. reset[k].owner \in User
    BY <1>3 DEF GetPasswordResetToken, OpenKey, ResetRow
  <2> QED
    BY <2>1, <2>2, JobFields
<1>4. CASE CheckNewPassword(r) /\ pc'[r] = "applyReset"
  BY <1>4 DEF CheckNewPassword, database, history
<1>5. CASE ApplyReset(r)
  BY <1>5 DEF ApplyReset, history
<1>6. CASE MarkPasswordResetTokenAsUsed(r)
  <2>1. reset[job[r].key] \in ResetRow
    BY <1>6 DEF MarkPasswordResetTokenAsUsed
  <2> QED
    BY <1>6, <2>1 DEF MarkPasswordResetTokenAsUsed, ResetRow
<1>7. CASE Arrive(r) \/ Crash(r)
  <2>1. ASSUME LogoutWithoutToken(r) \/ Crash(r) PROVE pc'[r] \in {"ok", "failed"}
    BY <2>1 DEF LoginWithOAuth, LogoutWithoutToken, Crash
  <2>2. ASSUME NEW t \in handed, GetRefreshToken(r, t) \/ LogoutUser(r, t)
        PROVE  pc'[r] \in {"ok", "failed", "findUser"}
    BY <2>2 DEF GetRefreshToken, LogoutUser
  <2>3. ASSUME NEW u \in User, NEW p \in Password,
               LoginUser(r, u, p) \/ DeleteAccount(r, u, p)
        PROVE  pc'[r] \in {"failed", "sign", "endSessions"}
    BY <2>3 DEF LoginUser, DeleteAccount
  <2>7. ASSUME NEW u \in User, LoginWithOAuth(r, u) PROVE pc'[r] \in {"failed", "sign"}
    BY <2>7 DEF LoginWithOAuth
  <2>4. ASSUME NEW u \in User, NEW p \in Password, NEW q \in Password, ChangePassword(r, u, p, q)
        PROVE  pc'[r] \in {"failed", "setPassword"}
    BY <2>4 DEF ChangePassword
  <2>5. Free(r)' => pc'[r] \notin KeySteps \cup {"createReset"}
    OBVIOUS
  <2>6. {"ok", "failed", "findUser", "sign", "endSessions", "setPassword"}
          \cap (KeySteps \cup {"createReset"}) = {}
    OBVIOUS
  <2> HIDE DEF KeyFollowed, KeySteps, Free, InFlight, TypeOK
  <2> QED
    BY <1>1, <1>2, <1>3, <1>7, <2>1, <2>2, <2>3, <2>4, <2>5, <2>6, <2>7 DEF Arrive
<1>8. CASE Proceed(r)
  BY <1>1, <1>4, <1>5, <1>6, <1>8 DEF Proceed, SignTokens, CreateRefreshToken, FindTokenOwner,
     RevokeOldToken, CreatePasswordResetToken, CheckNewPassword, DropSessionCookie,
     SetPassword, RevokeAllRefreshTokens, EndSessions, DeleteUser
<1> QED
  BY <1>7, <1>8

\* What the step of one request does to a table, the others can bear.
LEMMA OthersInFlight ==
  ASSUME TypeOK, \A r \in Req : InFlight(r),
         NEW r \in Req, Arrive(r) \/ Proceed(r) \/ Crash(r), NEW q \in Req \ {r}
  PROVE  InFlight(q)'
<1>1. TokensAdvance /\ KeysAdvance
  BY TokensMoveForward, KeysMoveForward DEF Next
<1>2. /\ pc'[q] = pc[q]
      /\ job'[q].user = job[q].user /\ job'[q].token = job[q].token
      /\ job'[q].issued = job[q].issued /\ job'[q].key = job[q].key
      /\ job'[q].wanted = job[q].wanted
  BY OthersStay
<1>3. JobFilled(q) /\ TokenFollowed(q) /\ KeyFollowed(q)
  BY DEF InFlight
<1>4. JobFilled(q)'
  BY <1>2, <1>3 DEF JobFilled, Free
<1>5. TokenFollowed(q)'
  BY <1>1, <1>2, <1>3 DEF TokenFollowed, TokensAdvance, JobFilled
<1>6. KeyFollowed(q)'
  <2>1. CASE pc[q] # "createReset"
    BY <1>1, <1>2, <1>3, <2>1, SessionsAssumption
    DEF KeyFollowed, KeysAdvance, JobFilled, KeySteps, TokensAdvance
  <2>2. CASE pc[q] = "createReset"
    <3>1. /\ job[q].key \in Key /\ reset[job[q].key].owner = None
          /\ \A s \in Req \ {q} : pc[s] = "createReset" => job[s].key # job[q].key
      BY <1>3, <2>2 DEF JobFilled, KeyFollowed
    <3>2. reset'[job[q].key].owner = None
      <4>1. CASE CreatePasswordResetToken(r)
        BY <3>1, <4>1 DEF CreatePasswordResetToken, TypeOK
      <4>2. CASE MarkPasswordResetTokenAsUsed(r)
        BY <3>1, <4>2 DEF MarkPasswordResetTokenAsUsed, TypeOK, ResetRow
      <4>3. CASE UNCHANGED reset
        BY <3>1, <4>3
      <4> QED
        BY <4>1, <4>2, <4>3
        DEF Arrive, Proceed, Crash, database, LoginWithOAuth, LogoutWithoutToken, GetRefreshToken,
            LogoutUser, ForgotPassword, LoginUser, DeleteAccount, GetPasswordResetToken,
            ChangePassword, SignTokens, CreateRefreshToken, FindTokenOwner,
            RevokeOldToken, CheckNewPassword, ApplyReset, DropSessionCookie, SetPassword,
            RevokeAllRefreshTokens, EndSessions, DeleteUser
    <3>3. pc'[r] = "createReset" => job'[r].key # job[q].key
      <4>1. ASSUME NEW u \in User, ForgotPassword(r, u), pc'[r] = "createReset"
            PROVE  job'[r].key # job[q].key
        <5>1. PICK k \in Key : /\ \A s \in Req : job[s].key # k
                               /\ Begin(r, "createReset", [JobOf(u) EXCEPT !.key = k])
          BY <4>1 DEF ForgotPassword, Answer, Begin, TypeOK
        <5>2. job'[r] = [JobOf(u) EXCEPT !.key = k]
          BY <5>1 DEF Begin, TypeOK
        <5> QED
          BY <5>1, <5>2, JobFields
      <4> QED
        BY <4>1
        DEF Arrive, Proceed, Crash, TypeOK, Begin, Continue, Answer, LoginWithOAuth, LogoutWithoutToken,
            GetRefreshToken, LogoutUser, LoginUser, DeleteAccount,
            GetPasswordResetToken, ChangePassword, SignTokens, CreateRefreshToken,
            FindTokenOwner, RevokeOldToken, CreatePasswordResetToken, CheckNewPassword,
            ApplyReset, MarkPasswordResetTokenAsUsed, DropSessionCookie, SetPassword,
            RevokeAllRefreshTokens, EndSessions, DeleteUser
    <3>4. \A s \in Req \ {q} : pc'[s] = "createReset" => job'[s].key # job[q].key
      BY <3>1, <3>3, OthersStay
    <3> QED
      BY <1>2, <2>2, <3>2, <3>4 DEF KeyFollowed, KeySteps
  <2> QED
    BY <2>1, <2>2
<1> QED
  BY <1>4, <1>5, <1>6 DEF InFlight

(***************************************************************************)
(* The inductive invariant. RetiredIsRevoked alone is not inductive: that  *)
(* the token a refresh gives up is revoked when the refresh is answered    *)
(* rests on what the request found and did several calls earlier.          *)
(***************************************************************************)
IInv == TypeOK /\ TablesMatchRequests /\ RetiredIsRevoked /\ SpentIsUsed

LEMMA InFlightStep ==
  ASSUME TypeOK, \A r \in Req : InFlight(r), [Next]_vars
  PROVE  (\A r \in Req : InFlight(r))'
<1>1. CASE UNCHANGED vars
  BY <1>1
  DEF vars, database, history, InFlight, JobFilled, TokenFollowed, KeyFollowed, Free
<1>2. CASE Tick
  BY <1>2
  DEF Tick, vars, database, history, InFlight, JobFilled, TokenFollowed, KeyFollowed, Free
<1>3. ASSUME NEW r \in Req, Arrive(r) \/ Proceed(r) \/ Crash(r)
      PROVE  (\A q \in Req : InFlight(q))'
  <2>1. InFlight(r)'
    BY <1>3, OwnJobFilled, OwnTokenFollowed, OwnKeyFollowed DEF InFlight
  <2>2. \A q \in Req \ {r} : InFlight(q)'
    BY <1>3, OthersInFlight
  <2> QED
    BY <2>1, <2>2
<1> QED
  BY <1>1, <1>2, <1>3 DEF Next

\* A delivered token has its row, unless its insert failed.
LEMMA HandedStep ==
  ASSUME TypeOK, TablesMatchRequests, [Next]_vars
  PROVE  (\A t \in handed \ swallowed : rt[t] # "absent")'
<1>1. TokensAdvance
  BY TokensMoveForward DEF TablesMatchRequests
<1>2. CASE handed' = handed
  BY <1>1, <1>2 DEF TokensAdvance, TablesMatchRequests, TypeOK
<1>3. ASSUME NEW r \in Req, CreateRefreshToken(r)
      PROVE  (\A t \in handed \ swallowed : rt[t] # "absent")'
  <2>1. job[r].issued \in Token
    BY <1>3, JobFilledIn DEF CreateRefreshToken, TablesMatchRequests
  <2>2. job[r].issued \notin swallowed' => rt'[job[r].issued] # "absent"
    BY <1>3, <2>1 DEF CreateRefreshToken, TypeOK
  <2>3. handed' = handed \cup {job[r].issued}
    BY <1>3 DEF CreateRefreshToken
  <2> QED
    BY <1>1, <2>2, <2>3 DEF TokensAdvance, TablesMatchRequests, TypeOK
<1>4. ASSUME NEW r \in Req, Writes(r), ~CreateRefreshToken(r) PROVE handed' = handed
  BY <1>4 DEF Writes, history, RevokeOldToken, LogoutUser, CreatePasswordResetToken,
     MarkPasswordResetTokenAsUsed, DropSessionCookie, RevokeAllRefreshTokens, EndSessions
<1> QED
  BY <1>2, <1>3, <1>4, WhoWrites

\* A token that was retired stays revoked, and one that is retired now is.
LEMMA RetiredStep ==
  ASSUME TypeOK, TablesMatchRequests, RetiredIsRevoked, [Next]_vars
  PROVE  RetiredIsRevoked'
<1> USE DEF TypeOK, RetiredIsRevoked, Revoke
<1>1. TokensAdvance
  BY TokensMoveForward DEF TablesMatchRequests
<1>2. SUFFICES ASSUME NEW t \in retired' \ swallowed', t \notin retired
               PROVE  rt'[t] = "revoked"
  BY <1>1 DEF TokensAdvance
<1>3. \A h \in handed \ swallowed : rt[h] \in {"active", "revoked"}
  BY DEF TablesMatchRequests
<1>4. t \notin swallowed
  BY <1>1 DEF TokensAdvance
<1>5. ASSUME NEW r \in Req, CreateRefreshToken(r) PROVE rt'[t] = "revoked"
  <2>1. t = job[r].token /\ t \in Token
    BY <1>5, <1>2 DEF CreateRefreshToken
  <2>2. rt[t] = "revoked"
    BY <1>4, <1>5, <2>1 DEF CreateRefreshToken, TablesMatchRequests, InFlight, TokenFollowed
  <2> QED
    BY <1>1, <2>1, <2>2 DEF TokensAdvance
<1>6. ASSUME NEW r \in Req, NEW h \in handed, LogoutUser(r, h) PROVE rt'[t] = "revoked"
  BY <1>2, <1>3, <1>4, <1>6 DEF LogoutUser
<1>7. ASSUME NEW r \in Req, DropSessionCookie(r) PROVE rt'[t] = "revoked"
  BY <1>2, <1>3, <1>4, <1>7 DEF DropSessionCookie
<1>8. ASSUME NEW r \in Req, RevokeAllRefreshTokens(r) PROVE rt'[t] = "revoked"
  BY <1>2, <1>8 DEF RevokeAllRefreshTokens, TokensOf
<1>9. ASSUME NEW r \in Req, EndSessions(r) PROVE rt'[t] = "revoked"
  BY <1>2, <1>9 DEF EndSessions, TokensOf
<1>10. ASSUME NEW r \in Req,
              RevokeOldToken(r) \/ CreatePasswordResetToken(r) \/ MarkPasswordResetTokenAsUsed(r)
       PROVE  retired' = retired
  BY <1>10 DEF history, RevokeOldToken, CreatePasswordResetToken, MarkPasswordResetTokenAsUsed
<1> QED
  BY <1>2, <1>5, <1>6, <1>7, <1>8, <1>9, <1>10, WhoWrites DEF Writes

\* The same for the keys, which only the reply of a reset spends.
LEMMA SpentStep ==
  ASSUME TypeOK, TablesMatchRequests, SpentIsUsed, [Next]_vars
  PROVE  SpentIsUsed' /\ (\A k \in spent : reset[k].owner \in User)'
<1> USE DEF TypeOK, SpentIsUsed
<1>1. TokensAdvance /\ KeysAdvance
  BY TokensMoveForward, KeysMoveForward DEF TablesMatchRequests
<1>2. \A k \in spent : reset'[k].owner \in User
  BY <1>1, SessionsAssumption DEF KeysAdvance, TablesMatchRequests
<1>3. \A k \in spent : k \notin swallowed' => reset'[k].used
  BY <1>1, SessionsAssumption DEF KeysAdvance, TokensAdvance, TablesMatchRequests
<1>4. CASE spent' = spent
  BY <1>2, <1>3, <1>4
<1>5. ASSUME NEW r \in Req, DropSessionCookie(r)
      PROVE  SpentIsUsed' /\ (\A k \in spent : reset[k].owner \in User)'
  <2>1. pc[r] = "dropCookie" /\ reset' = reset /\ spent' = spent \cup {job[r].key}
    BY <1>5 DEF DropSessionCookie
  <2>2. /\ reset[job[r].key].owner \in User
        /\ job[r].key \notin swallowed => reset[job[r].key].used
    BY <2>1 DEF TablesMatchRequests, InFlight, KeyFollowed, KeySteps
  <2>3. swallowed \subseteq swallowed'
    BY <1>1 DEF TokensAdvance
  <2> QED
    BY <1>2, <1>3, <2>1, <2>2, <2>3
<1>6. ASSUME NEW r \in Req, Writes(r), ~DropSessionCookie(r) PROVE spent' = spent
  BY <1>6 DEF Writes, history, CreateRefreshToken, RevokeOldToken, LogoutUser,
     CreatePasswordResetToken, MarkPasswordResetTokenAsUsed, RevokeAllRefreshTokens, EndSessions
<1> QED
  BY <1>4, <1>5, <1>6, WhoWrites

LEMMA IInvInit == Init => IInv
<1> SUFFICES ASSUME Init PROVE IInv
  OBVIOUS
<1>1. TypeOK
  BY TypingInit
<1>2. \A r \in Req : InFlight(r)
  BY DEF Init, InFlight, JobFilled, TokenFollowed, KeyFollowed, Free, Resting, KeySteps
<1> QED
  BY <1>1, <1>2 DEF IInv, Init, TablesMatchRequests, RetiredIsRevoked, SpentIsUsed

LEMMA IInvStep == IInv /\ [Next]_vars => IInv'
<1> SUFFICES ASSUME IInv, [Next]_vars PROVE IInv'
  OBVIOUS
<1>1. TypeOK /\ TablesMatchRequests /\ RetiredIsRevoked /\ SpentIsUsed
  BY DEF IInv
<1>2. \A r \in Req : InFlight(r)
  BY <1>1 DEF TablesMatchRequests
<1>3. TypeOK'
  BY <1>1, <1>2, TypingStep
<1>4. TablesMatchRequests'
  BY <1>1, <1>2, InFlightStep, HandedStep, SpentStep DEF TablesMatchRequests
<1>5. RetiredIsRevoked' /\ SpentIsUsed'
  BY <1>1, RetiredStep, SpentStep
<1> QED
  BY <1>3, <1>4, <1>5 DEF IInv

\* The inductive invariant holds in every reachable state.
THEOREM Invariance == Spec => []IInv
BY IInvInit, IInvStep, PTL DEF Spec

\* Every variable keeps its type.
THEOREM Typing == Spec => []TypeOK
<1>1. IInv => TypeOK
  BY DEF IInv
<1> QED
  BY <1>1, Invariance, PTL

\* A refresh token whose client was told that it no longer serves is revoked
\* for good, whatever runs, crashes or signs the same text again meanwhile.
THEOREM RetirementIsFinal == Spec => []RetiredIsRevoked
<1>1. IInv => RetiredIsRevoked
  BY DEF IInv
<1> QED
  BY <1>1, Invariance, PTL

\* A reset key whose holder was told that the password was reset is used up.
THEOREM ResetKeysAreSpent == Spec => []SpentIsUsed
<1>1. IInv => SpentIsUsed
  BY DEF IInv
<1> QED
  BY <1>1, Invariance, PTL

\* Every request in flight agrees with the rows it relies on.
THEOREM RequestsAgreeWithTables == Spec => []TablesMatchRequests
<1>1. IInv => TablesMatchRequests
  BY DEF IInv
<1> QED
  BY <1>1, Invariance, PTL

(***************************************************************************)
(* A deleted account stays closed.                                         *)
(***************************************************************************)
LEMMA DepartureStep ==
  ASSUME TypeOK, NEW r \in Req, Arrive(r) \/ Proceed(r) \/ Crash(r),
         job'[r].user \in deleted, pc'[r] \in Granted
  PROVE  pc[r] \in Granted
<1> USE DEF TypeOK, Granted, Begin, Continue, Answer
<1>1. ASSUME NEW u \in User, NEW p \in Password, LoginUser(r, u, p) PROVE FALSE
  <2>1. u \notin deleted /\ job'[r] = JobOf(u)
    BY <1>1 DEF LoginUser
  <2> QED
    BY <2>1, JobFields
<1>2. ASSUME NEW u \in User, NEW p \in Password, DeleteAccount(r, u, p) PROVE FALSE
  <2>1. u \notin deleted /\ job'[r] = JobOf(u)
    BY <1>2 DEF DeleteAccount
  <2> QED
    BY <2>1, JobFields
<1>3. ASSUME NEW u \in User, ForgotPassword(r, u) PROVE FALSE
  <2>1. u \notin deleted /\ \E k \in Key : job'[r] = [JobOf(u) EXCEPT !.key = k]
    BY <1>3 DEF ForgotPassword
  <2> QED
    BY <2>1, JobFields
<1>4. ASSUME NEW u \in User, NEW p \in Password, NEW q \in Password,
             ChangePassword(r, u, p, q)
      PROVE  FALSE
  <2>1. u \notin deleted /\ job'[r] = [JobOf(u) EXCEPT !.wanted = q]
    BY <1>4 DEF ChangePassword
  <2> QED
    BY <2>1, JobFields
<1>5. CASE FindTokenOwner(r) \/ CheckNewPassword(r)
  BY <1>5 DEF FindTokenOwner, CheckNewPassword
<1>6. ASSUME NEW u \in User, LoginWithOAuth(r, u) PROVE FALSE
  <2>1. u \notin deleted /\ job'[r] = JobOf(u)
    BY <1>6 DEF LoginWithOAuth
  <2> QED
    BY <2>1, JobFields
<1> QED
  BY <1>1, <1>2, <1>3, <1>4, <1>5, <1>6
  DEF Arrive, Proceed, Crash, LoginWithOAuth, LogoutWithoutToken, GetRefreshToken, LogoutUser,
      GetPasswordResetToken, SignTokens, CreateRefreshToken, RevokeOldToken,
      CreatePasswordResetToken, ApplyReset, MarkPasswordResetTokenAsUsed,
      DropSessionCookie, SetPassword, RevokeAllRefreshTokens, EndSessions, DeleteUser

\* No request about a deleted account gets past its account check.
THEOREM DeletionIsFinal == Spec => DepartureIsFinal
<1>1. ASSUME TypeOK, [Next]_vars, NEW q \in Req,
             job'[q].user \in deleted, pc'[q] \in Granted
      PROVE  pc[q] \in Granted
  <2>1. CASE UNCHANGED pc
    BY <1>1, <2>1
  <2>2. ASSUME NEW r \in Req, Arrive(r) \/ Proceed(r) \/ Crash(r) PROVE pc[q] \in Granted
    BY <1>1, <2>2, DepartureStep, OthersStay
  <2> QED
    BY <1>1, <2>1, <2>2 DEF Next, Tick, vars
<1>2. TypeOK /\ [Next]_vars =>
        [\A r \in Req : job'[r].user \in deleted /\ pc'[r] \in Granted
                          => pc[r] \in Granted]_vars
  BY <1>1
<1> QED
  BY <1>2, Typing, PTL DEF Spec, DepartureIsFinal

(***************************************************************************)
(* Sessions implements AccountLedger.                                      *)
(***************************************************************************)
LEMMA LedgerInit == Init => Ledger!Init
BY SessionsAssumption DEF Init, Ledger!Init, KeyLife

\* A step that writes nothing in the tables stutters in the ledger.
LEMMA LedgerStutter ==
  ASSUME UNCHANGED database
  PROVE  UNCHANGED Ledger!vars
BY DEF database, Ledger!vars, KeyLife

\* One bulk revocation closes the tokens that were active.
LEMMA LedgerClose ==
  ASSUME TypeOK, NEW T \in SUBSET Token, Revoke(T),
         UNCHANGED <<password, deleted, reset>>
  PROVE  Ledger!Next
<1> DEFINE A == {t \in T : rt[t] = "active"}
<1>1. Ledger!Close(A)
  BY DEF Ledger!Close, Revoke, TypeOK, KeyLife
<1>2. A \in SUBSET Token
  OBVIOUS
<1> QED
  BY <1>1, <1>2 DEF Ledger!Next

\* Each step of the service is one step of the ledger or none.
LEMMA LedgerStep ==
  ASSUME TypeOK, \A r \in Req : InFlight(r), [Next]_vars
  PROVE  [Ledger!Next]_Ledger!vars
<1> USE DEF database
<1>1. CASE UNCHANGED database
  BY <1>1, LedgerStutter
<1>2. ASSUME NEW r \in Req, CreateRefreshToken(r), ~UNCHANGED database
      PROVE  Ledger!Next
  <2>1. job[r].issued \in Token
    BY <1>2, JobFilledIn DEF CreateRefreshToken
  <2>2. Ledger!Open(job[r].issued)
    BY <1>2, <2>1 DEF CreateRefreshToken, TypeOK, Ledger!Open, KeyLife
  <2> QED
    BY <2>1, <2>2 DEF Ledger!Next
<1>3. ASSUME NEW r \in Req, RevokeOldToken(r), ~UNCHANGED database
      PROVE  Ledger!Next
  <2>1. {job[r].token} \in SUBSET Token
    BY <1>3, JobFilledIn DEF RevokeOldToken
  <2> QED
    BY <1>3, <2>1, LedgerClose DEF RevokeOldToken
<1>4. ASSUME NEW r \in Req, NEW t \in handed, LogoutUser(r, t), ~UNCHANGED database
      PROVE  Ledger!Next
  <2>1. {t} \in SUBSET Token
    BY DEF TypeOK
  <2> QED
    BY <1>4, <2>1, LedgerClose DEF LogoutUser
<1>5. ASSUME NEW r \in Req, DropSessionCookie(r), ~UNCHANGED database
      PROVE  Ledger!Next
  <2>1. PICK t \in handed : Revoke({t})
    BY <1>5 DEF DropSessionCookie
  <2>2. {t} \in SUBSET Token
    BY DEF TypeOK
  <2> QED
    BY <1>5, <2>1, <2>2, LedgerClose DEF DropSessionCookie
<1>6. ASSUME NEW r \in Req, RevokeAllRefreshTokens(r) \/ EndSessions(r),
             ~UNCHANGED database
      PROVE  Ledger!Next
  <2>1. TokensOf(job[r].user) \in SUBSET Token
    BY DEF TokensOf
  <2> QED
    BY <1>6, <2>1, LedgerClose DEF RevokeAllRefreshTokens, EndSessions
<1>7. ASSUME NEW r \in Req, CreatePasswordResetToken(r), ~UNCHANGED database
      PROVE  Ledger!Next
  <2>1. /\ job[r].key \in Key /\ job[r].user \in User
        /\ reset[job[r].key].owner = None
    BY <1>7, JobFilledIn DEF CreatePasswordResetToken, InFlight, KeyFollowed, Resting
  <2>2. PICK k \in Key, u \in User : k = job[r].key /\ u = job[r].user
    BY <2>1
  <2>3. reset' = [reset EXCEPT ![k] =
                    [owner |-> u, until |-> now + ResetTTL, used |-> FALSE]]
    BY <1>7, <2>2 DEF CreatePasswordResetToken, history
  <2>4. KeyLife(k) = "absent" /\ KeyLife(k)' = "open"
    BY <2>1, <2>2, <2>3, SessionsAssumption DEF KeyLife, TypeOK
  <2>5. \A q \in Key \ {k} : KeyLife(q)' = KeyLife(q)
    BY <2>3 DEF KeyLife, TypeOK
  <2>6. Ledger!Issue(k)
    BY <1>7, <2>4, <2>5 DEF CreatePasswordResetToken, Ledger!Issue
  <2> QED
    BY <2>6 DEF Ledger!Next
<1>8. ASSUME NEW r \in Req, MarkPasswordResetTokenAsUsed(r), ~UNCHANGED database
      PROVE  [Ledger!Next]_Ledger!vars
  <2>1. job[r].key \in Key /\ reset[job[r].key].owner \in User
    BY <1>8, JobFilledIn DEF MarkPasswordResetTokenAsUsed, InFlight, KeyFollowed, KeySteps
  <2>2. PICK k \in Key : k = job[r].key
    BY <2>1
  <2>3. reset' = [reset EXCEPT ![k].used = TRUE]
    BY <1>8, <2>2 DEF MarkPasswordResetTokenAsUsed
  <2>4. reset[k].owner # None /\ reset'[k].owner # None /\ reset'[k].used
    BY <2>1, <2>2, <2>3, SessionsAssumption DEF TypeOK, ResetRow
  <2>5. KeyLife(k) \in {"open", "used"} /\ KeyLife(k)' = "used"
    BY <2>4 DEF KeyLife
  <2>6. \A q \in Key \ {k} : KeyLife(q)' = KeyLife(q)
    BY <2>3 DEF KeyLife, TypeOK
  <2>7. CASE KeyLife(k) = "open"
    <3>1. Ledger!Spend(k)
      BY <1>8, <2>5, <2>6, <2>7 DEF MarkPasswordResetTokenAsUsed, Ledger!Spend
    <3> QED
      BY <3>1 DEF Ledger!Next
  <2>8. CASE KeyLife(k) = "used"
    BY <1>8, <2>5, <2>6, <2>8 DEF MarkPasswordResetTokenAsUsed, Ledger!vars
  <2> QED
    BY <2>5, <2>7, <2>8
<1>9. ASSUME NEW r \in Req, ApplyReset(r) \/ SetPassword(r), ~UNCHANGED database
      PROVE  Ledger!Next
  <2>1. job[r].user \in User /\ job[r].wanted \in Password
    BY <1>9, JobFilledIn DEF ApplyReset, SetPassword, Resting
  <2>2. job[r].user \notin deleted
        /\ password' = [password EXCEPT ![job[r].user] = job[r].wanted]
    BY <1>9 DEF ApplyReset, SetPassword
  <2>3. Ledger!SetPassword(job[r].user, job[r].wanted)
    BY <1>9, <2>1, <2>2 DEF ApplyReset, SetPassword, Ledger!SetPassword, KeyLife
  <2> QED
    BY <2>1, <2>3 DEF Ledger!Next
<1>10. ASSUME NEW r \in Req, DeleteUser(r), ~UNCHANGED database
       PROVE  Ledger!Next
  <2>1. job[r].user \in User \ deleted /\ deleted' = deleted \cup {job[r].user}
    BY <1>10, JobFilledIn DEF DeleteUser, Resting
  <2>2. Ledger!Remove(job[r].user)
    BY <1>10, <2>1 DEF DeleteUser, Ledger!Remove, KeyLife
  <2> QED
    BY <2>1, <2>2 DEF Ledger!Next
<1>11. ASSUME NEW r \in Req, Arrive(r), \A t \in handed : ~LogoutUser(r, t)
       PROVE  UNCHANGED database
  BY <1>11, Zenon
  DEF Arrive, LoginWithOAuth, LogoutWithoutToken, GetRefreshToken, ForgotPassword, LoginUser,
      DeleteAccount, GetPasswordResetToken, ChangePassword
<1> QED
  BY <1>1, <1>2, <1>3, <1>4, <1>5, <1>6, <1>7, <1>8, <1>9, <1>10, <1>11
  DEF Next, vars, Proceed, Tick, Crash, SignTokens, FindTokenOwner, CheckNewPassword

\* The handlers, cut at every repository call, implement the abstract ledger:
\* tokens and keys only move forward and each step writes one table.
THEOREM SessionsImplementLedger == Spec => LedgerSpec
<1>1. IInv /\ [Next]_vars => [Ledger!Next]_Ledger!vars
  BY LedgerStep DEF IInv, TablesMatchRequests
<1> QED
  BY <1>1, LedgerInit, Invariance, PTL DEF Spec, LedgerSpec, Ledger!Spec

(***************************************************************************)
(* How far a handler can go.                                               *)
(***************************************************************************)
\* The repository calls a handler at this stage may still make.
CallsLeft(stage) ==
  CASE stage \in {"findUser", "checkNew"} -> 4
    [] stage \in {"revokeOld", "applyReset"} -> 3
    [] stage \in {"sign", "markUsed", "setPassword", "endSessions"} -> 2
    [] stage \in {"store", "createReset", "dropCookie", "revokeAll", "removeUser"} -> 1
    [] OTHER -> 0

LEMMA OwnCallsRunOut ==
  ASSUME TypeOK, NEW r \in Req, Proceed(r) \/ Crash(r)
  PROVE  CallsLeft(pc'[r]) < CallsLeft(pc[r])
<1> USE DEF TypeOK, Begin, Continue, Answer, CallsLeft
<1>1. CASE Crash(r)
  <2>1. pc[r] \in Stage \ Resting /\ pc'[r] = "failed"
    BY <1>1 DEF Crash, Free
  <2> QED
    BY <2>1 DEF Stage, Resting, Granted
<1>2. CASE SignTokens(r) \/ CreateRefreshToken(r) \/ CreatePasswordResetToken(r) \/ DropSessionCookie(r) \/ DeleteUser(r)
  BY <1>2 DEF SignTokens, CreateRefreshToken, CreatePasswordResetToken, DropSessionCookie,
              DeleteUser
<1>3. CASE FindTokenOwner(r) \/ CheckNewPassword(r)
  BY <1>3 DEF FindTokenOwner, CheckNewPassword
<1>4. CASE RevokeOldToken(r) \/ ApplyReset(r) \/ MarkPasswordResetTokenAsUsed(r)
  BY <1>4 DEF RevokeOldToken, ApplyReset, MarkPasswordResetTokenAsUsed
<1>5. CASE SetPassword(r) \/ EndSessions(r)
  BY <1>5 DEF SetPassword, EndSessions
<1>6. CASE RevokeAllRefreshTokens(r)
  BY <1>6 DEF RevokeAllRefreshTokens
<1> QED
  BY <1>1, <1>2, <1>3, <1>4, <1>5, <1>6 DEF Proceed

\* No handler of this module loops or waits for another: each step it takes
\* leaves it fewer calls, at most four from its arrival to its answer, and no
\* step of another request sends it back.
THEOREM HandlersEnd ==
  Spec => [][\A r \in Req : ~Free(r) =>
               \/ pc'[r] = pc[r] /\ ~Proceed(r)
               \/ CallsLeft(pc'[r]) < CallsLeft(pc[r])]_vars
<1>1. ASSUME TypeOK, [Next]_vars, NEW r \in Req, ~Free(r)
      PROVE  (pc'[r] = pc[r] /\ ~Proceed(r)) \/ CallsLeft(pc'[r]) < CallsLeft(pc[r])
  <2>1. CASE Proceed(r) \/ Crash(r)
    BY <1>1, <2>1, OwnCallsRunOut
  <2>2. CASE ~Proceed(r) /\ (UNCHANGED vars \/ Tick)
    BY <2>2 DEF vars, Tick
  <2>3. ASSUME NEW q \in Req \ {r}, Arrive(q) \/ Proceed(q) \/ Crash(q)
        PROVE  pc'[r] = pc[r]
    BY <1>1, <2>3, OthersStay
  <2>4. ~Arrive(r)
    BY <1>1 DEF Arrive, LoginWithOAuth, LogoutWithoutToken, GetRefreshToken, LogoutUser, ForgotPassword,
                LoginUser, DeleteAccount, GetPasswordResetToken, ChangePassword
  <2> QED
    BY <1>1, <2>1, <2>2, <2>3, <2>4 DEF Next
<1>2. TypeOK /\ [Next]_vars =>
        [\A r \in Req : ~Free(r) => \/ pc'[r] = pc[r] /\ ~Proceed(r)
                                    \/ CallsLeft(pc'[r]) < CallsLeft(pc[r])]_vars
  BY <1>1
<1> QED
  BY <1>2, Typing, PTL DEF Spec

(***************************************************************************)
(* What the exceptions of the invariants amount to.                        *)
(***************************************************************************)
\* A step swallows one write at most, and one that failed.
LEMMA SwallowedStep ==
  ASSUME TypeOK, [Next]_vars
  PROVE  \/ swallowed' = swallowed /\ faults' \in {faults, faults + 1}
         \/ Fault /\ \E x \in Token \cup Key \cup {None} : swallowed' = swallowed \cup {x}
<1> USE DEF TypeOK, Fault, history, Job
<1>1. ASSUME NEW r \in Req,
             CreateRefreshToken(r) \/ RevokeOldToken(r) \/ MarkPasswordResetTokenAsUsed(r)
      PROVE  \/ swallowed' = swallowed /\ faults' = faults
             \/ Fault /\ \E x \in Token \cup Key \cup {None} : swallowed' = swallowed \cup {x}
  BY <1>1 DEF CreateRefreshToken, RevokeOldToken, MarkPasswordResetTokenAsUsed
<1>2. ASSUME NEW r \in Req, DropSessionCookie(r) \/ \E t \in handed : LogoutUser(r, t)
      PROVE  \/ swallowed' = swallowed /\ faults' = faults
             \/ Fault /\ \E x \in Token \cup Key \cup {None} : swallowed' = swallowed \cup {x}
  BY <1>2 DEF DropSessionCookie, LogoutUser
<1>3. ASSUME NEW r \in Req,
             CreatePasswordResetToken(r) \/ RevokeAllRefreshTokens(r) \/ EndSessions(r)
      PROVE  swallowed' = swallowed /\ faults' \in {faults, faults + 1}
  BY <1>3 DEF CreatePasswordResetToken, RevokeAllRefreshTokens, EndSessions
<1> QED
  BY <1>1, <1>2, <1>3, WhoWrites DEF Writes

\* Each token or key that RetiredIsRevoked and SpentIsUsed except has cost a
\* failed database call of its own: none is excepted for the sake of a race.
THEOREM ExceptionsAreFailures ==
  Spec => [](IsFiniteSet(swallowed) /\ Cardinality(swallowed) <= faults)
<1> DEFINE Counted == IsFiniteSet(swallowed) /\ Cardinality(swallowed) <= faults
<1>1. Init => Counted
  BY FS_EmptySet DEF Init
<1>2. ASSUME TypeOK, Counted, [Next]_vars PROVE Counted'
  <2>1. faults \in Nat /\ Cardinality(swallowed) \in Nat
    BY <1>2, FS_CardinalityType DEF TypeOK
  <2>2. CASE swallowed' = swallowed /\ faults' \in {faults, faults + 1}
    BY <1>2, <2>1, <2>2
  <2>3. ASSUME NEW x, faults' = faults + 1, swallowed' = swallowed \cup {x} PROVE Counted'
    <3>1. /\ IsFiniteSet(swallowed \cup {x})
          /\ Cardinality(swallowed \cup {x}) \in {Cardinality(swallowed), Cardinality(swallowed) + 1}
      BY <1>2, FS_AddElement
    <3> QED
      BY <1>2, <2>1, <2>3, <3>1
  <2> QED
    BY <1>2, <2>2, <2>3, SwallowedStep DEF Fault
<1> QED
  BY <1>1, <1>2, Typing, PTL DEF Spec

\* As long as no database call failed and no pod died, the two promises hold
\* without exception.
THEOREM WithoutFailuresNothingIsExcepted ==
  Spec => [](faults = 0 => /\ \A t \in retired : rt[t] = "revoked"
                           /\ \A k \in spent : reset[k].used)
<1>1. ASSUME RetiredIsRevoked, SpentIsUsed, faults = 0,
             IsFiniteSet(swallowed), Cardinality(swallowed) <= faults
      PROVE  (\A t \in retired : rt[t] = "revoked") /\ (\A k \in spent : reset[k].used)
  <2>1. Cardinality(swallowed) = 0
    BY <1>1, FS_CardinalityType
  <2>2. swallowed = {}
    BY <1>1, <2>1, FS_EmptySet
  <2> QED
    BY <1>1, <2>2 DEF RetiredIsRevoked, SpentIsUsed
<1> QED
  BY <1>1, RetirementIsFinal, ResetKeysAreSpent, ExceptionsAreFailures, PTL

\* What the two promises are worth to a client: from the moment it was told that a
\* token or a key is finished, no request that presents it passes the first
\* lookup, on any pod.
THEOREM FinishedCredentialsOpenNothing ==
  Spec => [][\A r \in Req : Free(r) =>
               /\ pc'[r] = "findUser" => job'[r].token \notin retired \ swallowed
               /\ pc'[r] = "checkNew" => job'[r].key \notin spent \ swallowed]_vars
<1>1. ASSUME IInv, [Next]_vars, NEW r \in Req, Free(r)
      PROVE  /\ pc'[r] = "findUser" => job'[r].token \notin retired \ swallowed
             /\ pc'[r] = "checkNew" => job'[r].key \notin spent \ swallowed
  <2> USE DEF IInv, TypeOK, Begin, Answer
  <2>1. CASE pc'[r] = pc[r]
    BY <1>1, <2>1 DEF Free, Resting
  <2>2. ASSUME NEW t \in handed, GetRefreshToken(r, t), pc'[r] = "findUser"
        PROVE  job'[r].token \notin retired \ swallowed
    <3>1. t.sub \in User /\ rt[t] = "active"
      BY <1>1, <2>2 DEF GetRefreshToken, Live, Token
    <3>2. job'[r] = [JobOf(t.sub) EXCEPT !.token = t]
      BY <1>1, <2>2 DEF GetRefreshToken
    <3>3. job'[r].token = t
      BY <1>1, <3>1, <3>2, JobFields
    <3> QED
      BY <1>1, <3>1, <3>3 DEF RetiredIsRevoked
  <2>3. ASSUME NEW k \in Key, NEW p \in Password, GetPasswordResetToken(r, k, p),
               pc'[r] = "checkNew"
        PROVE  job'[r].key \notin spent \ swallowed
    <3>1. OpenKey(k) /\ reset[k].owner \in User
      BY <1>1, <2>3 DEF GetPasswordResetToken, OpenKey, ResetRow
    <3>2. job'[r] = [JobOf(reset[k].owner) EXCEPT !.key = k, !.wanted = p]
      BY <1>1, <2>3 DEF GetPasswordResetToken
    <3>3. job'[r].key = k
      BY <3>1, <3>2, JobFields
    <3> QED
      BY <1>1, <3>1, <3>3 DEF SpentIsUsed, OpenKey
  <2>4. ASSUME Arrive(r),
               \A t \in handed : ~GetRefreshToken(r, t),
               \A k \in Key, p \in Password : ~GetPasswordResetToken(r, k, p)
        PROVE  pc'[r] \notin {"findUser", "checkNew"}
    BY <1>1, <2>4 DEF Arrive, LoginWithOAuth, LogoutWithoutToken, LogoutUser, ForgotPassword, LoginUser,
                      DeleteAccount, ChangePassword
  <2>5. CASE Arrive(r)
    <3>1. CASE \E t \in handed : GetRefreshToken(r, t)
      <4>1. pc'[r] # "checkNew"
        BY <1>1, <3>1 DEF GetRefreshToken
      <4> QED
        BY <2>2, <3>1, <4>1
    <3>2. CASE \E k \in Key, p \in Password : GetPasswordResetToken(r, k, p)
      <4>1. pc'[r] # "findUser"
        BY <1>1, <3>2 DEF GetPasswordResetToken
      <4> QED
        BY <2>3, <3>2, <4>1
    <3> QED
      BY <2>4, <2>5, <3>1, <3>2
  <2>6. ~Arrive(r) => pc'[r] = pc[r]
    <3>1. ~Proceed(r) /\ ~Crash(r)
      BY <1>1 DEF Proceed, Crash, Free, Resting, SignTokens, CreateRefreshToken,
         FindTokenOwner, RevokeOldToken, CreatePasswordResetToken, CheckNewPassword,
         ApplyReset, MarkPasswordResetTokenAsUsed, DropSessionCookie, SetPassword,
         RevokeAllRefreshTokens, EndSessions, DeleteUser
    <3>2. ASSUME NEW q \in Req \ {r}, Arrive(q) \/ Proceed(q) \/ Crash(q)
          PROVE  pc'[r] = pc[r]
      BY <1>1, <3>2, OthersStay
    <3> QED
      BY <1>1, <3>1, <3>2 DEF Next, vars, Tick
  <2> QED
    BY <2>1, <2>5, <2>6
<1>2. IInv /\ [Next]_vars =>
        [\A r \in Req : Free(r) =>
           /\ pc'[r] = "findUser" => job'[r].token \notin retired \ swallowed
           /\ pc'[r] = "checkNew" => job'[r].key \notin spent \ swallowed]_vars
  BY <1>1
<1> QED
  BY <1>2, Invariance, PTL DEF Spec

\* A revoked token never serves again and a used key never opens again, whether
\* anybody was told or not, and a key keeps the account it was drawn for: no
\* write of any handler undoes that of another.
THEOREM RevocationIsForEver == Spec => [][TokensAdvance /\ KeysAdvance]_vars
<1>1. IInv /\ [Next]_vars => [TokensAdvance /\ KeysAdvance]_vars
  BY TokensMoveForward, KeysMoveForward DEF IInv, TablesMatchRequests
<1> QED
  BY <1>1, Invariance, PTL DEF Spec

(***************************************************************************)
(* Accounts whose sessions were closed.                                    *)
(***************************************************************************)
\* A request signs for the account it is about.
SignsForItsUser == \A r \in Req : pc[r] = "store" => job[r].issued.sub = job[r].user

LEMMA SignsForItsUserStep ==
  ASSUME TypeOK, \A r \in Req : InFlight(r), SignsForItsUser, [Next]_vars
  PROVE  SignsForItsUser'
<1> USE DEF TypeOK, Begin, Continue, Answer
<1>1. CASE UNCHANGED <<pc, job>>
  BY <1>1 DEF SignsForItsUser
<1>2. ASSUME NEW r \in Req, SignTokens(r) PROVE job'[r].issued.sub = job'[r].user
  <2>1. job[r] \in Job /\ job'[r] = [job[r] EXCEPT !.issued = [sub |-> job[r].user, iat |-> now]]
    BY <1>2 DEF SignTokens
  <2> QED
    BY <2>1 DEF Job
<1>3. ASSUME NEW r \in Req, Arrive(r) \/ Proceed(r) \/ Crash(r), pc'[r] = "store"
      PROVE  SignTokens(r)
  BY <1>3 DEF Arrive, Proceed, Crash, LoginWithOAuth, LogoutWithoutToken, GetRefreshToken, LogoutUser,
      ForgotPassword, LoginUser, DeleteAccount, GetPasswordResetToken, ChangePassword,
      CreateRefreshToken, FindTokenOwner, RevokeOldToken, CreatePasswordResetToken,
      CheckNewPassword, ApplyReset, MarkPasswordResetTokenAsUsed, DropSessionCookie,
      SetPassword, RevokeAllRefreshTokens, EndSessions, DeleteUser
<1>4. ASSUME NEW r \in Req, Arrive(r) \/ Proceed(r) \/ Crash(r), NEW q \in Req, pc'[q] = "store"
      PROVE  job'[q].issued.sub = job'[q].user
  <2>1. CASE q = r
    BY <1>2, <1>3, <1>4, <2>1
  <2>2. CASE q # r
    BY <1>4, <2>2, OthersStay DEF SignsForItsUser
  <2> QED
    BY <2>1, <2>2
<1> QED
  BY <1>1, <1>4 DEF Next, Tick, vars, SignsForItsUser

\* A row changes by its insert, at the end of a login or of a refresh, or by its
\* revocation.
LEMMA RowsChange ==
  ASSUME TypeOK, [Next]_vars, NEW t \in Token, rt'[t] # rt[t]
  PROVE  \/ rt[t] = "active" /\ rt'[t] = "revoked"
         \/ rt'[t] = "active" /\ \E r \in Req : CreateRefreshToken(r) /\ t = job[r].issued
<1> USE DEF TypeOK, vars, database, history, Revoke
<1>1. CASE UNCHANGED rt
  BY <1>1
<1>2. ASSUME NEW r \in Req, CreateRefreshToken(r)
      PROVE  rt'[t] = "active" /\ t = job[r].issued
  BY <1>2 DEF CreateRefreshToken
<1>3. ASSUME NEW r \in Req, RevokeOldToken(r) PROVE rt[t] = "active" /\ rt'[t] = "revoked"
  BY <1>3 DEF RevokeOldToken
<1>4. ASSUME NEW r \in Req, NEW h \in handed, LogoutUser(r, h)
      PROVE  rt[t] = "active" /\ rt'[t] = "revoked"
  BY <1>4 DEF LogoutUser
<1>5. ASSUME NEW r \in Req, DropSessionCookie(r)
      PROVE  rt[t] = "active" /\ rt'[t] = "revoked"
  BY <1>5 DEF DropSessionCookie
<1>6. ASSUME NEW r \in Req, RevokeAllRefreshTokens(r)
      PROVE  rt[t] = "active" /\ rt'[t] = "revoked"
  BY <1>6 DEF RevokeAllRefreshTokens
<1>7. ASSUME NEW r \in Req, EndSessions(r) PROVE rt[t] = "active" /\ rt'[t] = "revoked"
  BY <1>7 DEF EndSessions
<1>8. ASSUME NEW r \in Req, CreatePasswordResetToken(r) \/ MarkPasswordResetTokenAsUsed(r)
      PROVE  UNCHANGED rt
  BY <1>8 DEF CreatePasswordResetToken, MarkPasswordResetTokenAsUsed
<1> QED
  BY <1>1, <1>2, <1>3, <1>4, <1>5, <1>6, <1>7, <1>8, WhoWrites DEF Writes

\* A request that begins to issue tokens is a login with the right password or
\* an external identity, or a refresh with an active token of the account;
\* otherwise it already was, and what overtook it is not forgotten.
LEMMA StartOfIssuing ==
  ASSUME TypeOK, NEW r \in Req, Arrive(r) \/ Proceed(r) \/ Crash(r),
         NEW u \in User, job'[r].user = u, pc'[r] \in Issuing
  PROVE  \/ LoginUser(r, u, password[u]) \/ LoginWithOAuth(r, u)
         \/ \E t \in TokensOf(u) : rt[t] = "active"
         \/ job[r].user = u /\ pc[r] \in Issuing /\ job'[r].overtaken = job[r].overtaken
<1> USE DEF TypeOK, Begin, Continue, Answer, Issuing
<1>1. ASSUME NEW v \in User, NEW p \in Password, LoginUser(r, v, p)
      PROVE  LoginUser(r, u, password[u])
  <2>1. job'[r] = JobOf(v) /\ p = password[v]
    BY <1>1 DEF LoginUser
  <2> QED
    BY <1>1, <2>1, JobFields
<1>2. ASSUME NEW t \in handed, GetRefreshToken(r, t)
      PROVE  t \in TokensOf(u) /\ rt[t] = "active"
  <2>1. t \in Token /\ t.sub \in User /\ Live(t) /\ job'[r] = [JobOf(t.sub) EXCEPT !.token = t]
    BY <1>2 DEF GetRefreshToken, Token
  <2>2. t.sub = u
    BY <2>1, JobFields
  <2> QED
    BY <2>1, <2>2 DEF TokensOf, Live
<1>3. CASE SignTokens(r)
  <2>1. job[r] \in Job /\ job'[r] = [job[r] EXCEPT !.issued = [sub |-> job[r].user, iat |-> now]]
    BY <1>3 DEF SignTokens
  <2>2. job'[r].user = job[r].user /\ job'[r].overtaken = job[r].overtaken
    BY <2>1 DEF Job
  <2> QED
    BY <1>3, <2>2 DEF SignTokens
<1>4. CASE FindTokenOwner(r) \/ RevokeOldToken(r)
  BY <1>4 DEF FindTokenOwner, RevokeOldToken
<1>5. ASSUME NEW v \in User, LoginWithOAuth(r, v) PROVE LoginWithOAuth(r, u)
  <2>1. job'[r] = JobOf(v)
    BY <1>5 DEF LoginWithOAuth
  <2>2. u = v
    BY <2>1, JobFields
  <2> QED
    BY <1>5, <2>2
<1> QED
  BY <1>1, <1>2, <1>3, <1>4, <1>5
  DEF Arrive, Proceed, Crash, LogoutWithoutToken, LogoutUser, ForgotPassword, DeleteAccount,
      GetPasswordResetToken, ChangePassword, CreateRefreshToken, CreatePasswordResetToken,
      CheckNewPassword, ApplyReset, MarkPasswordResetTokenAsUsed, DropSessionCookie,
      SetPassword, RevokeAllRefreshTokens, EndSessions, DeleteUser

\* What overtook a request is not forgotten by the steps of the others.
LEMMA OvertakenStays ==
  ASSUME TypeOK, NEW r \in Req, Arrive(r) \/ Proceed(r) \/ Crash(r),
         NEW q \in Req \ {r}, job[q].overtaken
  PROVE  job'[q].overtaken
<1> USE DEF TypeOK, Begin, Continue, Answer
<1>1. CASE RevokeAllRefreshTokens(r)
  <2>1. job[q] \in Job
    OBVIOUS
  <2> QED
    BY <1>1, <2>1 DEF RevokeAllRefreshTokens, Job
<1>2. CASE ~RevokeAllRefreshTokens(r)
  BY <1>2
  DEF Arrive, Proceed, Crash, LoginWithOAuth, LogoutWithoutToken, GetRefreshToken, LogoutUser,
      ForgotPassword, LoginUser, DeleteAccount, GetPasswordResetToken, ChangePassword,
      SignTokens, CreateRefreshToken, FindTokenOwner, RevokeOldToken,
      CreatePasswordResetToken, CheckNewPassword, ApplyReset,
      MarkPasswordResetTokenAsUsed, DropSessionCookie, SetPassword, EndSessions,
      DeleteUser
<1> QED
  BY <1>1, <1>2

\* An account whose sessions are closed is reopened by a login with its current
\* password, by an external identity, or by a request its change of password
\* overtook, and by nothing else: not by an old token, a reset key, an access
\* token still valid, a rotation that forked, or a row signed again.
THEOREM ClosedAccountsStayClosed == Spec => OnlyLoginReopens
<1> DEFINE Reopens(r, u) ==
      \/ LoginUser(r, u, password[u]) \/ LoginWithOAuth(r, u)
      \/ CreateRefreshToken(r) /\ job[r].user = u /\ job[r].overtaken
<1>1. Init => SignsForItsUser
  BY DEF Init, SignsForItsUser
<1>2. IInv /\ SignsForItsUser /\ [Next]_vars => SignsForItsUser'
  BY SignsForItsUserStep DEF IInv, TablesMatchRequests
<1>3. ASSUME IInv, SignsForItsUser, [Next]_vars, NEW u \in User, Closed(u),
             \A r \in Req : ~Reopens(r, u)
      PROVE  Closed(u)'
  <2>1. TypeOK /\ \A r \in Req : InFlight(r)
    BY <1>3 DEF IInv, TablesMatchRequests
  <2>2. ASSUME NEW t \in TokensOf(u), rt'[t] = "active" PROVE FALSE
    <3>1. t \in Token /\ t.sub = u /\ rt[t] # "active"
      BY <1>3 DEF TokensOf, Closed
    <3>2. PICK r \in Req : CreateRefreshToken(r) /\ t = job[r].issued
      BY <1>3, <2>1, <2>2, <3>1, RowsChange
    <3>3. pc[r] = "store"
      BY <3>2 DEF CreateRefreshToken
    <3>4. job[r].user = u
      BY <1>3, <3>1, <3>2, <3>3 DEF SignsForItsUser
    <3> QED
      BY <1>3, <3>2, <3>3, <3>4 DEF Closed, Issuing
  <2>3. ASSUME NEW q \in Req, job'[q].user = u, pc'[q] \in Issuing PROVE job'[q].overtaken
    <3>1. /\ job[q].user = u /\ pc[q] \in Issuing => job[q].overtaken
          /\ \A t \in TokensOf(u) : rt[t] # "active"
      BY <1>3 DEF Closed
    <3>2. CASE UNCHANGED <<pc, job>>
      BY <2>3, <3>1, <3>2
    <3>3. ASSUME NEW r \in Req, Arrive(r) \/ Proceed(r) \/ Crash(r) PROVE job'[q].overtaken
      <4>1. CASE q = r
        BY <1>3, <2>1, <2>3, <3>1, <3>3, <4>1, StartOfIssuing
      <4>2. CASE q # r
        BY <2>1, <2>3, <3>1, <3>3, <4>2, OthersStay, OvertakenStays
      <4> QED
        BY <4>1, <4>2
    <3> QED
      BY <1>3, <3>2, <3>3 DEF Next, Tick, vars
  <2> QED
    BY <2>2, <2>3 DEF Closed, TokensOf
<1>4. IInv /\ SignsForItsUser /\ [Next]_vars =>
        [\A u \in User : Closed(u) =>
           \/ Closed(u)'
           \/ \E r \in Req :
                \/ LoginUser(r, u, password[u]) \/ LoginWithOAuth(r, u)
                \/ CreateRefreshToken(r) /\ job[r].user = u /\ job[r].overtaken]_vars
  BY <1>3
<1> QED
  BY <1>1, <1>2, <1>4, Invariance, PTL DEF Spec, OnlyLoginReopens

\* Whose sessions outlive a change of password (run sessions_overtaken): the
\* answer to the change leaves the account closed, that is, with no session but
\* those of logins and refreshes that were under way when it revoked the others.
THEOREM ChangesCloseAccounts ==
  Spec => [][\A r \in Req, u \in User :
               pc[r] = "revokeAll" /\ pc'[r] = "ok" /\ job[r].user = u => Closed(u)']_vars
<1>1. ASSUME TypeOK, [Next]_vars, NEW r \in Req, NEW u \in User,
             pc[r] = "revokeAll", pc'[r] = "ok", job[r].user = u
      PROVE  Closed(u)'
  <2>1. RevokeAllRefreshTokens(r)
    <3>1. Arrive(r) \/ Proceed(r) \/ Crash(r)
      BY <1>1, OthersStay DEF Next, Tick, vars
    <3> QED
      BY <1>1, <3>1 DEF Arrive, Proceed, Crash, Free, Resting, Begin, Answer, TypeOK,
         LoginWithOAuth, LogoutWithoutToken, GetRefreshToken, LogoutUser, ForgotPassword, LoginUser,
         DeleteAccount, GetPasswordResetToken, ChangePassword, SignTokens,
         CreateRefreshToken, FindTokenOwner, RevokeOldToken, CreatePasswordResetToken,
         CheckNewPassword, ApplyReset, MarkPasswordResetTokenAsUsed, DropSessionCookie,
         SetPassword, EndSessions, DeleteUser
  <2>2. /\ \A t \in TokensOf(u) : rt'[t] # "active"
        /\ pc' = [pc EXCEPT ![r] = "ok"]
        /\ job' = [q \in Req |->
                     IF q = r THEN NoJob
                     ELSE IF job[q].user = u /\ pc[q] \in Issuing
                            THEN [job[q] EXCEPT !.overtaken = TRUE]
                            ELSE job[q]]
    BY <1>1, <2>1
    DEF RevokeAllRefreshTokens, Revoke, TokensOf, Answer, Begin, TypeOK
  <2>3. ASSUME NEW q \in Req, job'[q].user = u, pc'[q] \in Issuing PROVE job'[q].overtaken
    <3>1. q # r /\ pc'[q] = pc[q]
      BY <1>1, <2>2, <2>3 DEF Issuing, TypeOK
    <3>2. job[q] \in Job
      BY <1>1 DEF TypeOK
    <3>3. job'[q].user = job[q].user
      BY <2>2, <3>1, <3>2 DEF Job
    <3> QED
      BY <2>2, <2>3, <3>1, <3>2, <3>3 DEF Job
  <2> QED
    BY <2>2, <2>3 DEF Closed, TokensOf
<1>2. TypeOK /\ [Next]_vars =>
        [\A r \in Req, u \in User :
           pc[r] = "revokeAll" /\ pc'[r] = "ok" /\ job[r].user = u => Closed(u)']_vars
  BY <1>1
<1> QED
  BY <1>2, Typing, PTL DEF Spec

\* Every row of refresh_tokens was delivered, so a text that is new to the
\* clients is new to the table, and its insert is not refused.
RowsAreHanded == \A t \in Token : rt[t] # "absent" => t \in handed

LEMMA RowsAreHandedStep ==
  ASSUME TypeOK, \A r \in Req : InFlight(r), RowsAreHanded, [Next]_vars
  PROVE  RowsAreHanded'
<1> USE DEF TypeOK, RowsAreHanded
<1>1. handed \subseteq handed'
  BY WhoWrites DEF Writes, history, CreateRefreshToken, RevokeOldToken, LogoutUser,
     CreatePasswordResetToken, MarkPasswordResetTokenAsUsed, DropSessionCookie,
     RevokeAllRefreshTokens, EndSessions
<1>2. SUFFICES ASSUME NEW t \in Token, rt'[t] # "absent", rt[t] = "absent"
               PROVE  t \in handed'
  BY <1>1
<1>3. PICK r \in Req : CreateRefreshToken(r) /\ t = job[r].issued
  BY <1>2, RowsChange
<1> QED
  BY <1>3 DEF CreateRefreshToken

\* What makes run sessions_same_second fail, and nothing else: a pair that a login
\* or a refresh delivers is live unless the same text was delivered before, or its
\* insert failed.
THEOREM FirstDeliveriesAreLive ==
  Spec => [][\A r \in Req : pc[r] = "store" /\ pc'[r] = "ok" =>
               LET t == job[r].issued IN
                 rt'[t] = "active" \/ t \in handed \/ t \in swallowed']_vars
<1>1. Init => RowsAreHanded
  BY DEF Init, RowsAreHanded
<1>2. IInv /\ RowsAreHanded /\ [Next]_vars => RowsAreHanded'
  BY RowsAreHandedStep DEF IInv, TablesMatchRequests
<1>3. ASSUME IInv, RowsAreHanded, [Next]_vars, NEW r \in Req, pc[r] = "store", pc'[r] = "ok"
      PROVE  LET t == job[r].issued IN
               rt'[t] = "active" \/ t \in handed \/ t \in swallowed'
  <2>1. TypeOK /\ job[r].issued \in Token
    BY <1>3, JobFilledIn DEF IInv, TablesMatchRequests
  <2>2. Arrive(r) \/ Proceed(r) \/ Crash(r)
    BY <1>3, <2>1, OthersStay DEF Next, Tick, vars
  <2>3. CreateRefreshToken(r)
    BY <1>3, <2>1, <2>2 DEF Arrive, Proceed, Crash, Free, Resting, Begin,
       Answer, TypeOK, LoginWithOAuth, LogoutWithoutToken, GetRefreshToken, LogoutUser, ForgotPassword,
       LoginUser, DeleteAccount, GetPasswordResetToken, ChangePassword, SignTokens,
       FindTokenOwner, RevokeOldToken, CreatePasswordResetToken, CheckNewPassword,
       ApplyReset, MarkPasswordResetTokenAsUsed, DropSessionCookie, SetPassword,
       RevokeAllRefreshTokens, EndSessions, DeleteUser
  <2>4. job[r].issued \notin handed => rt[job[r].issued] = "absent"
    BY <1>3, <2>1 DEF RowsAreHanded
  <2> QED
    BY <2>1, <2>3, <2>4 DEF CreateRefreshToken, TypeOK
<1>4. IInv /\ RowsAreHanded /\ [Next]_vars =>
        [\A r \in Req : pc[r] = "store" /\ pc'[r] = "ok" =>
           LET t == job[r].issued IN
             rt'[t] = "active" \/ t \in handed \/ t \in swallowed']_vars
  BY <1>3
<1> QED
  BY <1>1, <1>2, <1>4, Invariance, PTL DEF Spec
=============================================================================
