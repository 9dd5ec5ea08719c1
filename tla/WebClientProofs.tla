--------------------------- MODULE WebClientProofs ---------------------------
(* Theorems about WebClient, for every set of browsers, requests, users and  *)
(* keys, every lifetime and every bound on the clock and the failures.       *)
EXTENDS WebClient, SessionsProofs

(***************************************************************************)
(* Every step of the browsers is a step of Sessions, or none: what they    *)
(* send was delivered to them, and a reply changes nothing in the service. *)
(***************************************************************************)
LEMMA SendingIsArriving ==
  ASSUME TypeOK, JarTypeOK, NEW r \in Req, NEW b \in Browser,
         SendPlain(r, b) \/ SendRefresh(r, b) \/ SendLogout(r, b) \/ SendSigned(r, b)
  PROVE  Arrive(r)
<1>1. jar[b] \in handed \cup {None}
  BY DEF JarTypeOK
<1>2. CASE SendPlain(r, b)
  BY <1>2 DEF SendPlain, Arrive
<1>3. CASE SendRefresh(r, b)
  BY <1>1, <1>3 DEF SendRefresh, RefreshCookie, Arrive
<1>4. CASE SendLogout(r, b)
  BY <1>4 DEF SendLogout, RefreshCookie, Arrive
<1>5. CASE SendSigned(r, b)
  <2>1. PICK t \in handed, p \in Password, q \in Password :
          ChangePassword(r, t.sub, p, q) \/ DeleteAccount(r, t.sub, p)
    BY <1>1, <1>5 DEF SendSigned, AccessCookie
  <2>2. t.sub \in User
    BY DEF TypeOK, Token
  <2> QED
    BY <2>1, <2>2 DEF Arrive
<1> QED
  BY <1>2, <1>3, <1>4, <1>5

LEMMA HandlingIsProceeding ==
  ASSUME NEW r \in Req, Handle(r)
  PROVE  Proceed(r)
BY DEF Handle, Work, Deliver, DeliverReset, EndAll, Proceed

LEMMA WebStepIsSessionsStep ==
  ASSUME TypeOK, JarTypeOK, [WebNext]_webVars
  PROVE  [Next]_vars
<1>1. CASE UNCHANGED webVars
  BY <1>1 DEF webVars
<1>2. CASE WebTick
  BY <1>2 DEF WebTick, Next
<1>3. ASSUME NEW r \in Req, NEW b \in Browser,
             SendPlain(r, b) \/ SendRefresh(r, b) \/ SendLogout(r, b) \/ SendSigned(r, b)
      PROVE  Next
  BY <1>3, SendingIsArriving DEF Next
<1>4. ASSUME NEW r \in Req, Handle(r) PROVE Next
  BY <1>4, HandlingIsProceeding DEF Next
<1>5. ASSUME NEW r \in Req, Land(r) \/ LoseReply(r) PROVE UNCHANGED vars
  BY <1>5 DEF Land, Receive, LoseReply
<1> QED
  BY <1>1, <1>2, <1>3, <1>4, <1>5 DEF WebNext

(***************************************************************************)
(* What the steps of Sessions do to what the browsers rely on.             *)
(***************************************************************************)
\* Failures are only ever counted, and a delivered token stays delivered.
LEMMA HistoryGrows ==
  ASSUME TypeOK, [Next]_vars
  PROVE  (faults' = 0 => faults = 0) /\ handed \subseteq handed'
<1>1. Fault => faults' # 0
  <2>1. faults \in Nat
    BY SessionsAssumption DEF TypeOK
  <2> QED
    BY <2>1 DEF Fault
<1>2. ASSUME NEW r \in Req, Writes(r)
      PROVE  (faults' = faults \/ Fault) /\ handed \subseteq handed'
  BY <1>2 DEF Writes, history, CreateRefreshToken, RevokeOldToken, LogoutUser,
     CreatePasswordResetToken, MarkPasswordResetTokenAsUsed, DropSessionCookie,
     RevokeAllRefreshTokens, EndSessions
<1> QED
  BY <1>1, <1>2, WhoWrites

\* What the arrival of a request carries: a refresh has the token of its cookie,
\* any other request has none. Nothing is revoked, a logout included, because
\* its cookie does not come along.
LEMMA Sending ==
  ASSUME TypeOK, JarTypeOK, NEW r \in Req, NEW b \in Browser,
         SendPlain(r, b) \/ SendRefresh(r, b) \/ SendLogout(r, b) \/ SendSigned(r, b)
  PROVE  /\ web[r] = NoWeb /\ Free(r)
         /\ UNCHANGED <<rt, handed, jar, excused>>
         /\ job'[r].token = None \/ (job'[r].token = jar[b] /\ pc'[r] = "findUser")
         /\ \E sets \in {Keep, Clear} :
              web' = [web EXCEPT ![r] = [browser |-> b, sets |-> sets]]
<1> USE DEF TypeOK, Send, Begin, Answer, database, history
<1>1. NoJob.token = None /\ (\A u : JobOf(u).token = None)
  BY DEF NoJob, JobOf
<1>2. CASE SendPlain(r, b)
  <2>1. ASSUME NEW u \in User, NEW p \in Password, LoginUser(r, u, p)
        PROVE  Free(r) /\ UNCHANGED <<rt, handed>> /\ job'[r].token = None
    BY <1>1, <2>1 DEF LoginUser
  <2>2. ASSUME NEW u \in User, ForgotPassword(r, u)
        PROVE  Free(r) /\ UNCHANGED <<rt, handed>> /\ job'[r].token = None
    <3>1. \A k \in Key : [JobOf(u) EXCEPT !.key = k].token = None
      BY DEF NoJob, JobOf
    <3> QED
      BY <1>1, <2>2, <3>1, ZenonT(30) DEF ForgotPassword
  <2>3. ASSUME NEW k \in Key, NEW p \in Password, GetPasswordResetToken(r, k, p)
        PROVE  Free(r) /\ UNCHANGED <<rt, handed>> /\ job'[r].token = None
    <3>1. [JobOf(reset[k].owner) EXCEPT !.key = k, !.wanted = p].token = None
      BY DEF NoJob, JobOf
    <3> QED
      BY <1>1, <2>3, <3>1 DEF GetPasswordResetToken
  <2> QED
    BY <1>2, <2>1, <2>2, <2>3 DEF SendPlain
<1>3. CASE SendRefresh(r, b)
  <2>1. GetRefreshToken(r, jar[b])
    BY <1>3 DEF SendRefresh, RefreshCookie
  <2>2. [JobOf(jar[b].sub) EXCEPT !.token = jar[b]].token = jar[b]
    BY DEF NoJob, JobOf
  <2> QED
    BY <1>1, <1>3, <2>1, <2>2 DEF SendRefresh, GetRefreshToken
<1>4. CASE SendLogout(r, b)
  BY <1>1, <1>4 DEF SendLogout, RefreshCookie, LogoutWithoutToken
<1>5. CASE SendSigned(r, b)
  <2>1. PICK t \in {AccessCookie(b)} \ {None}, p \in Password, q \in Password :
          ChangePassword(r, t.sub, p, q) \/ DeleteAccount(r, t.sub, p)
    BY <1>5 DEF SendSigned
  <2>2. CASE ChangePassword(r, t.sub, p, q)
    <3>1. \/ Begin(r, "setPassword", [JobOf(t.sub) EXCEPT !.wanted = q])
          \/ Answer(r, "failed")
      BY <2>2 DEF ChangePassword
    <3>2. [JobOf(t.sub) EXCEPT !.wanted = q].token = None
      BY DEF NoJob, JobOf
    <3>3. job'[r] = [JobOf(t.sub) EXCEPT !.wanted = q] \/ job'[r] = NoJob
      BY <3>1
    <3>4. job'[r].token = None
      BY <1>1, <3>2, <3>3
    <3> QED
      BY <1>5, <2>2, <3>4 DEF ChangePassword, SendSigned
  <2>3. CASE DeleteAccount(r, t.sub, p)
    BY <1>1, <1>5, <2>3 DEF DeleteAccount, SendSigned
  <2> QED
    BY <2>1, <2>2, <2>3
<1> QED
  BY <1>2, <1>3, <1>4, <1>5

\* What a call in the middle of a handler does: the refresh at its rotation is
\* the only one that revokes anything, and from then on it goes on to the end.
LEMMA Working ==
  ASSUME TypeOK, NEW r \in Req, Work(r)
  PROVE  /\ ~Free(r)
         /\ UNCHANGED <<handed, jar, web, excused>>
         /\ job'[r].token = None \/ (job'[r].token = job[r].token /\ ~Free(r)')
         /\ pc[r] \in {"sign", "store"} =>
              pc'[r] \in {"sign", "store"} /\ job'[r].token = job[r].token
         /\ \/ rt' = rt
            \/ /\ pc[r] = "revokeOld" /\ Revoke({job[r].token})
               /\ pc'[r] = "sign" /\ job'[r].token = job[r].token
<1> USE DEF TypeOK, Begin, Continue, Answer, database, history, Free, Resting
<1>1. NoJob.token = None
  BY DEF NoJob
<1>2. CASE SignTokens(r)
  <2>1. job[r] \in Job
    OBVIOUS
  <2>2. job'[r].token = job[r].token
    BY <1>2, <2>1 DEF SignTokens, Job
  <2> QED
    BY <1>2, <2>2 DEF SignTokens, Work
<1>3. CASE RevokeOldToken(r)
  BY <1>3 DEF RevokeOldToken, Work
<1>4. CASE ~SignTokens(r) /\ ~RevokeOldToken(r)
  BY <1>1, <1>4
  DEF Work, FindTokenOwner, CreatePasswordResetToken, CheckNewPassword, ApplyReset,
      MarkPasswordResetTokenAsUsed, SetPassword, DeleteUser
<1> QED
  BY <1>2, <1>3, <1>4

\* The end of a login or a refresh.
LEMMA Delivering ==
  ASSUME TypeOK, \A q \in Req : InFlight(q), NEW r \in Req, Deliver(r)
  PROVE  /\ pc[r] = "store" /\ pc'[r] = "ok" /\ job'[r].token = None
         /\ job[r].issued \in Token
         /\ handed' = handed \cup {job[r].issued}
         /\ excused' = excused \cup ({job[r].issued} \cap handed)
         /\ web' = [web EXCEPT ![r].sets = job[r].issued]
         /\ jar' = jar
         /\ rt' = rt \/ rt' = [rt EXCEPT ![job[r].issued] = IF @ = "absent" THEN "active" ELSE @]
         /\ faults' = 0 /\ faults \in Nat =>
              rt' = [rt EXCEPT ![job[r].issued] = IF @ = "absent" THEN "active" ELSE @]
<1>1. pc[r] = "store" /\ job[r].issued \in Token
  BY JobFilledIn DEF Deliver, CreateRefreshToken
<1>2. pc'[r] = "ok" /\ job'[r].token = None
  BY DEF Deliver, CreateRefreshToken, Answer, Begin, NoJob, TypeOK
<1>3. Fault => faults' = faults + 1
  BY DEF Fault
<1> QED
  BY <1>1, <1>2, <1>3 DEF Deliver, CreateRefreshToken, SetCookies

\* The end of a reset, which leaves the sessions alone.
LEMMA Resetting ==
  ASSUME TypeOK, NEW r \in Req, DeliverReset(r)
  PROVE  /\ pc[r] = "dropCookie" /\ job'[r].token = None
         /\ UNCHANGED <<rt, handed, jar, excused>>
         /\ web' = [web EXCEPT ![r].sets = Clear]
BY DEF DeliverReset, DropSessionCookie, SetCookies, Answer, Begin, NoJob, TypeOK

\* The end of all the sessions of an account: those it ends are excused.
LEMMA Ending ==
  ASSUME TypeOK, NEW r \in Req, EndAll(r)
  PROVE  /\ pc[r] \in {"revokeAll", "endSessions"}
         /\ job'[r].token = None \/ (job'[r].token = job[r].token /\ ~Free(r)')
         /\ UNCHANGED <<handed, jar, web>>
         /\ excused \subseteq excused' /\ excused' \subseteq excused \cup Token
         /\ \A t \in Token \ excused' : rt'[t] = rt[t]
<1> USE DEF TypeOK, Begin, Continue, Answer, Free, Resting, EndAll, Revoke, TokensOf
<1>1. NoJob.token = None
  BY DEF NoJob
<1>2. CASE RevokeAllRefreshTokens(r)
  BY <1>1, <1>2 DEF RevokeAllRefreshTokens
<1>3. CASE EndSessions(r)
  BY <1>1, <1>3 DEF EndSessions
<1> QED
  BY <1>2, <1>3

\* The step of one request leaves the others where they are, tokens included.
LEMMA WebOthersStay ==
  ASSUME TypeOK, JarTypeOK, NEW r \in Req,
         \/ \E b \in Browser : SendPlain(r, b) \/ SendRefresh(r, b) \/ SendLogout(r, b) \/ SendSigned(r, b)
         \/ Handle(r)
  PROVE  \A q \in Req \ {r} : pc'[q] = pc[q] /\ job'[q].token = job[q].token
BY SendingIsArriving, HandlingIsProceeding, OthersStay

(***************************************************************************)
(* Type correctness: the cookies are tokens that were delivered.           *)
(***************************************************************************)
LEMMA JarTypingStep ==
  ASSUME TypeOK, \A r \in Req : InFlight(r), JarTypeOK, [WebNext]_webVars
  PROVE  JarTypeOK'
<1> USE DEF JarTypeOK
<1>1. handed \subseteq handed' /\ handed \subseteq Token
  BY WebStepIsSessionsStep, HistoryGrows DEF TypeOK
<1>2. CASE UNCHANGED <<handed, jar, web, excused>>
  BY <1>2
<1>3. ASSUME NEW r \in Req, NEW b \in Browser,
             SendPlain(r, b) \/ SendRefresh(r, b) \/ SendLogout(r, b) \/ SendSigned(r, b)
      PROVE  JarTypeOK'
  BY <1>3, Sending
<1>4. ASSUME NEW r \in Req, Work(r) PROVE JarTypeOK'
  BY <1>2, <1>4, Working
<1>5. ASSUME NEW r \in Req, Deliver(r) PROVE JarTypeOK'
  <2>1. /\ handed' = handed \cup {job[r].issued}
        /\ excused' = excused \cup ({job[r].issued} \cap handed)
        /\ web' = [web EXCEPT ![r].sets = job[r].issued]
        /\ jar' = jar
    BY <1>5, Delivering
  <2>2. web' \in [Req -> [browser : Browser \cup {None}, sets : handed' \cup {Keep, Clear}]]
    BY <1>1, <2>1
  <2> QED
    BY <1>1, <2>1, <2>2
<1>6. ASSUME NEW r \in Req, DeliverReset(r) PROVE JarTypeOK'
  BY <1>6, Resetting
<1>7. ASSUME NEW r \in Req, EndAll(r) PROVE JarTypeOK'
  BY <1>7, Ending
<1>8. ASSUME NEW r \in Req, Land(r) PROVE JarTypeOK'
  <2>1. /\ web' = [web EXCEPT ![r] = NoWeb] /\ UNCHANGED <<handed, excused>>
        /\ jar' = [jar EXCEPT ![web[r].browser] =
             CASE web[r].sets = Keep -> @ [] web[r].sets = Clear -> None [] OTHER -> web[r].sets]
    BY <1>8 DEF Land, Receive, vars, history
  <2>2. web' \in [Req -> [browser : Browser \cup {None}, sets : handed \cup {Keep, Clear}]]
    BY <2>1 DEF NoWeb
  <2>3. jar' \in [Browser -> handed \cup {None}]
    BY <2>1, WebAssumption
  <2> QED
    BY <2>1, <2>2, <2>3
<1>9. ASSUME NEW r \in Req, LoseReply(r) PROVE JarTypeOK'
  BY <1>9 DEF LoseReply, NoWeb, vars, history
<1> QED
  BY <1>2, <1>3, <1>4, <1>5, <1>6, <1>7, <1>8, <1>9
  DEF WebNext, WebTick, Tick, Handle, webVars, vars, history

(***************************************************************************)
(* The inductive invariant. CookieServes alone is not inductive: that a    *)
(* reply may replace the cookie at any time rests on what is in the reply, *)
(* and that on what the request, its rivals and the tables were doing when *)
(* it was made.                                                            *)
(***************************************************************************)
\* A request at work belongs to a browser, its reply has no tokens before its
\* end, and a refresh came with a token that was delivered.
RequestsBelong ==
  \A r \in Req : /\ ~Free(r) => web[r].browser \in Browser
                 /\ web[r].sets \in Token => Free(r)
                 /\ job[r].token # None => ~Free(r) /\ job[r].token \in handed

\* Tokens under way to a browser are nowhere else yet, so nobody uses them up.
RepliesAreFresh ==
  \A q \in Req : web[q].sets \in Token \ excused =>
    /\ \A b \in Browser : jar[b] # web[q].sets
    /\ \A r \in Req : job[r].token # web[q].sets
    /\ \A r \in Req \ {q} : web[r].sets # web[q].sets

\* No two browsers have the same cookie, and only its own requests use it up.
CookiesAreApart ==
  \A b \in Browser : jar[b] \in Token \ excused =>
    /\ \A c \in Browser \ {b} : jar[c] # jar[b]
    /\ \A r \in Req : job[r].token = jar[b] => web[r].browser = b

\* The request revoked the token for the sake of another one, which its reply
\* will bring or has with it.
Replaces(r, t) ==
  (job[r].token = t /\ pc[r] \in {"sign", "store"}) \/ web[r].sets \in Token

\* Tokens under way are live; a cookie is, or a request of its own browser is
\* replacing it.
CookiesLive ==
  faults = 0 =>
    /\ \A q \in Req : web[q].sets \in Token \ excused => rt[web[q].sets] = "active"
    /\ \A b \in Browser : jar[b] \in Token \ excused =>
         \/ rt[jar[b]] = "active"
         \/ \E r \in Req : web[r].browser = b /\ Replaces(r, jar[b])

WebInv ==
  /\ IInv /\ JarTypeOK
  /\ RowsAreHanded /\ RequestsBelong /\ RepliesAreFresh /\ CookiesAreApart /\ CookiesLive

LEMMA WebInvInit == WebInit => WebInv
<1> SUFFICES ASSUME WebInit PROVE WebInv
  OBVIOUS
<1> USE DEF WebInit, Init, NoWeb
<1>1. IInv
  BY IInvInit
<1>2. JarTypeOK
  BY DEF JarTypeOK
<1>3. \A r \in Req : Free(r) /\ job[r].token = None /\ web[r].sets \notin Token
  BY WebAssumption DEF Free, Resting, NoJob
<1>4. \A b \in Browser : jar[b] \notin Token
  BY SessionsAssumption
<1> QED
  BY <1>1, <1>2, <1>3, <1>4
  DEF WebInv, RowsAreHanded, RequestsBelong, RepliesAreFresh, CookiesAreApart, CookiesLive

\* What a landing or lost reply leaves: the request is over, and its browser has
\* what the reply brought.
LEMMA Receiving ==
  ASSUME JarTypeOK, NEW r \in Req, Land(r) \/ LoseReply(r)
  PROVE  /\ Free(r) /\ UNCHANGED vars
         /\ web' = [web EXCEPT ![r] = NoWeb]
         /\ excused \subseteq excused'
         /\ \A b \in Browser :
              \/ jar'[b] = jar[b]
              \/ /\ b = web[r].browser /\ excused' = excused
                 /\ jar'[b] = None \/ (jar'[b] = web[r].sets /\ web[r].sets \in handed)
         /\ web[r].browser \in Browser =>
              \/ web[r].sets = Keep
              \/ jar'[web[r].browser] = None
              \/ jar'[web[r].browser] = web[r].sets
              \/ jar'[web[r].browser] \in Token => jar'[web[r].browser] \in excused'
<1>1. CASE LoseReply(r)
  BY <1>1 DEF LoseReply
<1>2. CASE Land(r)
  <2>1. /\ Free(r) /\ UNCHANGED <<vars, excused>> /\ web' = [web EXCEPT ![r] = NoWeb]
        /\ jar' = [jar EXCEPT ![web[r].browser] =
             CASE web[r].sets = Keep -> @ [] web[r].sets = Clear -> None [] OTHER -> web[r].sets]
    BY <1>2 DEF Land, Receive
  <2>2. web[r].sets \in handed \cup {Keep, Clear}
    BY DEF JarTypeOK
  <2> QED
    BY <2>1, <2>2, WebAssumption DEF JarTypeOK
<1> QED
  BY <1>1, <1>2

LEMMA RequestsBelongStep ==
  ASSUME TypeOK, \A r \in Req : InFlight(r), JarTypeOK, RequestsBelong, [WebNext]_webVars
  PROVE  RequestsBelong'
<1> USE DEF RequestsBelong, JarTypeOK
<1>1. handed \subseteq handed' /\ handed \subseteq Token
  BY WebStepIsSessionsStep, HistoryGrows DEF TypeOK
<1>2. {Keep, Clear} \cap Token = {}
  BY WebAssumption
<1>3. CASE UNCHANGED <<handed, pc, job, web>>
  BY <1>3 DEF Free
<1>4. ASSUME NEW r \in Req, NEW b \in Browser,
             SendPlain(r, b) \/ SendRefresh(r, b) \/ SendLogout(r, b) \/ SendSigned(r, b)
      PROVE  RequestsBelong'
  BY <1>1, <1>2, <1>4, Sending, WebOthersStay DEF Free, Resting
<1>5. ASSUME NEW r \in Req, Work(r) PROVE RequestsBelong'
  <2>1. /\ ~Free(r) /\ UNCHANGED <<handed, web>>
        /\ job'[r].token = None \/ (job'[r].token = job[r].token /\ ~Free(r)')
    BY <1>5, Working
  <2>2. \A q \in Req \ {r} : pc'[q] = pc[q] /\ job'[q].token = job[q].token
    BY <1>5, WebOthersStay DEF Handle
  <2> QED
    BY <2>1, <2>2 DEF Free
<1>6. ASSUME NEW r \in Req, Deliver(r) PROVE RequestsBelong'
  BY <1>1, <1>6, Delivering, WebOthersStay DEF Free, Handle, Resting
<1>7. ASSUME NEW r \in Req, DeliverReset(r) PROVE RequestsBelong'
  BY <1>1, <1>2, <1>7, Resetting, WebOthersStay DEF Free, Handle, Resting
<1>8. ASSUME NEW r \in Req, EndAll(r) PROVE RequestsBelong'
  <2>1. ~Free(r)
    BY <1>8, Ending DEF Free, Resting
  <2> QED
    BY <1>1, <1>8, <2>1, Ending, WebOthersStay DEF Free, Handle
<1>9. ASSUME NEW r \in Req, Land(r) \/ LoseReply(r) PROVE RequestsBelong'
  BY <1>2, <1>9, Receiving DEF NoWeb, Free, vars, history
<1> QED
  BY <1>3, <1>4, <1>5, <1>6, <1>7, <1>8, <1>9
  DEF WebNext, WebTick, Tick, Handle, webVars, vars, history

LEMMA RepliesAreFreshStep ==
  ASSUME TypeOK, \A r \in Req : InFlight(r), JarTypeOK, RequestsBelong, RepliesAreFresh,
         [WebNext]_webVars
  PROVE  RepliesAreFresh'
<1> USE DEF RepliesAreFresh, JarTypeOK
<1>1. handed \subseteq Token /\ ({Keep, Clear} \cup {None}) \cap Token = {}
  BY WebAssumption, SessionsAssumption DEF TypeOK
<1>2. CASE UNCHANGED <<job, jar, web, excused>>
  BY <1>2
<1>3. ASSUME NEW r \in Req, NEW b \in Browser,
             SendPlain(r, b) \/ SendRefresh(r, b) \/ SendLogout(r, b) \/ SendSigned(r, b)
      PROVE  RepliesAreFresh'
  BY <1>1, <1>3, Sending, WebOthersStay, SMTT(20)
<1>4. ASSUME NEW r \in Req, Work(r) PROVE RepliesAreFresh'
  <2>1. UNCHANGED <<jar, web, excused>>
    BY <1>4, Working
  <2>2. \A q \in Req : job'[q].token \in {None, job[q].token}
    BY <1>4, Working, WebOthersStay, ZenonT(30) DEF Handle
  <2> QED
    BY <1>1, <2>1, <2>2
<1>5. ASSUME NEW r \in Req, Deliver(r) PROVE RepliesAreFresh'
  <2> DEFINE t == job[r].issued
  <2>1. /\ t \in Token /\ job'[r].token = None /\ jar' = jar
        /\ web' = [web EXCEPT ![r].sets = t]
        /\ excused' = excused \cup ({t} \cap handed)
    BY <1>5, Delivering
  <2>2. \A q \in Req \ {r} : web'[q] = web[q] /\ job'[q].token = job[q].token
    BY <1>5, <2>1, WebOthersStay DEF Handle
  <2>3. web'[r].sets = t
    BY <2>1
  <2>4. t \notin excused' => t \notin handed
    BY <2>1
  <2>5. SUFFICES ASSUME NEW q \in Req, web'[q].sets \in Token \ excused'
                 PROVE  /\ \A b \in Browser : jar'[b] # web'[q].sets
                        /\ \A p \in Req : job'[p].token # web'[q].sets
                        /\ \A p \in Req \ {q} : web'[p].sets # web'[q].sets
    OBVIOUS
  <2>6. CASE q = r
    <3>1. t \notin handed
      BY <2>3, <2>4, <2>5, <2>6
    <3>2. \A p \in Req : job[p].token # t
      BY <1>1, <2>1, <3>1 DEF RequestsBelong
    <3>3. \A p \in Req : web[p].sets # t
      BY <1>1, <2>1, <3>1
    <3>4. \A b \in Browser : jar[b] # t
      BY <1>1, <2>1, <3>1
    <3> QED
      BY <1>1, <2>1, <2>2, <2>3, <2>6, <3>2, <3>3, <3>4
  <2>7. CASE q # r
    <3>1. web[q].sets \in Token \ excused /\ web'[q].sets = web[q].sets
      BY <2>1, <2>2, <2>5, <2>7
    <3>2. web[q].sets \in handed
      BY <1>1, <3>1
    <3>3. t # web[q].sets
      BY <2>1, <2>5, <3>1, <3>2
    <3> QED
      BY <1>1, <2>1, <2>2, <2>3, <3>1, <3>3
  <2> QED
    BY <2>6, <2>7
<1>6. ASSUME NEW r \in Req, DeliverReset(r) PROVE RepliesAreFresh'
  BY <1>1, <1>6, Resetting, WebOthersStay DEF Handle
<1>7. ASSUME NEW r \in Req, EndAll(r) PROVE RepliesAreFresh'
  BY <1>1, <1>7, Ending, WebOthersStay DEF Handle
<1>8. ASSUME NEW r \in Req, Land(r) \/ LoseReply(r) PROVE RepliesAreFresh'
  <2>1. web' = [web EXCEPT ![r] = NoWeb] /\ job' = job /\ excused \subseteq excused'
    BY <1>8, Receiving DEF vars
  <2>2. \A b \in Browser : jar'[b] \in {jar[b], None, web[r].sets}
    BY <1>8, Receiving
  <2>3. \A q \in Req : web'[q].sets \in Token \ excused' => q # r /\ web'[q].sets = web[q].sets
    BY <1>1, <2>1 DEF NoWeb
  <2> QED
    BY <1>1, <2>1, <2>2, <2>3
<1> QED
  BY <1>2, <1>3, <1>4, <1>5, <1>6, <1>7, <1>8
  DEF WebNext, WebTick, Tick, Handle, webVars, vars

LEMMA CookiesAreApartStep ==
  ASSUME TypeOK, \A r \in Req : InFlight(r), JarTypeOK, RequestsBelong, RepliesAreFresh,
         CookiesAreApart, [WebNext]_webVars
  PROVE  CookiesAreApart'
<1> USE DEF CookiesAreApart, JarTypeOK
<1>1. handed \subseteq Token /\ ({Keep, Clear} \cup {None}) \cap Token = {}
  BY WebAssumption, SessionsAssumption DEF TypeOK
<1>2. CASE UNCHANGED <<job, jar, web, excused>>
  BY <1>2
<1>3. ASSUME NEW r \in Req, NEW b \in Browser,
             SendPlain(r, b) \/ SendRefresh(r, b) \/ SendLogout(r, b) \/ SendSigned(r, b)
      PROVE  CookiesAreApart'
  <2>1. /\ UNCHANGED <<jar, excused>> /\ job'[r].token \in {None, jar[b]}
        /\ web'[r].browser = b
        /\ \A q \in Req \ {r} : web'[q] = web[q] /\ job'[q].token = job[q].token
    BY <1>3, Sending, WebOthersStay
  <2> QED
    BY <1>1, <2>1
<1>4. ASSUME NEW r \in Req, Handle(r) PROVE CookiesAreApart'
  <2>1. jar' = jar /\ excused \subseteq excused'
    <3>1. CASE Work(r)
      BY <3>1, Working
    <3>2. CASE Deliver(r)
      BY <3>2, Delivering
    <3>3. CASE DeliverReset(r) \/ EndAll(r)
      BY <3>3, Resetting, Ending
    <3> QED
      BY <1>4, <3>1, <3>2, <3>3 DEF Handle
  <2>2. web' = web \/ \E sets : web' = [web EXCEPT ![r].sets = sets]
    BY <1>4, Working, Delivering, Resetting, Ending, ZenonT(30) DEF Handle
  <2>3. \A q \in Req : web'[q].browser = web[q].browser
    BY <2>2
  <2>4. job'[r].token \in {None, job[r].token}
    BY <1>4, Working, Delivering, Resetting, Ending DEF Handle
  <2>5. \A q \in Req : job'[q].token \in {None, job[q].token}
    BY <1>4, <2>4, WebOthersStay
  <2> QED
    BY <1>1, <2>1, <2>3, <2>5
<1>5. ASSUME NEW r \in Req, Land(r) \/ LoseReply(r) PROVE CookiesAreApart'
  <2>1. /\ Free(r) /\ web' = [web EXCEPT ![r] = NoWeb] /\ job' = job
        /\ excused \subseteq excused'
    BY <1>5, Receiving DEF vars
  <2>2. \A c \in Browser :
          \/ jar'[c] \in {jar[c], None}
          \/ c = web[r].browser /\ jar'[c] = web[r].sets /\ excused' = excused
    BY <1>5, Receiving
  <2>3. SUFFICES ASSUME NEW b \in Browser, jar'[b] \in Token \ excused'
                 PROVE  /\ \A c \in Browser \ {b} : jar'[c] # jar'[b]
                        /\ \A q \in Req : job[q].token = jar'[b] => web'[q].browser = b
    BY <2>1
  <2>4. CASE jar'[b] = jar[b]
    <3>1. \A c \in Browser \ {b} : jar'[c] # jar[b]
      BY <1>1, <2>1, <2>2, <2>3, <2>4 DEF RepliesAreFresh
    <3>2. job[r].token # jar[b]
      BY <1>1, <2>1, <2>3, <2>4 DEF RequestsBelong
    <3> QED
      BY <2>1, <2>3, <2>4, <3>1, <3>2
  <2>5. CASE b = web[r].browser /\ jar'[b] = web[r].sets /\ excused' = excused
    BY <1>1, <2>2, <2>3, <2>5 DEF RepliesAreFresh
  <2> QED
    BY <1>1, <2>2, <2>3, <2>4, <2>5
<1> QED
  BY <1>2, <1>3, <1>4, <1>5
  DEF WebNext, WebTick, Tick, webVars, vars

\* The rotation is the one step that kills a cookie: the request that takes it is
\* of the browser whose cookie it is, and has another token to sign.
LEMMA RotationKeepsCookiesLive ==
  ASSUME TypeOK, \A q \in Req : InFlight(q), JarTypeOK, RepliesAreFresh, CookiesAreApart,
         CookiesLive, faults = 0, NEW r \in Req, Work(r)
  PROVE  CookiesLive'
<1> USE DEF JarTypeOK, TypeOK
<1> DEFINE t == job[r].token
<1>1. /\ UNCHANGED <<jar, web, excused>>
      /\ pc[r] \in {"sign", "store"} => pc'[r] \in {"sign", "store"} /\ job'[r].token = t
      /\ \A q \in Req \ {r} : pc'[q] = pc[q] /\ job'[q].token = job[q].token
  BY Working, WebOthersStay DEF Handle
<1>2. \A q \in Req : \A x : Replaces(q, x) => Replaces(q, x)'
  BY <1>1 DEF Replaces
<1>3. CASE rt' = rt
  BY <1>1, <1>2, <1>3 DEF CookiesLive
<1>4. CASE /\ pc[r] = "revokeOld" /\ Revoke({t})
           /\ pc'[r] = "sign" /\ job'[r].token = t
  <2>1. \A x \in Token \ {t} : rt'[x] = rt[x]
    BY <1>4 DEF Revoke
  <2>2. \A q \in Req : web[q].sets \in Token \ excused => web[q].sets # t
    BY DEF RepliesAreFresh
  <2>3. ASSUME NEW b \in Browser, jar[b] \in Token \ excused
        PROVE  rt'[jar[b]] = "active" \/ \E q \in Req : web[q].browser = b /\ Replaces(q, jar[b])'
    <3>1. CASE jar[b] = t
      <4>1. web[r].browser = b
        BY <2>3, <3>1 DEF CookiesAreApart
      <4>2. Replaces(r, jar[b])'
        BY <1>1, <1>4, <3>1 DEF Replaces
      <4> QED
        BY <4>1, <4>2
    <3>2. CASE jar[b] # t
      BY <1>1, <1>2, <2>1, <2>3, <3>2 DEF CookiesLive
    <3> QED
      BY <3>1, <3>2
  <2> QED
    BY <1>1, <2>1, <2>2, <2>3 DEF CookiesLive
<1> QED
  BY <1>3, <1>4, Working

LEMMA CookiesLiveStep ==
  ASSUME TypeOK, \A q \in Req : InFlight(q), JarTypeOK, RowsAreHanded, RequestsBelong,
         RepliesAreFresh, CookiesAreApart, CookiesLive, [WebNext]_webVars
  PROVE  CookiesLive'
<1> USE DEF JarTypeOK
<1>1. handed \subseteq Token /\ ({Keep, Clear} \cup {None}) \cap Token = {} /\ None \notin Browser
  BY WebAssumption, SessionsAssumption DEF TypeOK
<1>2. faults' = 0 => faults = 0
  BY WebStepIsSessionsStep, HistoryGrows
<1>3. SUFFICES ASSUME faults' = 0, faults = 0 PROVE CookiesLive'
  BY <1>2 DEF CookiesLive
<1>4. CASE UNCHANGED <<rt, pc, job, jar, web, excused>>
  BY <1>3, <1>4 DEF CookiesLive, Replaces
<1>5. ASSUME NEW r \in Req, NEW b \in Browser,
             SendPlain(r, b) \/ SendRefresh(r, b) \/ SendLogout(r, b) \/ SendSigned(r, b)
      PROVE  CookiesLive'
  <2>1. /\ UNCHANGED <<rt, jar, excused>> /\ web[r] = NoWeb
        /\ web'[r].sets \in {Keep, Clear}
        /\ \A q \in Req \ {r} : /\ web'[q] = web[q] /\ pc'[q] = pc[q]
                                /\ job'[q].token = job[q].token
    BY <1>5, Sending, WebOthersStay
  <2>2. \A q \in Req, c \in Browser : web[q].browser = c => q # r
    BY <1>1, <2>1 DEF NoWeb
  <2>3. \A q \in Req : \A x : q # r /\ Replaces(q, x) => Replaces(q, x)'
    BY <2>1 DEF Replaces
  <2> QED
    BY <1>1, <1>3, <2>1, <2>2, <2>3 DEF CookiesLive
<1>6. ASSUME NEW r \in Req, Work(r) PROVE CookiesLive'
  BY <1>3, <1>6, RotationKeepsCookiesLive
<1>7. ASSUME NEW r \in Req, Deliver(r) PROVE CookiesLive'
  <2> DEFINE t == job[r].issued
  <2>1. /\ t \in Token /\ jar' = jar /\ pc[r] = "store"
        /\ web' = [web EXCEPT ![r].sets = t]
        /\ excused' = excused \cup ({t} \cap handed)
        /\ rt' = [rt EXCEPT ![t] = IF @ = "absent" THEN "active" ELSE @]
    BY <1>3, <1>7, Delivering
  <2>2. \A q \in Req \ {r} : /\ web'[q] = web[q] /\ pc'[q] = pc[q]
                             /\ job'[q].token = job[q].token
    BY <1>7, <2>1, WebOthersStay DEF Handle
  <2>3. \A x \in Token : rt[x] = "active" => rt'[x] = "active"
    BY <2>1 DEF TypeOK
  <2>4. t \notin excused' => rt'[t] = "active"
    BY <2>1 DEF TypeOK, RowsAreHanded
  <2>5. web'[r].sets = t /\ (\A q \in Req : web'[q].browser = web[q].browser)
    BY <2>1
  <2>6. \A q \in Req : \A x : Replaces(q, x) => Replaces(q, x)'
    BY <2>1, <2>2, <2>5 DEF Replaces
  <2> QED
    BY <1>3, <2>1, <2>2, <2>3, <2>4, <2>5, <2>6 DEF CookiesLive
<1>8. ASSUME NEW r \in Req, DeliverReset(r) \/ EndAll(r) PROVE CookiesLive'
  <2>1. /\ jar' = jar /\ excused \subseteq excused'
        /\ \A x \in Token \ excused' : rt'[x] = rt[x]
        /\ pc[r] \in {"dropCookie", "revokeAll", "endSessions"}
        /\ web' = web \/ web' = [web EXCEPT ![r].sets = Clear]
    BY <1>8, Resetting, Ending
  <2>2. \A q \in Req \ {r} : /\ web'[q] = web[q] /\ pc'[q] = pc[q]
                             /\ job'[q].token = job[q].token
    BY <1>8, <2>1, WebOthersStay DEF Handle
  <2>3. web[r].sets \notin Token
    BY <2>1 DEF RequestsBelong, Free, Resting
  <2>4. web'[r].sets \notin Token /\ (\A q \in Req : web'[q].browser = web[q].browser)
    BY <1>1, <2>1, <2>3
  <2>5. \A q \in Req : \A x : Replaces(q, x) => Replaces(q, x)'
    BY <2>1, <2>2, <2>3 DEF Replaces
  <2> QED
    BY <1>3, <2>1, <2>2, <2>4, <2>5 DEF CookiesLive
<1>9. ASSUME NEW r \in Req, Land(r) \/ LoseReply(r) PROVE CookiesLive'
  <2>1. /\ Free(r) /\ web' = [web EXCEPT ![r] = NoWeb] /\ UNCHANGED <<rt, pc, job>>
        /\ excused \subseteq excused'
    BY <1>9, Receiving DEF vars, database
  <2>2. web'[r].sets = Keep /\ \A q \in Req \ {r} : web'[q] = web[q]
    BY <2>1 DEF NoWeb
  <2>3. ASSUME NEW b \in Browser, jar'[b] \in Token \ excused'
        PROVE  \/ rt'[jar'[b]] = "active"
               \/ \E q \in Req : web'[q].browser = b /\ Replaces(q, jar[b])'
    <3>1. CASE jar'[b] = jar[b] /\ rt[jar[b]] # "active"
      <4>1. PICK q \in Req : web[q].browser = b /\ Replaces(q, jar[b])
        BY <1>3, <2>1, <2>3, <3>1 DEF CookiesLive
      <4>2. q # r
        <5>1. ASSUME q = r PROVE FALSE
          <6>1. web[r].sets \in Token
            BY <2>1, <4>1, <5>1 DEF Replaces, Free, Resting
          <6>2. jar'[b] = web[r].sets
            BY <1>1, <1>9, <2>3, <4>1, <5>1, <6>1, Receiving
          <6>3. web[r].sets \in Token \ excused
            BY <2>1, <2>3, <6>2
          <6> QED
            BY <3>1, <6>2, <6>3 DEF RepliesAreFresh
        <5> QED
          BY <5>1
      <4>3. web'[q] = web[q] /\ pc' = pc /\ job' = job
        BY <2>1, <2>2, <4>2
      <4>4. Replaces(q, jar[b])'
        BY <3>1, <4>1, <4>3 DEF Replaces
      <4> QED
        BY <4>1, <4>3, <4>4
    <3>2. CASE jar'[b] = web[r].sets /\ excused' = excused
      BY <1>3, <2>1, <2>3, <3>2 DEF CookiesLive
    <3> QED
      BY <1>1, <1>9, <2>1, <2>3, <3>1, <3>2, Receiving
  <2>4. \A q \in Req : web'[q].sets \in Token \ excused' => rt'[web'[q].sets] = "active"
    BY <1>1, <1>3, <2>1, <2>2 DEF CookiesLive
  <2> QED
    BY <2>1, <2>3, <2>4 DEF CookiesLive
<1> QED
  BY <1>4, <1>5, <1>6, <1>7, <1>8, <1>9
  DEF WebNext, WebTick, Tick, Handle, webVars, vars, database

LEMMA WebInvStep == WebInv /\ [WebNext]_webVars => WebInv'
<1> SUFFICES ASSUME WebInv, [WebNext]_webVars PROVE WebInv'
  OBVIOUS
<1>1. /\ IInv /\ TypeOK /\ (\A r \in Req : InFlight(r)) /\ JarTypeOK /\ RowsAreHanded
      /\ RequestsBelong /\ RepliesAreFresh /\ CookiesAreApart /\ CookiesLive
  BY DEF WebInv, IInv, TablesMatchRequests
<1>2. IInv' /\ RowsAreHanded'
  BY <1>1, WebStepIsSessionsStep, IInvStep, RowsAreHandedStep
<1> QED
  BY <1>1, <1>2, JarTypingStep, RequestsBelongStep, RepliesAreFreshStep,
     CookiesAreApartStep, CookiesLiveStep
  DEF WebInv

\* The inductive invariant holds in every reachable state.
THEOREM WebInvariance == WebSpec => []WebInv
BY WebInvInit, WebInvStep, PTL DEF WebSpec

\* Every variable keeps its type, and a cookie is always a token that was
\* delivered: no order of replies leaves a browser with anything else.
THEOREM JarsAreTyped == WebSpec => []JarTypeOK
<1>1. WebInv => JarTypeOK
  BY DEF WebInv
<1> QED
  BY <1>1, WebInvariance, PTL

\* Nobody is signed out by accident: whatever any number of tabs of any number
\* of browsers sent at once, and in whatever order the replies came, the cookie
\* a browser is left with serves.
THEOREM NobodyIsSignedOutByAccident == WebSpec => []CookieServes
<1>1. WebInv => CookieServes
  <2> SUFFICES ASSUME WebInv, NEW b \in Browser, ~Busy(b), jar[b] # None,
                      jar[b] \notin excused, faults = 0
               PROVE  rt[jar[b]] = "active"
    BY DEF CookieServes
  <2>1. jar[b] \in Token
    BY DEF WebInv, JarTypeOK, IInv, TypeOK
  <2> QED
    BY <2>1 DEF WebInv, CookiesLive, Busy
<1> QED
  BY <1>1, WebInvariance, PTL

\* The browsers do to the service what the clients of Sessions do and nothing
\* else, so every theorem about Sessions is one about them.
THEOREM BrowsersAreClients == WebSpec => Spec
<1>1. WebInit => Init
  BY DEF WebInit
<1>2. WebInv /\ [WebNext]_webVars => [Next]_vars
  BY WebStepIsSessionsStep DEF WebInv, IInv
<1> QED
  BY <1>1, <1>2, WebInvariance, PTL DEF WebSpec, Spec

\* For one: a token whose browser was told that it no longer serves is revoked.
THEOREM RetirementIsFinalForBrowsers == WebSpec => []RetiredIsRevoked /\ LedgerSpec
BY BrowsersAreClients, RetirementIsFinal, SessionsImplementLedger, PTL

(***************************************************************************)
(* Signing out.                                                            *)
(***************************************************************************)
\* A request of a signed-out browser begins to issue tokens by a login only, and
\* only if that login is the one that signs the browser in.
LEMMA SignInIsALogin ==
  ASSUME TypeOK, JarTypeOK, NEW b \in Browser, SignedOut(b),
         NEW r \in Req, NEW c \in Browser,
         SendPlain(r, c) \/ SendRefresh(r, c) \/ SendLogout(r, c) \/ SendSigned(r, c),
         web'[r].browser = b, pc'[r] \in Issuing
  PROVE  \E u \in User : LoginUser(r, u, password[u])
<1>1. c = b
  BY Sending DEF JarTypeOK
<1>2. jar[b] = None
  BY DEF SignedOut
<1> USE DEF Issuing, Begin, Answer, TypeOK
<1>3. ~SendRefresh(r, c)
  BY <1>1, <1>2 DEF SendRefresh, RefreshCookie
<1>4. ~SendLogout(r, c)
  BY DEF SendLogout, LogoutWithoutToken, LogoutUser
<1>5. ~SendSigned(r, c)
  BY <1>1, <1>2 DEF SendSigned, AccessCookie
<1>6. CASE SendPlain(r, c)
  <2>1. PICK u \in User, p \in Password : LoginUser(r, u, p)
    BY <1>6 DEF SendPlain, ForgotPassword, GetPasswordResetToken
  <2>2. p = password[u]
    BY <2>1 DEF LoginUser
  <2> QED
    BY <2>1, <2>2
<1> QED
  BY <1>3, <1>4, <1>5, <1>6

\* No call in the middle of a handler turns another request into a login or a
\* refresh.
LEMMA WorkIssuesNothingNew ==
  ASSUME TypeOK, NEW r \in Req, Work(r) \/ DeliverReset(r) \/ EndAll(r), pc'[r] \in Issuing
  PROVE  pc[r] \in Issuing
BY DEF Work, SignTokens, FindTokenOwner, RevokeOldToken, CreatePasswordResetToken,
   CheckNewPassword, ApplyReset, MarkPasswordResetTokenAsUsed, SetPassword, DeleteUser,
   DeliverReset, DropSessionCookie, EndAll, RevokeAllRefreshTokens, EndSessions,
   Begin, Continue, Answer, Issuing, TypeOK

\* A browser that is signed out, with nothing under way that would sign it in,
\* is signed in by a login and by nothing else: not by a reply that comes late,
\* a password reset, or what the other browsers do.
THEOREM SignedOutStaysSignedOut == WebSpec => OnlyLoginSignsIn
<1>1. ASSUME WebInv, [WebNext]_webVars, NEW b \in Browser, SignedOut(b),
             \A r \in Req, u \in User :
               ~(LoginUser(r, u, password[u]) /\ web'[r].browser = b)
      PROVE  SignedOut(b)'
  <2>1. TypeOK /\ JarTypeOK /\ (\A r \in Req : InFlight(r))
    BY <1>1 DEF WebInv, IInv, TablesMatchRequests
  <2>2. {Keep, Clear} \cap Token = {} /\ None \notin Browser /\ handed \subseteq Token
    BY <2>1, WebAssumption DEF TypeOK
  <2>3. CASE UNCHANGED <<pc, jar, web>>
    BY <1>1, <2>3 DEF SignedOut
  <2>4. ASSUME NEW r \in Req, NEW c \in Browser,
               SendPlain(r, c) \/ SendRefresh(r, c) \/ SendLogout(r, c) \/ SendSigned(r, c)
        PROVE  SignedOut(b)'
    <3>1. /\ jar' = jar /\ web'[r].sets \in {Keep, Clear}
          /\ \A q \in Req \ {r} : web'[q] = web[q] /\ pc'[q] = pc[q]
      BY <2>1, <2>4, Sending, WebOthersStay DEF JarTypeOK
    <3>2. web'[r].browser = b => pc'[r] \notin Issuing
      BY <1>1, <2>1, <2>4, SignInIsALogin
    <3> QED
      BY <1>1, <3>1, <3>2 DEF SignedOut
  <2>5. ASSUME NEW r \in Req, Handle(r) PROVE SignedOut(b)'
    <3>1. jar' = jar /\ (\A q \in Req \ {r} : web'[q] = web[q] /\ pc'[q] = pc[q])
      <4>1. jar' = jar /\ (web' = web \/ \E sets : web' = [web EXCEPT ![r].sets = sets])
        BY <2>1, <2>5, Working, Delivering, Resetting, Ending DEF Handle
      <4>2. \A q \in Req \ {r} : pc'[q] = pc[q]
        BY <2>1, <2>5, WebOthersStay
      <4>3. \A q \in Req \ {r} : web'[q] = web[q]
        BY <2>1, <4>1 DEF JarTypeOK
      <4> QED
        BY <4>1, <4>2, <4>3
    <3>2. web'[r].browser = web[r].browser
      <4>1. web' = web \/ \E sets : web' = [web EXCEPT ![r].sets = sets]
        BY <2>1, <2>5, Working, Delivering, Resetting, Ending DEF Handle
      <4>2. \A sets : [web EXCEPT ![r].sets = sets][r].browser = web[r].browser
        BY <2>1 DEF JarTypeOK
      <4> QED
        BY <4>1, <4>2
    <3>3. CASE web[r].browser = b
      <4>1. ~Deliver(r)
        BY <1>1, <2>1, <3>3, Delivering DEF SignedOut, Issuing
      <4>2. Work(r) \/ DeliverReset(r) \/ EndAll(r)
        BY <2>5, <4>1 DEF Handle
      <4>3. web'[r].sets \in {web[r].sets, Clear}
        BY <2>1, <4>2, Working, Resetting, Ending DEF JarTypeOK
      <4>4. pc'[r] \notin Issuing
        BY <1>1, <2>1, <3>3, <4>2, WorkIssuesNothingNew DEF SignedOut
      <4> QED
        BY <1>1, <3>1, <3>3, <4>3, <4>4 DEF SignedOut
    <3>4. CASE web[r].browser # b
      BY <1>1, <3>1, <3>2, <3>4 DEF SignedOut
    <3> QED
      BY <3>3, <3>4
  <2>6. ASSUME NEW r \in Req, Land(r) \/ LoseReply(r) PROVE SignedOut(b)'
    <3>1. /\ pc' = pc /\ web' = [web EXCEPT ![r] = NoWeb]
          /\ jar'[b] = jar[b] \/ jar'[b] = None
             \/ (b = web[r].browser /\ jar'[b] = web[r].sets /\ web[r].sets \in handed)
      BY <2>1, <2>6, Receiving DEF vars
    <3>2. jar'[b] = None
      BY <1>1, <2>2, <3>1 DEF SignedOut
    <3>3. \A q \in Req : web'[q].browser = b => web'[q] = web[q]
      BY <2>2, <3>1 DEF NoWeb
    <3> QED
      BY <1>1, <3>1, <3>2, <3>3 DEF SignedOut
  <2> QED
    BY <1>1, <2>3, <2>4, <2>5, <2>6
    DEF WebNext, WebTick, Tick, webVars, vars
<1>2. WebInv /\ [WebNext]_webVars =>
        [\A b \in Browser : SignedOut(b) =>
           \/ SignedOut(b)'
           \/ \E r \in Req, u \in User :
                LoginUser(r, u, password[u]) /\ web'[r].browser = b]_webVars
  BY <1>1
<1> QED
  BY <1>2, WebInvariance, PTL DEF WebSpec, OnlyLoginSignsIn

\* What LogoutRevokes wants of the service the browsers do themselves: once no
\* jar holds a token, no reply brings it and no handler is about to deliver it,
\* no browser has it again, although its row may stay active. The exception is a
\* sign-in to its account that finishes in the very second of its issue and so
\* makes the same text anew.
Forgotten(t) ==
  /\ \A b \in Browser : jar[b] # t
  /\ \A r \in Req : web[r].sets # t /\ ~(pc[r] = "store" /\ job[r].issued = t)

\* A step of one handler brings a token to the point of delivery only by signing.
LEMMA OnlySigningIssues ==
  ASSUME TypeOK, NEW r \in Req, Arrive(r) \/ Proceed(r), pc'[r] = "store"
  PROVE  SignTokens(r) /\ job'[r].issued = [sub |-> job[r].user, iat |-> now]
<1> USE DEF TypeOK, Begin, Continue, Answer
<1>1. SignTokens(r)
  BY DEF Arrive, Proceed, LoginWithOAuth, LogoutWithoutToken, GetRefreshToken, LogoutUser, ForgotPassword,
     LoginUser, DeleteAccount, GetPasswordResetToken, ChangePassword, CreateRefreshToken,
     FindTokenOwner, RevokeOldToken, CreatePasswordResetToken, CheckNewPassword, ApplyReset,
     MarkPasswordResetTokenAsUsed, DropSessionCookie, SetPassword, RevokeAllRefreshTokens,
     EndSessions, DeleteUser
<1>2. job[r] \in Job
  OBVIOUS
<1> QED
  BY <1>1, <1>2 DEF SignTokens, Job

THEOREM ForgottenTokensStayForgotten ==
  WebSpec => [][\A t \in Token : Forgotten(t) =>
                  \/ Forgotten(t)'
                  \/ \E r \in Req : SignTokens(r) /\ job[r].user = t.sub /\ now = t.iat]_webVars
<1>1. ASSUME WebInv, [WebNext]_webVars, NEW t \in Token, Forgotten(t),
             \A r \in Req : ~(SignTokens(r) /\ job[r].user = t.sub /\ now = t.iat)
      PROVE  Forgotten(t)'
  <2>1. TypeOK /\ JarTypeOK /\ (\A r \in Req : InFlight(r))
    BY <1>1 DEF WebInv, IInv, TablesMatchRequests
  <2>2. t \notin {Keep, Clear, None}
    BY WebAssumption, SessionsAssumption
  <2>3. CASE UNCHANGED <<pc, job, jar, web>>
    BY <1>1, <2>3 DEF Forgotten
  <2>4. ASSUME NEW r \in Req, Arrive(r) \/ Proceed(r)
        PROVE  \A q \in Req : ~(pc'[q] = "store" /\ job'[q].issued = t)
    <3>1. ~(pc'[r] = "store" /\ job'[r].issued = t)
      <4> SUFFICES ASSUME pc'[r] = "store", job'[r].issued = t PROVE FALSE
        OBVIOUS
      <4>1. SignTokens(r) /\ t = [sub |-> job[r].user, iat |-> now]
        BY <2>1, <2>4, OnlySigningIssues
      <4>2. job[r].user = t.sub /\ now = t.iat
        BY <4>1
      <4> QED
        BY <1>1, <4>1, <4>2
    <3>2. \A q \in Req \ {r} : pc'[q] = pc[q] /\ job'[q].issued = job[q].issued
      BY <2>1, <2>4, OthersStay
    <3> QED
      BY <1>1, <3>1, <3>2 DEF Forgotten
  <2>5. ASSUME NEW r \in Req, NEW c \in Browser,
               SendPlain(r, c) \/ SendRefresh(r, c) \/ SendLogout(r, c) \/ SendSigned(r, c)
        PROVE  Forgotten(t)'
    <3>1. jar' = jar /\ \A q \in Req : web'[q].sets # t
      BY <1>1, <2>1, <2>2, <2>5, Sending DEF JarTypeOK, Forgotten
    <3> QED
      BY <1>1, <2>1, <2>4, <2>5, <3>1, SendingIsArriving DEF Forgotten
  <2>6. ASSUME NEW r \in Req, Handle(r) PROVE Forgotten(t)'
    <3>1. jar' = jar /\ \A q \in Req : web'[q].sets # t
      <4>1. CASE Deliver(r)
        <5>1. job[r].issued # t
          BY <1>1, <2>1, <4>1, Delivering DEF Forgotten
        <5> QED
          BY <1>1, <2>1, <4>1, <5>1, Delivering DEF JarTypeOK, Forgotten
      <4>2. CASE DeliverReset(r)
        BY <1>1, <2>1, <2>2, <4>2, Resetting DEF JarTypeOK, Forgotten
      <4>3. CASE Work(r) \/ EndAll(r)
        BY <1>1, <2>1, <4>3, Working, Ending DEF Forgotten
      <4> QED
        BY <2>6, <4>1, <4>2, <4>3 DEF Handle
    <3> QED
      BY <1>1, <2>4, <2>6, <3>1, HandlingIsProceeding DEF Forgotten
  <2>7. ASSUME NEW r \in Req, Land(r) \/ LoseReply(r) PROVE Forgotten(t)'
    <3>1. /\ UNCHANGED <<pc, job>> /\ web' = [web EXCEPT ![r] = NoWeb]
          /\ \A b \in Browser : jar'[b] \in {jar[b], None, web[r].sets}
      BY <2>1, <2>7, Receiving DEF vars
    <3>2. \A q \in Req : web'[q].sets # t
      BY <1>1, <2>1, <2>2, <3>1 DEF NoWeb, JarTypeOK, Forgotten
    <3> QED
      BY <1>1, <2>2, <3>1, <3>2 DEF Forgotten
  <2> QED
    BY <1>1, <2>3, <2>5, <2>6, <2>7 DEF WebNext, WebTick, Tick, webVars, vars
<1>2. WebInv /\ [WebNext]_webVars =>
        [\A t \in Token : Forgotten(t) =>
           \/ Forgotten(t)'
           \/ \E r \in Req : SignTokens(r) /\ job[r].user = t.sub /\ now = t.iat]_webVars
  BY <1>1
<1> QED
  BY <1>2, WebInvariance, PTL DEF WebSpec
=============================================================================
