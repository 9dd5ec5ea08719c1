------------------------------ MODULE WebClient ------------------------------
(***************************************************************************)
(* Sessions as browsers use it ("le web utilise les cookies", README.md):  *)
(* a login or a refresh leaves the pair of tokens in two HttpOnly cookies  *)
(* (controllers/auth_controller.go), which the browser adds to what it     *)
(* sends by their path and replaces as replies arrive, in any order.       *)
(*                                                                         *)
(* Every request is one of Sessions, made by a browser; several tabs may   *)
(* send some at once. The two cookies are set and cleared together, so a   *)
(* jar is the token they are the two halves of. A sign-in with an external *)
(* identity is not one of these requests: its pair goes to the page, in    *)
(* the fragment of a URL (controllers/oauth_controller.go), and no cookie. *)
(***************************************************************************)
EXTENDS Sessions

CONSTANTS
  Browser,
  Keep, Clear,  \* a reply without cookies, a reply that clears them
  AccessTTL     \* lifetime of the access half

ASSUME WebAssumption ==
  /\ AccessTTL \in Nat /\ None \notin Browser /\ Keep # Clear
  /\ {Keep, Clear} \cap (Token \cup {None}) = {}

VARIABLES
  jar,     \* the pair of cookies of each browser
  web,     \* the browser a request or its reply belongs to, and its cookies
  excused  \* tokens whose session may have ended behind the browser's back

webVars == <<vars, jar, web, excused>>

NoWeb == [browser |-> None, sets |-> Keep]
Busy(b) == \E r \in Req : web[r].browser = b

\* auth_token has the path /, refresh_token the path /api/auth/refresh.
RefreshCookie(b, route) == IF route = "/api/auth/refresh" THEN jar[b] ELSE None
AccessCookie(b) == IF jar[b] # None /\ now < jar[b].iat + AccessTTL THEN jar[b] ELSE None

WebInit ==
  /\ Init
  /\ jar = [b \in Browser |-> None]
  /\ web = [r \in Req |-> NoWeb]
  /\ excused = {}

(***************************************************************************)
(* Requests, with the cookies their reply comes with.                      *)
(***************************************************************************)
Send(r, b, sets) ==
  /\ web[r] = NoWeb
  /\ web' = [web EXCEPT ![r] = [browser |-> b, sets |-> sets]]
  /\ UNCHANGED <<jar, excused>>

SendPlain(r, b) ==
  /\ Send(r, b, Keep)
  /\ \/ \E u \in User, p \in Password : LoginUser(r, u, p)
     \/ \E u \in User : ForgotPassword(r, u)
     \/ \E k \in Key, p \in Password : GetPasswordResetToken(r, k, p)

SendRefresh(r, b) ==
  /\ Send(r, b, Keep)
  /\ \E t \in {RefreshCookie(b, "/api/auth/refresh")} \ {None} : GetRefreshToken(r, t)

SendLogout(r, b) ==
  LET t == RefreshCookie(b, "/api/auth/logout") IN
  /\ Send(r, b, Clear)
  /\ IF t = None THEN LogoutWithoutToken(r) ELSE LogoutUser(r, t)

SendSigned(r, b) ==
  /\ Send(r, b, Keep)
  /\ \E t \in {AccessCookie(b)} \ {None}, p, q \in Password :
       ChangePassword(r, t.sub, p, q) \/ DeleteAccount(r, t.sub, p)

(***************************************************************************)
(* Replies.                                                                *)
(***************************************************************************)
SetCookies(r, sets) == web' = [web EXCEPT ![r].sets = sets]

\* Mutant: the cookies are set from the token the request came with.
DeliverOld(r) ==
  /\ CreateRefreshToken(r)
  /\ SetCookies(r, job[r].token)
  /\ UNCHANGED <<jar, excused>>

\* Login and Refresh deliver the pair, whatever became of its row. A text that
\* was delivered before may have been used up elsewhere.
Deliver(r) ==
  /\ CreateRefreshToken(r)
  /\ SetCookies(r, job[r].issued)
  /\ excused' = excused \cup ({job[r].issued} \cap handed)
  /\ UNCHANGED jar

\* Mutant: a reset signs the browser in.
DeliverResetSigningIn(r) ==
  /\ pc[r] = "dropCookie"
  /\ Begin(r, "sign", JobOf(job[r].user))
  /\ spent' = spent \cup {job[r].key}
  /\ SetCookies(r, Clear)
  /\ UNCHANGED <<now, database, handed, retired, swallowed, faults, jar, excused>>

\* The end of ResetPassword, which no refresh cookie comes with.
DeliverReset(r) ==
  /\ RefreshCookie(web[r].browser, "/api/auth/reset-password") = None
  /\ UNCHANGED <<rt, retired>>
  /\ DropSessionCookie(r)
  /\ SetCookies(r, Clear)
  /\ UNCHANGED <<jar, excused>>

\* A change of password or a deletion ends the sessions of its account.
EndAll(r) ==
  /\ RevokeAllRefreshTokens(r) \/ EndSessions(r)
  /\ excused' = excused \cup {t \in TokensOf(job[r].user) : rt[t] = "active"}
  /\ UNCHANGED <<jar, web>>

Work(r) ==
  /\ \/ SignTokens(r) \/ FindTokenOwner(r) \/ RevokeOldToken(r) \/ CreatePasswordResetToken(r)
     \/ CheckNewPassword(r) \/ ApplyReset(r) \/ MarkPasswordResetTokenAsUsed(r)
     \/ SetPassword(r) \/ DeleteUser(r)
  /\ UNCHANGED <<jar, web, excused>>

Handle(r) == Work(r) \/ Deliver(r) \/ DeliverReset(r) \/ EndAll(r)

Receive(r, change) ==
  /\ web[r] # NoWeb /\ Free(r)
  /\ change
  /\ web' = [web EXCEPT ![r] = NoWeb]
  /\ UNCHANGED <<vars, excused>>

\* Mutant: the cookie of a refresh is set under another path, and the browser
\* goes on sending the one it has.
LandBeside(r) ==
  LET b == web[r].browser IN
  Receive(r, jar' = [jar EXCEPT ![b] =
    CASE web[r].sets = Keep -> @ [] web[r].sets = Clear -> None
      [] OTHER -> IF @ = None THEN web[r].sets ELSE @])

Land(r) ==
  LET b == web[r].browser IN
  Receive(r, jar' = [jar EXCEPT ![b] =
    CASE web[r].sets = Keep -> @ [] web[r].sets = Clear -> None [] OTHER -> web[r].sets])

\* The reply is lost: the browser still has what a refresh has used up.
LoseReply(r) ==
  /\ web[r] # NoWeb /\ Free(r)
  /\ web' = [web EXCEPT ![r] = NoWeb]
  /\ excused' = excused \cup ({jar[web[r].browser]} \cap Token)
  /\ UNCHANGED <<vars, jar>>

WebTick == Tick /\ UNCHANGED <<jar, web, excused>>

\* Failed calls and crashes are the business of Sessions.
WebNext ==
  \/ WebTick
  \/ \E r \in Req : \/ \E b \in Browser : \/ SendPlain(r, b) \/ SendRefresh(r, b)
                                          \/ SendLogout(r, b) \/ SendSigned(r, b)
                    \/ Handle(r) \/ Land(r) \/ LoseReply(r)

WebSpec == WebInit /\ [][WebNext]_webVars

\* Go runs every handler that can run. Nothing is assumed of the network.
WebFairSpec == WebSpec /\ \A r \in Req : WF_webVars(Handle(r))

(***************************************************************************)
(* Properties.                                                             *)
(***************************************************************************)
\* The type of every variable; cookies hold tokens that were delivered.
JarTypeOK ==
  /\ jar \in [Browser -> handed \cup {None}]
  /\ web \in [Req -> [browser : Browser \cup {None}, sets : handed \cup {Keep, Clear}]]
  /\ excused \subseteq Token

\* Nobody is signed out by accident. Whatever the tabs of a browser sent at once
\* and in whatever order the replies came, once they are there the cookie left
\* is one that serves. It may be dead only because its account ended all its
\* sessions, the reply that replaced it was lost, or its text was issued twice.
CookieServes ==
  \A b \in Browser : ~Busy(b) /\ jar[b] # None /\ jar[b] \notin excused /\ faults = 0
    => rt[jar[b]] = "active"

\* The browser has no cookie, and none is on its way or being made for it.
SignedOut(b) ==
  /\ jar[b] = None
  /\ \A r \in Req : web[r].browser = b => web[r].sets \in {Keep, Clear} /\ pc[r] \notin Issuing

\* A logout clears the cookies, and a refresh that overlaps it may bring them
\* back. Once no login or refresh of the browser is under way and no reply with
\* cookies is, it stays signed out, whatever else its tabs or others do, until
\* somebody logs in on it with the password of an account.
OnlyLoginSignsIn ==
  [][\A b \in Browser : SignedOut(b) =>
       \/ SignedOut(b)'
       \/ \E r \in Req, u \in User :
            LoginUser(r, u, password[u]) /\ web'[r].browser = b]_webVars

\* Every request of a browser is answered, whatever the others do.
EveryRequestIsAnswered == \A r \in Req : ~Free(r) ~> Free(r)

(***************************************************************************)
(* What the documentation says and the code does not do.                   *)
(***************************************************************************)
\* README.md:54, "Déconnexion avec révocation du jeton de rafraîchissement": when
\* a browser logs out, the token in its cookie serves no more.
LogoutRevokes ==
  [][\A r \in Req, b \in Browser : SendLogout(r, b) /\ jar[b] # None
       => rt'[jar[b]] # "active"]_webVars
=============================================================================
