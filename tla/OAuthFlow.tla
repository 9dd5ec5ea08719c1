----------------------------- MODULE OAuthFlow -----------------------------
(***************************************************************************)
(* The redirect flow of a sign-in with an external provider: Start leaves  *)
(* a state in a cookie, the provider sends the browser back to Callback,   *)
(* which compares the two, exchanges the code for a profile and logs in    *)
(* (controllers/oauth_controller.go, services/oauth_providers.go).         *)
(*                                                                         *)
(* The server keeps nothing between the two requests: what it knows of a   *)
(* flow is the cookie. Replies take effect on the cookies of a browser     *)
(* when they land there, in any order, or get lost. The URL a provider     *)
(* redirects to may be opened again, by several requests at once, in       *)
(* another browser and under the path of another provider. Which address a *)
(* profile has, whether it is certified, and what happens to it is left to *)
(* module Onboarding, which takes any.                                     *)
(***************************************************************************)
EXTENDS Naturals

CONSTANTS
  Browser, Provider, Req, None,
  Enabled,  \* providers whose client id and secret are set
  State,    \* states randomState may draw
  Code,     \* authorization codes
  Denied    \* what comes with error= instead of a code

\* A code is of the flow it was given in, and of its provider.
Grant == [state : State, spent : BOOLEAN]

ASSUME OAuthAssumption ==
  /\ Enabled \subseteq Provider
  /\ None \notin Browser \cup Provider \cup State \cup Code \cup Grant \cup {Denied}
  /\ Denied \notin Code

VARIABLES
  jar,        \* the cookie oauth_state of each browser
  flow,       \* who began with a state, where, and how far the reply is
  grant,      \* the flow a code was given in, and whether it has served
  pc, job,    \* the step, or the reply under way, of each Callback
  overtaken,  \* states whose browser began or finished something else since
  answered,   \* states whose Callback was answered
  entered     \* codes that signed somebody in

server == <<pc, job>>
ghosts == <<overtaken, answered, entered>>
vars   == <<jar, flow, grant, server, ghosts>>

(***************************************************************************)
(* The browser and the provider.                                           *)
(***************************************************************************)
Fresh == [browser |-> None, provider |-> None, place |-> "fresh"]
StatesOf(b) == {s \in State : flow[s].browser = b}

\* Past the comparison, Callback clears the cookie with whatever it replies.
Working == {"exchange", "userinfo", "login"}
Clearing == {"code_manquant", "failed", "signedIn"}
Replies == Clearing \cup {"denied", "state_invalide"}
Passed == Working \cup Clearing
NoJob == [browser |-> None, state |-> None, provider |-> None, code |-> None]

\* A Set-Cookie of some reply is still to come to the browser.
Expecting(b) ==
  \/ \E s \in StatesOf(b) : flow[s].place = "coming"
  \/ \E r \in Req : job[r].browser = b /\ pc[r] \in Passed

Init ==
  /\ jar = [b \in Browser |-> None]
  /\ flow = [s \in State |-> Fresh]
  /\ grant = [k \in Code |-> None]
  /\ pc = [r \in Req |-> "idle"]
  /\ job = [r \in Req |-> NoJob]
  /\ overtaken = {} /\ answered = {} /\ entered = {}

(***************************************************************************)
(* Start.                                                                  *)
(***************************************************************************)
IsEnabled(p) == p \in Enabled

Start(b, p) ==
  /\ IsEnabled(p)
  /\ \E s \in State :
       /\ flow[s] = Fresh
       /\ flow' = [flow EXCEPT ![s] = [browser |-> b, provider |-> p, place |-> "coming"]]
       /\ overtaken' = overtaken \cup StatesOf(b) \cup IF Expecting(b) THEN {s} ELSE {}
  /\ UNCHANGED <<jar, grant, server, answered, entered>>

\* The reply sets the cookie and sends the browser to the provider, or is lost.
LandStart(s) ==
  /\ flow[s].place = "coming"
  /\ \/ /\ jar' = [jar EXCEPT ![flow[s].browser] = s]
        /\ flow' = [flow EXCEPT ![s].place = "away"]
     \/ flow' = [flow EXCEPT ![s].place = "lost"] /\ UNCHANGED jar
  /\ UNCHANGED <<grant, server, ghosts>>

(***************************************************************************)
(* At the provider, whose page the user may go back to.                    *)
(***************************************************************************)
Consent(s, k) ==
  /\ flow[s].place = "away" /\ grant[k] = None
  /\ grant' = [grant EXCEPT ![k] = [state |-> s, spent |-> FALSE]]
  /\ UNCHANGED <<jar, flow, server, ghosts>>

\* The URLs of Callback that providers redirected to, or may: with the code of a
\* consent, with an error, or with neither. The handler takes the provider from
\* the path and compares it with nothing.
Links ==
  {l \in [state : State, provider : Provider, code : Code \cup {Denied, None}] :
     /\ flow[l.state].place = "away"
     /\ l.code \in Code => grant[l.code] # None /\ grant[l.code].state = l.state}

Expire(b) ==
  /\ jar[b] # None
  /\ jar' = [jar EXCEPT ![b] = None]
  /\ overtaken' = overtaken \cup {jar[b]}
  /\ UNCHANGED <<flow, grant, server, answered, entered>>

(***************************************************************************)
(* Callback.                                                               *)
(***************************************************************************)
Take(r, b, l, stage) ==
  /\ pc[r] = "idle"
  /\ pc' = [pc EXCEPT ![r] = stage]
  /\ job' = [job EXCEPT ![r] =
       [browser |-> b, state |-> l.state, provider |-> l.provider, code |-> l.code]]

Reach(r, to) == pc' = [pc EXCEPT ![r] = to]

\* Mutant: a missing code is not looked for.
CallbackWithoutCode(r, b, l) ==
  /\ l.code # Denied /\ jar[b] = l.state
  /\ Take(r, b, l, "exchange")
  /\ overtaken' = overtaken \cup StatesOf(b)
  /\ UNCHANGED <<jar, flow, grant, answered, entered>>

\* Mutant: any cookie will do.
CallbackUncompared(r, b, l) ==
  /\ l.code # Denied /\ jar[b] # None
  /\ Take(r, b, l, IF l.code = None THEN "code_manquant" ELSE "exchange")
  /\ overtaken' = overtaken \cup StatesOf(b)
  /\ UNCHANGED <<jar, flow, grant, answered, entered>>

Callback(r, b, l) ==
  /\ \/ l.code = Denied /\ Take(r, b, l, "denied") /\ UNCHANGED overtaken
     \/ /\ l.code # Denied /\ jar[b] # l.state
        /\ Take(r, b, l, "state_invalide")
        /\ UNCHANGED overtaken
     \/ /\ l.code # Denied /\ jar[b] = l.state
        /\ Take(r, b, l, IF l.code = None THEN "code_manquant" ELSE "exchange")
        /\ overtaken' = overtaken \cup StatesOf(b)
  /\ UNCHANGED <<jar, flow, grant, answered, entered>>

\* The provider in the path is configured and is the one that gave the code.
Redeems(r) ==
  IsEnabled(job[r].provider) /\ job[r].provider = flow[job[r].state].provider

\* Mutant: neither token.Error nor a missing access token ends the exchange.
PostFormUnread(r) ==
  /\ pc[r] = "exchange"
  /\ Reach(r, "userinfo")
  /\ grant' = [grant EXCEPT ![job[r].code].spent = @ \/ Redeems(r)]
  /\ UNCHANGED <<jar, flow, job, ghosts>>

\* A code serves once. After 10 s, or an answer that is none, the exchange has
\* failed, whether the provider took the code or not.
PostForm(r) ==
  LET k == job[r].code IN
  /\ pc[r] = "exchange"
  /\ \/ /\ Redeems(r) /\ ~grant[k].spent
        /\ Reach(r, "userinfo")
        /\ grant' = [grant EXCEPT ![k].spent = TRUE]
     \/ /\ Reach(r, "failed")
        /\ \E taken \in {FALSE, Redeems(r)} :
             grant' = [grant EXCEPT ![k].spent = @ \/ taken]
  /\ UNCHANGED <<jar, flow, job, ghosts>>

\* The profile, with what the identity token of the first answer adds to it; an
\* answer without a subject or any address is a failure.
FetchUserInfo(r) ==
  /\ pc[r] = "userinfo"
  /\ Reach(r, "login") \/ Reach(r, "failed")
  /\ UNCHANGED <<jar, flow, grant, job, ghosts>>

LoginWithOAuth(r) ==
  /\ pc[r] = "login"
  /\ \/ Reach(r, "signedIn") /\ entered' = entered \cup {job[r].code}
     \/ Reach(r, "failed") /\ UNCHANGED entered
  /\ UNCHANGED <<jar, flow, grant, job, overtaken, answered>>

Done(r) ==
  /\ pc' = [pc EXCEPT ![r] = "idle"]
  /\ job' = [job EXCEPT ![r] = NoJob]

\* Mutant: no SetCookie after the comparison.
LandKeepingCookie(r) ==
  /\ pc[r] \in Replies
  /\ answered' = IF pc[r] \in Clearing THEN answered \cup {job[r].state} ELSE answered
  /\ Done(r)
  /\ UNCHANGED <<jar, flow, grant, overtaken, entered>>

\* Mutant: the cookie is cleared before anything is looked at.
LandClearingAlways(r) ==
  /\ pc[r] \in Replies
  /\ jar' = [jar EXCEPT ![job[r].browser] = None]
  /\ Done(r)
  /\ UNCHANGED <<flow, grant, ghosts>>

\* The reply reaches the browser.
Land(r) ==
  /\ pc[r] \in Replies
  /\ IF pc[r] \in Clearing
       THEN /\ jar' = [jar EXCEPT ![job[r].browser] = None]
            /\ answered' = answered \cup {job[r].state}
       ELSE UNCHANGED <<jar, answered>>
  /\ Done(r)
  /\ UNCHANGED <<flow, grant, overtaken, entered>>

\* The pod dies, or the reply is lost.
Lose(r) ==
  /\ pc[r] # "idle"
  /\ Done(r)
  /\ UNCHANGED <<jar, flow, grant, ghosts>>

Proceed(r) == PostForm(r) \/ FetchUserInfo(r) \/ LoginWithOAuth(r) \/ Land(r)

Next ==
  \/ \E b \in Browser : Expire(b) \/ \E p \in Provider : Start(b, p)
  \/ \E s \in State : LandStart(s) \/ \E k \in Code : Consent(s, k)
  \/ \E r \in Req : \/ \E b \in Browser, l \in Links : Callback(r, b, l)
                    \/ Proceed(r) \/ Lose(r)

Spec == Init /\ [][Next]_vars

(***************************************************************************)
(* Properties.                                                             *)
(***************************************************************************)
\* The type of every variable; a Callback at work has a code to exchange.
OAuthTypeOK ==
  /\ jar \in [Browser -> State \cup {None}]
  /\ flow \in [State -> [browser : Browser \cup {None}, provider : Provider \cup {None},
                         place : {"fresh", "coming", "away", "lost"}]]
  /\ grant \in [Code -> Grant \cup {None}]
  /\ pc \in [Req -> {"idle"} \cup Working \cup Replies]
  /\ job \in [Req -> [browser : Browser \cup {None}, state : State \cup {None},
                      provider : Provider \cup {None}, code : Code \cup {Denied, None}]]
  /\ \A r \in Req : pc[r] \in Working => job[r].code \in Code
  /\ overtaken \subseteq State /\ answered \subseteq State /\ entered \subseteq Code

\* A sign-in ends in the browser it began in, wherever the URL was opened: what
\* the state is for.
SignedInWhereBegun ==
  \A r \in Req : pc[r] = "signedIn" => flow[job[r].state].browser = job[r].browser

\* However often the URL of a Callback is opened, at once or later, in whatever
\* browser, under whatever path, and after timeouts that struck when the provider
\* had taken the code or had not: a code signs in once, and as an identity of the
\* provider its flow began with. The server remembers neither code nor state.
CodeSignsInOnce ==
  [][\A r \in Req : pc[r] # "signedIn" /\ pc'[r] = "signedIn" =>
       /\ job[r].code \notin entered
       /\ job[r].provider = flow[job[r].state].provider]_vars

\* A flow is refused in its own browser only because that browser began another,
\* or finished this one, or because its ten minutes are over. To decline and to
\* think better of it, or to open the URL elsewhere first, costs nothing.
RefusedForAReason ==
  [][\A r \in Req : LET s == job'[r].state IN
       pc[r] = "idle" /\ pc'[r] = "state_invalide" /\ flow[s].browser = job'[r].browser
         => s \in overtaken]_vars

\* "Un state ne sert qu'une fois" (oauth_controller.go:93): once the reply is
\* there, its state takes no Callback past the comparison. Two that were sent
\* before may both pass.
AnsweredStateIsDead ==
  [][\A r \in Req : pc[r] = "idle" /\ pc'[r] \in Passed => job'[r].state \notin answered]_vars
=============================================================================
