-------------------------- MODULE OAuthFlowProofs --------------------------
(***************************************************************************)
(* Theorems about OAuthFlow, for all sets of browsers, providers, states,  *)
(* codes and requests. The invariant says of each variable which flows it  *)
(* may hold: the cookie and the Callbacks are where their flow began, and a*)
(* flow nothing overtook is alone in its browser, cookie included.         *)
(***************************************************************************)
EXTENDS OAuthFlow, TLAPS

\* A state is drawn with the browser and the provider of its flow.
FlowsHaveOrigin ==
  \A s \in State : flow[s] # Fresh =>
    flow[s].browser \in Browser /\ flow[s].provider \in Provider /\ flow[s].place # "fresh"

\* A cookie is that of a flow begun in its browser and not answered yet.
CookiesAreOpen ==
  \A b \in Browser : jar[b] # None =>
    /\ flow[jar[b]].place = "away" /\ flow[jar[b]].browser = b
    /\ jar[b] \notin answered

\* A code is given in a flow whose browser is at the provider.
GrantsHaveFlow ==
  \A k \in Code : grant[k] # None => flow[grant[k].state].place = "away"

\* Past the exchange, and not refused.
Exchanged == {"userinfo", "login", "signedIn"}

\* A Callback past the comparison is in the browser of its flow, and its code
\* was given in that flow; past the exchange, by the provider of its path.
CallbackFollows(r) ==
  /\ pc[r] = "idle" <=> job[r] = NoJob
  /\ pc[r] # "idle" =>
       job[r].browser \in Browser /\ job[r].state \in State /\ flow[job[r].state].place = "away"
  /\ pc[r] \in Passed =>
       flow[job[r].state].browser = job[r].browser /\ job[r].state \in overtaken
  /\ pc[r] \in Working => job[r].code \in Code /\ grant[job[r].code] # None
                          /\ grant[job[r].code].state = job[r].state
  /\ pc[r] \in Exchanged => Redeems(r)

CallbacksFollow == \A r \in Req : CallbackFollows(r)

AnsweredWereAway == \A s \in answered : flow[s].place = "away"

\* A flow that nothing overtook is the only thing its browser is at.
AloneInBrowser(s) ==
  /\ flow[s].place = "away" => jar[flow[s].browser] = s
  /\ \A t \in State \ {s} : flow[t].browser = flow[s].browser => flow[t].place # "coming"
  /\ \A r \in Req : pc[r] \in Passed => job[r].browser # flow[s].browser

FlowsAreAlone ==
  \A s \in State \ overtaken : flow[s].place \in {"coming", "away"} => AloneInBrowser(s)

FlowInv ==
  /\ OAuthTypeOK /\ FlowsHaveOrigin /\ CookiesAreOpen /\ GrantsHaveFlow
  /\ CallbacksFollow /\ AnsweredWereAway /\ FlowsAreAlone

LEMMA OAuthStart == Init => FlowInv
BY OAuthAssumption
DEF Init, FlowInv, OAuthTypeOK, FlowsHaveOrigin, CookiesAreOpen, GrantsHaveFlow, CallbacksFollow,
    CallbackFollows, AnsweredWereAway, FlowsAreAlone, Fresh, NoJob, Working, Clearing, Replies, Passed, Exchanged

LEMMA StartKeeps ==
  ASSUME FlowInv, NEW b \in Browser, NEW p \in Provider, Start(b, p)
  PROVE  FlowInv'
<1> USE OAuthAssumption DEF FlowInv, OAuthTypeOK, Start, IsEnabled, Expecting, StatesOf, server
<1>1. OAuthTypeOK'
  BY DEF Fresh, NoJob, Working, Clearing, Replies, Passed
<1>2. FlowsHaveOrigin'
  BY DEF FlowsHaveOrigin, Fresh
<1>3. CookiesAreOpen'
  BY DEF CookiesAreOpen, AnsweredWereAway, FlowsHaveOrigin, CallbacksFollow, CallbackFollows, Passed, Fresh
<1>4. GrantsHaveFlow'
  BY DEF GrantsHaveFlow, Fresh
<1>5. CallbacksFollow'
  BY DEF CallbacksFollow, CallbackFollows, NoJob, Working, Clearing, Replies, Passed, Redeems, Exchanged, GrantsHaveFlow, CookiesAreOpen, Fresh
<1>6. AnsweredWereAway'
  BY DEF AnsweredWereAway, CallbacksFollow, CallbackFollows, Fresh, Clearing, Passed
<1>7. FlowsAreAlone'
  BY DEF FlowsAreAlone, AloneInBrowser, Fresh, NoJob, Working, Clearing, Replies, Passed, FlowsHaveOrigin, CallbacksFollow, CallbackFollows
<1> QED
  BY <1>1, <1>2, <1>3, <1>4, <1>5, <1>6, <1>7

LEMMA LandStartKeeps ==
  ASSUME FlowInv, NEW s \in State, LandStart(s)
  PROVE  FlowInv'
<1> USE OAuthAssumption DEF FlowInv, OAuthTypeOK, LandStart, server, ghosts
<1>0. /\ flow[s] # Fresh /\ flow[s].browser \in Browser /\ s \notin answered
      /\ \A t \in State : /\ flow'[t].browser = flow[t].browser
                          /\ flow'[t].provider = flow[t].provider
                          /\ t # s => flow'[t] = flow[t]
      /\ flow'[s].place \in {"away", "lost"}
  BY DEF Fresh, FlowsHaveOrigin, AnsweredWereAway
<1>1. OAuthTypeOK'
  <2>1. flow' \in [State -> [browser : Browser \cup {None}, provider : Provider \cup {None},
                            place : {"fresh", "coming", "away", "lost"}]]
    <3>1. PICK place \in {"away", "lost"} : flow' = [flow EXCEPT ![s].place = place]
      OBVIOUS
    <3>2. flow[s] \in [browser : Browser \cup {None}, provider : Provider \cup {None},
                      place : {"fresh", "coming", "away", "lost"}]
      OBVIOUS
    <3> HIDE DEF OAuthTypeOK, FlowInv, LandStart
    <3>3. flow \in [State -> [browser : Browser \cup {None}, provider : Provider \cup {None},
                             place : {"fresh", "coming", "away", "lost"}]]
      BY DEF FlowInv, OAuthTypeOK
    <3> QED
      BY <3>1, <3>2, <3>3
  <2>2. jar' \in [Browser -> State \cup {None}]
    BY <1>0
  <2>3. UNCHANGED <<grant, pc, job, overtaken, answered>>
    OBVIOUS
  <2> QED
    BY <2>1, <2>2, <2>3
<1>2. FlowsHaveOrigin'
  <2>1. \A t \in State \ {s} : flow'[t] # Fresh => flow[t] # Fresh
    BY <1>0
  <2> QED
    BY <1>0, <2>1 DEF FlowsHaveOrigin
<1>3. CookiesAreOpen'
  <2>1. CASE flow'[s].place = "away"
    BY <1>0, <2>1 DEF CookiesAreOpen
  <2>2. CASE flow'[s].place = "lost"
    <3>1. jar' = jar /\ \A b \in Browser : jar[b] # s
      BY <2>2 DEF CookiesAreOpen
    <3> QED
      BY <1>0, <3>1 DEF CookiesAreOpen
  <2> QED
    BY <1>0, <2>1, <2>2
<1>4. GrantsHaveFlow'
  <2>1. ASSUME NEW k \in Code, grant[k] # None
        PROVE  grant[k].state # s /\ grant[k].state \in State
    BY <2>1 DEF GrantsHaveFlow, Grant
  <2> QED
    BY <1>0, <2>1 DEF GrantsHaveFlow
<1>5. CallbacksFollow'
  <2> SUFFICES ASSUME NEW r \in Req PROVE CallbackFollows(r)'
    BY DEF CallbacksFollow
  <2>1. CallbackFollows(r) /\ UNCHANGED <<grant, pc, job, overtaken>>
    BY DEF CallbacksFollow
  <2>2. pc[r] # "idle" => flow'[job[r].state] = flow[job[r].state]
    BY <1>0, <2>1 DEF CallbackFollows
  <2>3. pc[r] \in Passed \cup Exchanged => pc[r] # "idle"
    BY DEF Passed, Working, Clearing, Exchanged, Replies
  <2> HIDE DEF FlowInv, OAuthTypeOK, LandStart
  <2> QED
    BY <2>1, <2>2, <2>3 DEF CallbackFollows, Redeems
<1>6. AnsweredWereAway'
  BY DEF AnsweredWereAway, CallbacksFollow, CallbackFollows, Fresh, Clearing, Passed
<1>7. FlowsAreAlone'
  <2> SUFFICES ASSUME NEW t \in State \ overtaken, flow'[t].place \in {"coming", "away"}
               PROVE  AloneInBrowser(t)'
    BY DEF FlowsAreAlone
  <2>1. flow[t].place \in {"coming", "away"} /\ AloneInBrowser(t)
    BY <1>0 DEF FlowsAreAlone
  <2>2. t # s => flow[t].browser # flow[s].browser
    BY <2>1 DEF AloneInBrowser
  <2>3. flow'[t].place = "away" => jar'[flow'[t].browser] = t
    <3>1. flow[t].browser \in Browser
      BY <2>1 DEF FlowsHaveOrigin, Fresh
    <3> QED
      BY <1>0, <2>1, <2>2, <3>1 DEF AloneInBrowser
  <2>4. \A u \in State : flow'[u].place = "coming" => flow[u].place = "coming"
    BY <1>0
  <2> QED
    BY <1>0, <2>1, <2>3, <2>4 DEF AloneInBrowser, Passed, Working, Clearing
<1> QED
  BY <1>1, <1>2, <1>3, <1>4, <1>5, <1>6, <1>7

LEMMA ConsentKeeps ==
  ASSUME FlowInv, NEW s \in State, NEW k \in Code, Consent(s, k)
  PROVE  FlowInv'
<1> USE OAuthAssumption DEF FlowInv, OAuthTypeOK, Consent, server, ghosts
<1>1. OAuthTypeOK'
  <2>1. [state |-> s, spent |-> FALSE] \in Grant
    BY DEF Grant
  <2>2. grant' \in [Code -> Grant \cup {None}]
    BY <2>1
  <2> QED
    BY <2>2
<1>2. FlowsHaveOrigin'
  BY DEF FlowsHaveOrigin, Fresh
<1>3. CookiesAreOpen'
  BY DEF CookiesAreOpen, AnsweredWereAway, FlowsHaveOrigin, CallbacksFollow, CallbackFollows, Passed, Fresh
<1>4. GrantsHaveFlow'
  BY DEF GrantsHaveFlow, Fresh
<1>5. CallbacksFollow'
  BY DEF CallbacksFollow, CallbackFollows, NoJob, Working, Clearing, Replies, Passed, Redeems, Exchanged, GrantsHaveFlow, CookiesAreOpen, Fresh
<1>6. AnsweredWereAway'
  BY DEF AnsweredWereAway, CallbacksFollow, CallbackFollows, Fresh, Clearing, Passed
<1>7. FlowsAreAlone'
  BY DEF FlowsAreAlone, AloneInBrowser, Fresh, NoJob, Working, Clearing, Replies, Passed, FlowsHaveOrigin, CallbacksFollow, CallbackFollows
<1> QED
  BY <1>1, <1>2, <1>3, <1>4, <1>5, <1>6, <1>7

LEMMA ExpireKeeps ==
  ASSUME FlowInv, NEW b \in Browser, Expire(b)
  PROVE  FlowInv'
<1> USE OAuthAssumption DEF FlowInv, OAuthTypeOK, Expire, server
<1>1. OAuthTypeOK'
  BY DEF Fresh, NoJob, Working, Clearing, Replies, Passed
<1>2. FlowsHaveOrigin'
  BY DEF FlowsHaveOrigin, Fresh
<1>3. CookiesAreOpen'
  BY DEF CookiesAreOpen, AnsweredWereAway, FlowsHaveOrigin, CallbacksFollow, CallbackFollows, Passed, Fresh
<1>4. GrantsHaveFlow'
  BY DEF GrantsHaveFlow, Fresh
<1>5. CallbacksFollow'
  BY DEF CallbacksFollow, CallbackFollows, NoJob, Working, Clearing, Replies, Passed, Redeems, Exchanged, GrantsHaveFlow, CookiesAreOpen, Fresh
<1>6. AnsweredWereAway'
  BY DEF AnsweredWereAway, CallbacksFollow, CallbackFollows, Fresh, Clearing, Passed
<1>7. FlowsAreAlone'
  BY DEF FlowsAreAlone, AloneInBrowser, Fresh, NoJob, Working, Clearing, Replies, Passed, FlowsHaveOrigin, CallbacksFollow, CallbackFollows
<1> QED
  BY <1>1, <1>2, <1>3, <1>4, <1>5, <1>6, <1>7

LEMMA CallbackKeeps ==
  ASSUME FlowInv, NEW r \in Req, NEW b \in Browser, NEW l \in Links, Callback(r, b, l)
  PROVE  FlowInv'
<1> USE OAuthAssumption DEF FlowInv, OAuthTypeOK, Callback, Take, Links, StatesOf
<1>9. PICK stage : Take(r, b, l, stage)
  OBVIOUS
<1>0. /\ l.state \in State /\ l.code \in Code \cup {Denied, None} /\ pc[r] = "idle"
      /\ flow[l.state].place = "away"
      /\ l.code \in Code => grant[l.code] # None /\ grant[l.code].state = l.state
      /\ job'[r].browser = b /\ job'[r].state = l.state /\ job'[r].code = l.code
      /\ job'[r] # NoJob
      /\ \A q \in Req \ {r} : job'[q] = job[q] /\ pc'[q] = pc[q]
  <2>1. job' = [job EXCEPT ![r] = [browser |-> b, state |-> l.state,
                                   provider |-> l.provider, code |-> l.code]]
    BY <1>9
  <2>2. job'[r] = [browser |-> b, state |-> l.state, provider |-> l.provider,
                   code |-> l.code]
        /\ \A q \in Req \ {r} : job'[q] = job[q]
    BY <2>1
  <2>3. job'[r] # NoJob
    BY <2>2 DEF NoJob
  <2>4. pc[r] = "idle" /\ \A q \in Req \ {r} : pc'[q] = pc[q]
    BY <1>9
  <2>5. /\ l.state \in State /\ l.code \in Code \cup {Denied, None}
        /\ flow[l.state].place = "away"
        /\ l.code \in Code => grant[l.code] # None /\ grant[l.code].state = l.state
    OBVIOUS
  <2> QED
    BY <2>2, <2>3, <2>4, <2>5
<1>8. /\ pc'[r] \in {"denied", "state_invalide", "code_manquant", "exchange"}
      /\ pc'[r] = "exchange" => l.code \in Code
      /\ pc'[r] \in Passed => jar[b] = l.state /\ overtaken' = overtaken \cup StatesOf(b)
      /\ overtaken \subseteq overtaken' /\ overtaken' \subseteq State
  BY <1>0 DEF Passed, Working, Clearing
<1>1. OAuthTypeOK'
  <2>1. job' \in [Req -> [browser : Browser \cup {None}, state : State \cup {None},
                         provider : Provider \cup {None}, code : Code \cup {Denied, None}]]
    BY <1>9
  <2>2. pc' \in [Req -> {"idle"} \cup Working \cup Replies]
    <3>1. pc' = [pc EXCEPT ![r] = pc'[r]]
      BY <1>9
    <3>2. pc'[r] \in Working \cup Replies
      BY <1>8 DEF Working, Replies, Clearing
    <3> QED
      BY <3>1, <3>2
  <2>3. \A q \in Req : pc'[q] \in Working => job'[q].code \in Code
    BY <1>0, <1>8 DEF Working
  <2> QED
    BY <1>8, <2>1, <2>2, <2>3
<1>2. FlowsHaveOrigin'
  BY DEF FlowsHaveOrigin, Fresh
<1>3. CookiesAreOpen'
  BY DEF CookiesAreOpen, AnsweredWereAway, FlowsHaveOrigin, CallbacksFollow, CallbackFollows, Passed, Fresh
<1>4. GrantsHaveFlow'
  BY DEF GrantsHaveFlow, Fresh
<1>5. CallbacksFollow'
  <2>1. CallbackFollows(r)'
    <3>1. pc'[r] \in Passed => flow[l.state].browser = b /\ l.state \in overtaken'
      BY <1>0, <1>8 DEF CookiesAreOpen
    <3> QED
      BY <1>0, <1>8, <3>1 DEF CallbackFollows, Working, Exchanged
  <2>2. ASSUME NEW q \in Req \ {r} PROVE CallbackFollows(q)'
    BY <1>0, <1>8 DEF CallbacksFollow, CallbackFollows, Redeems, Exchanged
  <2> QED
    BY <2>1, <2>2 DEF CallbacksFollow
<1>6. AnsweredWereAway'
  BY DEF AnsweredWereAway, CallbacksFollow, CallbackFollows, Fresh, Clearing, Passed
<1>7. FlowsAreAlone'
  <2> SUFFICES ASSUME NEW s \in State \ overtaken', flow[s].place \in {"coming", "away"}
               PROVE  AloneInBrowser(s)'
    BY DEF FlowsAreAlone
  <2>1. AloneInBrowser(s)
    BY <1>8 DEF FlowsAreAlone
  <2>2. pc'[r] \in Passed => flow[s].browser # b
    BY <1>8
  <2> QED
    BY <1>0, <2>1, <2>2 DEF AloneInBrowser
<1> QED
  BY <1>1, <1>2, <1>3, <1>4, <1>5, <1>6, <1>7

LEMMA PostFormKeeps ==
  ASSUME FlowInv, NEW r \in Req, PostForm(r)
  PROVE  FlowInv'
<1> USE OAuthAssumption DEF FlowInv, OAuthTypeOK, PostForm, Reach, ghosts
<1>0. /\ job[r].code \in Code /\ grant[job[r].code] # None
      /\ grant[job[r].code].state = job[r].state
      /\ pc[r] = "exchange" /\ pc'[r] \in {"userinfo", "failed"}
      /\ \A q \in Req \ {r} : pc'[q] = pc[q]
  BY DEF CallbacksFollow, CallbackFollows, Working
<1>8. PICK taken \in BOOLEAN : grant' = [grant EXCEPT ![job[r].code].spent = taken]
  <2>1. grant[job[r].code] \in Grant
    BY <1>0
  <2> QED
    BY <1>0, <2>1 DEF Grant
<1>9. /\ grant' \in [Code -> Grant \cup {None}]
      /\ \A k \in Code : grant[k] # None <=> grant'[k] # None
      /\ \A k \in Code : grant[k] # None => grant'[k].state = grant[k].state
  <2>1. grant[job[r].code] \in Grant
    BY <1>0
  <2>2. [grant[job[r].code] EXCEPT !.spent = taken] \in Grant
        /\ [grant[job[r].code] EXCEPT !.spent = taken].state = grant[job[r].code].state
    BY <2>1 DEF Grant
  <2>3. \A k \in Code : grant'[k] = IF k = job[r].code
                                   THEN [grant[job[r].code] EXCEPT !.spent = taken]
                                   ELSE grant[k]
    BY <1>8
  <2>4. grant' \in [Code -> Grant \cup {None}]
    BY <1>8, <2>2
  <2>5. None \notin Grant
    BY DEF Grant
  <2>6. \A k \in Code : grant[k] # None <=> grant'[k] # None
    BY <1>0, <2>2, <2>3, <2>5
  <2>7. \A k \in Code : grant'[k].state = grant[k].state
    BY <2>2, <2>3
  <2> QED
    BY <2>4, <2>6, <2>7
<1>1. OAuthTypeOK'
  <2>2. /\ pc' \in [Req -> {"idle"} \cup Working \cup Replies]
        /\ \A q \in Req : pc'[q] \in Working => job'[q].code \in Code
    BY <1>0, SMTT(20) DEF Working, Clearing, Replies
  <2> QED
    BY <1>9, <2>2
<1>2. FlowsHaveOrigin'
  BY DEF FlowsHaveOrigin, Fresh
<1>3. CookiesAreOpen'
  BY DEF CookiesAreOpen
<1>4. GrantsHaveFlow'
  BY <1>9 DEF GrantsHaveFlow
<1>5. CallbacksFollow'
  <2>2. ASSUME NEW q \in Req PROVE CallbackFollows(q)'
    BY <1>0, <1>9 DEF CallbacksFollow, CallbackFollows, Redeems, Exchanged, Passed, Working, Clearing
  <2> QED
    BY <2>2 DEF CallbacksFollow
<1>6. AnsweredWereAway'
  BY DEF AnsweredWereAway, CallbacksFollow, CallbackFollows, Fresh, Clearing, Passed
<1>7. FlowsAreAlone'
  BY DEF FlowsAreAlone, AloneInBrowser, Fresh, NoJob, Working, Clearing, Replies, Passed, FlowsHaveOrigin, CallbacksFollow, CallbackFollows
<1> QED
  BY <1>1, <1>2, <1>3, <1>4, <1>5, <1>6, <1>7

LEMMA FetchUserInfoKeeps ==
  ASSUME FlowInv, NEW r \in Req, FetchUserInfo(r)
  PROVE  FlowInv'
<1> USE OAuthAssumption DEF FlowInv, OAuthTypeOK, FetchUserInfo, Reach, ghosts
<1>1. OAuthTypeOK'
  BY DEF Fresh, NoJob, Working, Clearing, Replies, Passed
<1>2. FlowsHaveOrigin'
  BY DEF FlowsHaveOrigin, Fresh
<1>3. CookiesAreOpen'
  BY DEF CookiesAreOpen, AnsweredWereAway, FlowsHaveOrigin, CallbacksFollow, CallbackFollows, Passed, Fresh
<1>4. GrantsHaveFlow'
  BY DEF GrantsHaveFlow, Fresh
<1>5. CallbacksFollow'
  BY DEF CallbacksFollow, CallbackFollows, NoJob, Working, Clearing, Replies, Passed, Redeems, Exchanged, GrantsHaveFlow, CookiesAreOpen, Fresh
<1>6. AnsweredWereAway'
  BY DEF AnsweredWereAway, CallbacksFollow, CallbackFollows, Fresh, Clearing, Passed
<1>7. FlowsAreAlone'
  BY DEF FlowsAreAlone, AloneInBrowser, Fresh, NoJob, Working, Clearing, Replies, Passed, FlowsHaveOrigin, CallbacksFollow, CallbackFollows
<1> QED
  BY <1>1, <1>2, <1>3, <1>4, <1>5, <1>6, <1>7

LEMMA LoginKeeps ==
  ASSUME FlowInv, NEW r \in Req, LoginWithOAuth(r)
  PROVE  FlowInv'
<1> USE OAuthAssumption DEF FlowInv, OAuthTypeOK, LoginWithOAuth, Reach, ghosts
<1>1. OAuthTypeOK'
  BY DEF Fresh, NoJob, Working, Clearing, Replies, Passed
<1>2. FlowsHaveOrigin'
  BY DEF FlowsHaveOrigin, Fresh
<1>3. CookiesAreOpen'
  BY DEF CookiesAreOpen, AnsweredWereAway, FlowsHaveOrigin, CallbacksFollow, CallbackFollows, Passed, Fresh
<1>4. GrantsHaveFlow'
  BY DEF GrantsHaveFlow, Fresh
<1>5. CallbacksFollow'
  BY DEF CallbacksFollow, CallbackFollows, NoJob, Working, Clearing, Replies, Passed, Redeems, Exchanged, GrantsHaveFlow, CookiesAreOpen, Fresh
<1>6. AnsweredWereAway'
  BY DEF AnsweredWereAway, CallbacksFollow, CallbackFollows, Fresh, Clearing, Passed
<1>7. FlowsAreAlone'
  BY DEF FlowsAreAlone, AloneInBrowser, Fresh, NoJob, Working, Clearing, Replies, Passed, FlowsHaveOrigin, CallbacksFollow, CallbackFollows
<1> QED
  BY <1>1, <1>2, <1>3, <1>4, <1>5, <1>6, <1>7

LEMMA LandKeeps ==
  ASSUME FlowInv, NEW r \in Req, Land(r)
  PROVE  FlowInv'
<1> USE OAuthAssumption DEF FlowInv, OAuthTypeOK, Land, Done
<1>1. OAuthTypeOK'
  <2>1. /\ jar' \in [Browser -> State \cup {None}]
        /\ pc' \in [Req -> {"idle"} \cup Working \cup Replies]
        /\ \A q \in Req : pc'[q] \in Working => job'[q].code \in Code
    BY DEF Working
  <2>2. job' \in [Req -> [browser : Browser \cup {None}, state : State \cup {None},
                         provider : Provider \cup {None}, code : Code \cup {Denied, None}]]
    BY DEF NoJob
  <2>3. answered' \subseteq State
    BY DEF CallbacksFollow, CallbackFollows, Replies, Clearing
  <2> QED
    BY <2>1, <2>2, <2>3
<1>2. FlowsHaveOrigin'
  BY DEF FlowsHaveOrigin, Fresh
<1>3. CookiesAreOpen'
  BY SMTT(20) DEF CookiesAreOpen, AnsweredWereAway, FlowsHaveOrigin, CallbacksFollow, CallbackFollows, Passed, Fresh
<1>4. GrantsHaveFlow'
  BY DEF GrantsHaveFlow, Fresh
<1>5. CallbacksFollow'
  BY DEF CallbacksFollow, CallbackFollows, NoJob, Working, Clearing, Replies, Passed, Redeems, Exchanged, GrantsHaveFlow, CookiesAreOpen, Fresh
<1>6. AnsweredWereAway'
  BY DEF AnsweredWereAway, CallbacksFollow, CallbackFollows, Fresh, Clearing, Passed
<1>7. FlowsAreAlone'
  BY DEF FlowsAreAlone, AloneInBrowser, Fresh, NoJob, Working, Clearing, Replies, Passed, FlowsHaveOrigin, CallbacksFollow, CallbackFollows
<1> QED
  BY <1>1, <1>2, <1>3, <1>4, <1>5, <1>6, <1>7

LEMMA LoseKeeps ==
  ASSUME FlowInv, NEW r \in Req, Lose(r)
  PROVE  FlowInv'
<1> USE OAuthAssumption DEF FlowInv, OAuthTypeOK, Lose, Done, ghosts
<1>1. OAuthTypeOK'
  BY DEF Fresh, NoJob, Working, Clearing, Replies, Passed
<1>2. FlowsHaveOrigin'
  BY DEF FlowsHaveOrigin, Fresh
<1>3. CookiesAreOpen'
  BY DEF CookiesAreOpen, AnsweredWereAway, FlowsHaveOrigin, CallbacksFollow, CallbackFollows, Passed, Fresh
<1>4. GrantsHaveFlow'
  BY DEF GrantsHaveFlow, Fresh
<1>5. CallbacksFollow'
  BY DEF CallbacksFollow, CallbackFollows, NoJob, Working, Clearing, Replies, Passed, Redeems, Exchanged, GrantsHaveFlow, CookiesAreOpen, Fresh
<1>6. AnsweredWereAway'
  BY DEF AnsweredWereAway, CallbacksFollow, CallbackFollows, Fresh, Clearing, Passed
<1>7. FlowsAreAlone'
  BY DEF FlowsAreAlone, AloneInBrowser, Fresh, NoJob, Working, Clearing, Replies, Passed, FlowsHaveOrigin, CallbacksFollow, CallbackFollows
<1> QED
  BY <1>1, <1>2, <1>3, <1>4, <1>5, <1>6, <1>7

LEMMA FlowStep == FlowInv /\ [Next]_vars => FlowInv'
<1> SUFFICES ASSUME FlowInv, [Next]_vars PROVE FlowInv'
  OBVIOUS
<1>1. CASE UNCHANGED vars
  BY <1>1
  DEF vars, server, ghosts, FlowInv, OAuthTypeOK, FlowsHaveOrigin, CookiesAreOpen, GrantsHaveFlow,
      CallbacksFollow, CallbackFollows, Redeems, Exchanged, AnsweredWereAway, FlowsAreAlone, AloneInBrowser
<1>2. ASSUME NEW b \in Browser, NEW p \in Provider, Start(b, p) PROVE FlowInv'
  BY <1>2, StartKeeps
<1>3. ASSUME NEW b \in Browser, Expire(b) PROVE FlowInv'
  BY <1>3, ExpireKeeps
<1>4. ASSUME NEW s \in State, LandStart(s) \/ \E k \in Code : Consent(s, k) PROVE FlowInv'
  BY <1>4, LandStartKeeps, ConsentKeeps
<1>5. ASSUME NEW r \in Req, \E b \in Browser, l \in Links : Callback(r, b, l) PROVE FlowInv'
  BY <1>5, CallbackKeeps
<1>6. ASSUME NEW r \in Req, Proceed(r) \/ Lose(r) PROVE FlowInv'
  BY <1>6, PostFormKeeps, FetchUserInfoKeeps, LoginKeeps, LandKeeps, LoseKeeps DEF Proceed
<1> QED
  BY <1>1, <1>2, <1>3, <1>4, <1>5, <1>6 DEF Next

THEOREM FlowInvariance == Spec => []FlowInv
BY OAuthStart, FlowStep, PTL DEF Spec

\* Every variable keeps its type and a Callback at work has a code.
THEOREM FlowsAreTyped == Spec => []OAuthTypeOK
<1>1. FlowInv => OAuthTypeOK
  BY DEF FlowInv
<1> QED
  BY <1>1, FlowInvariance, PTL

\* However the replies are ordered and wherever the URL is opened, a sign-in
\* ends in the browser it began in.
THEOREM SignInsComeHome == Spec => []SignedInWhereBegun
<1>1. FlowInv => SignedInWhereBegun
  BY DEF FlowInv, CallbacksFollow, CallbackFollows, SignedInWhereBegun, Passed, Clearing
<1> QED
  BY <1>1, FlowInvariance, PTL

\* Only Callback itself takes a request out of idle.
LEMMA OnlyCallbackTakes ==
  ASSUME FlowInv, [Next]_vars, NEW r \in Req, pc[r] = "idle", pc'[r] # "idle"
  PROVE  \E b \in Browser, l \in Links : Callback(r, b, l)
<1> USE DEF FlowInv, OAuthTypeOK, vars, server, ghosts
<1>1. ~UNCHANGED pc
  OBVIOUS
<1>2. \E q \in Req : \/ \E b \in Browser, l \in Links : Callback(q, b, l)
                     \/ Proceed(q) \/ Lose(q)
  BY <1>1 DEF Next, Start, Expire, LandStart, Consent
<1>3. ASSUME NEW q \in Req, Proceed(q) \/ Lose(q) PROVE pc[q] # "idle" /\ q # r
  BY <1>3 DEF Proceed, PostForm, FetchUserInfo, LoginWithOAuth, Land, Lose, Replies, Clearing
<1>4. ASSUME NEW q \in Req, Proceed(q) \/ Lose(q) PROVE pc'[r] = pc[r]
  BY <1>3, <1>4 DEF Proceed, PostForm, FetchUserInfo, LoginWithOAuth, Land, Lose, Reach, Done
<1>5. ASSUME NEW q \in Req \ {r}, NEW b \in Browser, NEW l \in Links, Callback(q, b, l)
      PROVE  pc'[r] = pc[r]
  BY <1>5 DEF Callback, Take
<1> QED
  BY <1>2, <1>4, <1>5

\* A flow that nothing in its browser overtook is not refused there.
THEOREM RefusalsHaveAReason == Spec => RefusedForAReason
<1>1. ASSUME FlowInv, [Next]_vars, NEW r \in Req,
             pc[r] = "idle", pc'[r] = "state_invalide",
             flow[job'[r].state].browser = job'[r].browser
      PROVE  job'[r].state \in overtaken
  <2>1. PICK b \in Browser, l \in Links : Callback(r, b, l)
    BY <1>1, OnlyCallbackTakes
  <2>2. /\ job'[r].state = l.state /\ job'[r].browser = b
        /\ l.state \in State /\ flow[l.state].place = "away" /\ jar[b] # l.state
    BY <1>1, <2>1 DEF Callback, Take, Links, FlowInv, OAuthTypeOK
  <2> QED
    BY <1>1, <2>2 DEF FlowInv, FlowsAreAlone, AloneInBrowser
<1>2. FlowInv /\ [Next]_vars =>
        [\A r \in Req : LET s == job'[r].state IN
           pc[r] = "idle" /\ pc'[r] = "state_invalide" /\ flow[s].browser = job'[r].browser
             => s \in overtaken]_vars
  BY <1>1
<1> QED
  BY <1>2, FlowInvariance, PTL DEF Spec, RefusedForAReason

\* No Callback sent once the answer is there gets past the comparison.
THEOREM AnsweredStatesAreDead == Spec => AnsweredStateIsDead
<1>1. ASSUME FlowInv, [Next]_vars, NEW r \in Req, pc[r] = "idle", pc'[r] \in Passed
      PROVE  job'[r].state \notin answered
  <2>1. PICK b \in Browser, l \in Links : Callback(r, b, l)
    BY <1>1, OnlyCallbackTakes DEF Passed, Working, Clearing
  <2>2. job'[r].state = l.state /\ l.state \in State /\ jar[b] = l.state
    BY <1>1, <2>1 DEF Callback, Take, Links, FlowInv, OAuthTypeOK, Passed, Working, Clearing
  <2> QED
    BY <1>1, <2>2, OAuthAssumption DEF FlowInv, CookiesAreOpen
<1>2. FlowInv /\ [Next]_vars =>
        [\A r \in Req : pc[r] = "idle" /\ pc'[r] \in Passed
                           => job'[r].state \notin answered]_vars
  BY <1>1
<1> QED
  BY <1>2, FlowInvariance, PTL DEF Spec, AnsweredStateIsDead

\* What a Callback at this stage still has to do: exchange, userinfo, login, reply.
StepsLeft(stage) ==
  CASE stage = "exchange" -> 4
    [] stage = "userinfo" -> 3
    [] stage = "login" -> 2
    [] stage \in Replies -> 1
    [] OTHER -> 0

\* A Callback goes further with each step it takes, to its end after at most
\* four, and no other step sends it back.
THEOREM CallbacksEnd ==
  Spec => [][\A r \in Req : pc[r] # "idle" =>
               \/ pc'[r] = pc[r] /\ ~Proceed(r)
               \/ StepsLeft(pc'[r]) < StepsLeft(pc[r])]_vars
<1> USE DEF FlowInv, OAuthTypeOK
<1>1. ASSUME FlowInv, NEW r \in Req, pc[r] # "idle", Proceed(r) \/ Lose(r)
      PROVE  StepsLeft(pc'[r]) < StepsLeft(pc[r])
  <2> USE DEF Reach, Done, StepsLeft, Working, Replies, Clearing
  <2>1. CASE PostForm(r) \/ FetchUserInfo(r) \/ LoginWithOAuth(r)
    BY <1>1, <2>1 DEF PostForm, FetchUserInfo, LoginWithOAuth
  <2>2. CASE Land(r) \/ Lose(r)
    BY <1>1, <2>2 DEF Land, Lose
  <2> QED
    BY <1>1, <2>1, <2>2 DEF Proceed
<1>2. ASSUME FlowInv, NEW r \in Req, pc[r] # "idle", ~Proceed(r), ~Lose(r), [Next]_vars
      PROVE  pc'[r] = pc[r]
  <2>1. ASSUME NEW q \in Req \ {r}, Proceed(q) \/ Lose(q) PROVE pc'[r] = pc[r]
    BY <1>2, <2>1 DEF Proceed, PostForm, FetchUserInfo, LoginWithOAuth, Land, Lose, Reach, Done
  <2>2. ASSUME NEW q \in Req, NEW b \in Browser, NEW l \in Links, Callback(q, b, l)
        PROVE  pc'[r] = pc[r]
    BY <1>2, <2>2 DEF Callback, Take
  <2>3. CASE UNCHANGED pc
    BY <2>3
  <2> QED
    BY <1>2, <2>1, <2>2, <2>3
    DEF Next, Start, Expire, LandStart, Consent, vars, server
<1>3. FlowInv /\ [Next]_vars =>
        [\A r \in Req : pc[r] # "idle" =>
           \/ pc'[r] = pc[r] /\ ~Proceed(r)
           \/ StepsLeft(pc'[r]) < StepsLeft(pc[r])]_vars
  BY <1>1, <1>2
<1> QED
  BY <1>3, FlowInvariance, PTL DEF Spec
(***************************************************************************)
(* What a code is good for.                                                *)
(***************************************************************************)
\* A Callback that signed somebody in does nothing but reply.
LEMMA SignedInIsDone ==
  ASSUME FlowInv, [Next]_vars, NEW r \in Req, pc[r] = "signedIn"
  PROVE  pc'[r] \in {"signedIn", "idle"}
<1> USE DEF FlowInv, OAuthTypeOK, Reach, Done, Take
<1>1. ASSUME NEW q \in Req, Proceed(q) \/ Lose(q) PROVE pc'[r] \in {"signedIn", "idle"}
  BY <1>1 DEF Proceed, PostForm, FetchUserInfo, LoginWithOAuth, Land, Lose
<1>2. ASSUME NEW q \in Req, NEW b \in Browser, NEW l \in Links, Callback(q, b, l)
      PROVE  pc'[r] = "signedIn"
  BY <1>2 DEF Callback
<1> QED
  BY <1>1, <1>2 DEF Next, Start, Expire, LandStart, Consent, vars, server

LEMMA OnlyLoginSignsIn ==
  ASSUME FlowInv, [Next]_vars, NEW r \in Req, pc[r] # "signedIn", pc'[r] = "signedIn"
  PROVE  LoginWithOAuth(r)
<1> USE DEF FlowInv, OAuthTypeOK, Reach, Done, Take
<1>1. ASSUME NEW q \in Req, PostForm(q) \/ FetchUserInfo(q) \/ Land(q) \/ Lose(q) PROVE FALSE
  BY <1>1 DEF PostForm, FetchUserInfo, Land, Lose
<1>2. ASSUME NEW q \in Req, NEW b \in Browser, NEW l \in Links, Callback(q, b, l) PROVE FALSE
  BY <1>2 DEF Callback
<1>3. ASSUME NEW q \in Req \ {r}, LoginWithOAuth(q) PROVE FALSE
  BY <1>3 DEF LoginWithOAuth
<1> QED
  BY <1>1, <1>2, <1>3 DEF Next, Proceed, Start, Expire, LandStart, Consent, vars, server

\* A Callback that got a profile has used up its code, no other has it, and
\* nobody was signed in with it before. What signed somebody in is used up.
CodesAreSpent ==
  /\ \A r \in Req : pc[r] \in Exchanged =>
       /\ job[r].code \in Code /\ grant[job[r].code] # None /\ grant[job[r].code].spent
       /\ \A q \in Req \ {r} : pc[q] \in Exchanged => job[q].code # job[r].code
       /\ pc[r] # "signedIn" => job[r].code \notin entered
  /\ \A k \in entered : grant[k] # None /\ grant[k].spent

LEMMA CodesAreSpentStep ==
  ASSUME FlowInv, CodesAreSpent, [Next]_vars
  PROVE  CodesAreSpent'
<1> USE OAuthAssumption DEF Exchanged, Working, Replies, Clearing
<1>1. /\ grant \in [Code -> Grant \cup {None}]
      /\ pc \in [Req -> {"idle"} \cup Working \cup Replies]
      /\ DOMAIN job = Req /\ entered \subseteq Code
      /\ \A r \in Req : pc[r] \in Working => job[r].code \in Code /\ grant[job[r].code] # None
  BY DEF FlowInv, OAuthTypeOK, CallbacksFollow, CallbackFollows
\* What a step leaves of a code that is spent.
<1>2. ASSUME NEW k \in Code, grant[k] # None, grant[k].spent
      PROVE  grant'[k] # None /\ grant'[k].spent
  <2>1. ASSUME NEW r \in Req, PostForm(r) PROVE grant'[k] # None /\ grant'[k].spent
    <3>1. job[r].code \in Code /\ grant[job[r].code] \in Grant
      BY <1>1, <2>1 DEF PostForm
    <3>2. PICK taken \in BOOLEAN :
            grant' = [grant EXCEPT ![job[r].code].spent = grant[job[r].code].spent \/ taken]
      BY <1>1, <2>1, <3>1 DEF PostForm, Redeems
    <3>3. CASE k = job[r].code
      <4>1. grant'[k] = [grant[k] EXCEPT !.spent = grant[k].spent \/ taken]
        BY <1>1, <1>2, <3>2, <3>3
      <4>2. grant'[k] \in Grant /\ grant'[k].spent
        BY <1>2, <3>1, <3>3, <4>1 DEF Grant
      <4> QED
        BY <4>2
    <3>4. CASE k # job[r].code
      BY <1>1, <1>2, <3>2, <3>4
    <3> QED
      BY <3>3, <3>4
  <2>2. ASSUME NEW s \in State, NEW c \in Code, Consent(s, c)
        PROVE  grant'[k] # None /\ grant'[k].spent
    BY <1>1, <1>2, <2>2 DEF Consent
  <2>3. CASE UNCHANGED grant
    BY <1>2, <2>3
  <2> QED
    BY <2>1, <2>2, <2>3
    DEF Next, Proceed, Start, Expire, LandStart, Callback, FetchUserInfo,
        LoginWithOAuth, Land, Lose, vars
\* Only a successful exchange brings a Callback there, with a code unspent before.
<1>3. ASSUME NEW r \in Req, pc'[r] \in Exchanged
      PROVE  \/ pc[r] \in Exchanged /\ job'[r].code = job[r].code
             \/ /\ PostForm(r) /\ job' = job
                /\ job[r].code \in Code /\ grant[job[r].code] # None
                /\ ~grant[job[r].code].spent
                /\ grant'[job[r].code] # None /\ grant'[job[r].code].spent
  <2>1. ASSUME NEW q \in Req, PostForm(q)
        PROVE  \/ pc[r] \in Exchanged /\ job'[r].code = job[r].code
               \/ /\ PostForm(r) /\ job' = job
                  /\ job[r].code \in Code /\ grant[job[r].code] # None
                  /\ ~grant[job[r].code].spent
                  /\ grant'[job[r].code] # None /\ grant'[job[r].code].spent
    <3>1. CASE q # r
      BY <1>1, <1>3, <2>1, <3>1 DEF PostForm, Reach
    <3>2. CASE q = r
      <4>1. /\ job' = job /\ job[r].code \in Code /\ grant[job[r].code] # None
            /\ grant[job[r].code] \in Grant
        BY <1>1, <2>1, <3>2 DEF PostForm
      <4>2. /\ ~grant[job[r].code].spent
            /\ grant' = [grant EXCEPT ![job[r].code].spent = TRUE]
        BY <1>1, <1>3, <2>1, <3>2 DEF PostForm, Reach
      <4>3. grant'[job[r].code] = [grant[job[r].code] EXCEPT !.spent = TRUE]
        BY <1>1, <4>1, <4>2
      <4>4. grant'[job[r].code] \in Grant /\ grant'[job[r].code].spent
        BY <4>1, <4>3 DEF Grant
      <4> QED
        BY <2>1, <3>2, <4>1, <4>2, <4>4
    <3> QED
      BY <3>1, <3>2
  <2>2. ASSUME NEW q \in Req, FetchUserInfo(q) \/ LoginWithOAuth(q)
        PROVE  pc[r] \in Exchanged /\ job'[r].code = job[r].code
    <3>1. CASE FetchUserInfo(q)
      BY <1>1, <1>3, <3>1 DEF FetchUserInfo, Reach
    <3>2. CASE LoginWithOAuth(q)
      BY <1>1, <1>3, <3>2 DEF LoginWithOAuth, Reach
    <3> QED
      BY <2>2, <3>1, <3>2
  <2>3. ASSUME NEW q \in Req, Land(q) \/ Lose(q)
        PROVE  pc[r] \in Exchanged /\ job'[r].code = job[r].code
    BY <1>1, <1>3, <2>3 DEF Land, Lose, Done
  <2>4. ASSUME NEW q \in Req, NEW b \in Browser, NEW l \in Links, Callback(q, b, l)
        PROVE  pc[r] \in Exchanged /\ job'[r].code = job[r].code
    BY <1>1, <1>3, <2>4 DEF Callback, Take
  <2>5. CASE UNCHANGED <<pc, job>>
    BY <1>3, <2>5
  <2> QED
    BY <2>1, <2>2, <2>3, <2>4, <2>5
    DEF Next, Proceed, Start, Expire, LandStart, Consent, vars, server
<1>4. ASSUME NEW r \in Req, NEW q \in Req \ {r}, pc'[r] \in Exchanged, pc'[q] \in Exchanged
      PROVE  job'[q].code # job'[r].code
  <2>1. CASE pc[r] \in Exchanged /\ pc[q] \in Exchanged
    <3>1. job'[r].code = job[r].code /\ job'[q].code = job[q].code
      BY <1>1, <1>3, <1>4, <2>1 DEF PostForm
    <3> QED
      BY <2>1, <3>1 DEF CodesAreSpent
  <2>2. CASE pc[r] \notin Exchanged
    <3>1. PostForm(r) /\ job' = job /\ ~grant[job[r].code].spent
      BY <1>3, <1>4, <2>2
    <3>2. pc[q] \in Exchanged
      BY <1>1, <1>4, <3>1 DEF PostForm, Reach
    <3> QED
      BY <3>1, <3>2 DEF CodesAreSpent
  <2>3. CASE pc[q] \notin Exchanged
    <3>1. PostForm(q) /\ job' = job /\ ~grant[job[q].code].spent
      BY <1>3, <1>4, <2>3
    <3>2. pc[r] \in Exchanged
      BY <1>1, <1>4, <3>1 DEF PostForm, Reach
    <3> QED
      BY <3>1, <3>2 DEF CodesAreSpent
  <2> QED
    BY <2>1, <2>2, <2>3
<1>5. ASSUME NEW r \in Req, pc'[r] \in Exchanged
      PROVE  job'[r].code \in Code /\ grant'[job'[r].code] # None /\ grant'[job'[r].code].spent
  <2>1. CASE pc[r] \in Exchanged /\ job'[r].code = job[r].code
    BY <1>2, <2>1 DEF CodesAreSpent
  <2> QED
    BY <1>3, <1>5, <2>1
\* Only a login adds a code, and that of a Callback that is past the exchange.
<1>6. \/ UNCHANGED entered
      \/ \E q \in Req : /\ pc[q] = "login" /\ pc'[q] = "signedIn" /\ UNCHANGED job
                       /\ entered' = entered \cup {job[q].code}
  <2>1. ASSUME NEW q \in Req, LoginWithOAuth(q), ~UNCHANGED entered
        PROVE  /\ pc[q] = "login" /\ pc'[q] = "signedIn" /\ UNCHANGED job
               /\ entered' = entered \cup {job[q].code}
    BY <1>1, <2>1 DEF LoginWithOAuth, Reach
  <2> QED
    BY <2>1 DEF Next, Proceed, Start, Expire, LandStart, Consent, Callback, PostForm,
                FetchUserInfo, Land, Lose, vars, ghosts
<1>7. ASSUME NEW r \in Req, pc'[r] \in Exchanged, pc'[r] # "signedIn"
      PROVE  job'[r].code \notin entered'
  <2>1. job'[r].code \notin entered
    <3>1. CASE pc[r] \in Exchanged /\ job'[r].code = job[r].code
      <4>1. pc[r] # "signedIn"
        BY <1>7, <3>1, SignedInIsDone
      <4> QED
        BY <3>1, <4>1 DEF CodesAreSpent
    <3>2. CASE job' = job /\ ~grant[job[r].code].spent
      BY <3>2 DEF CodesAreSpent
    <3> QED
      BY <1>3, <1>7, <3>1, <3>2
  <2>2. ASSUME NEW q \in Req, pc'[q] = "signedIn", UNCHANGED job
        PROVE  job'[r].code # job[q].code
    BY <1>4, <1>7, <2>2
  <2> QED
    BY <1>6, <2>1, <2>2
<1>8. ASSUME NEW k \in entered' PROVE grant'[k] # None /\ grant'[k].spent
  <2>1. k \in Code /\ grant[k] # None /\ grant[k].spent
    BY <1>1, <1>6, <1>8 DEF CodesAreSpent
  <2> QED
    BY <1>2, <2>1
<1> QED
  BY <1>4, <1>5, <1>7, <1>8 DEF CodesAreSpent

THEOREM CodesSpent == Spec => []CodesAreSpent
<1>1. Init => CodesAreSpent
  BY DEF Init, CodesAreSpent, Exchanged
<1>2. FlowInv /\ CodesAreSpent /\ [Next]_vars => CodesAreSpent'
  BY CodesAreSpentStep
<1> QED
  BY <1>1, <1>2, FlowInvariance, PTL DEF Spec

\* However often the URL of a Callback is opened, by how many tabs and browsers, at
\* once or later, under whatever path and after whatever timeouts: a code signs in
\* once, as an identity of the provider its flow began with, for the exchange that
\* wins uses it up before any profile is read. What the provider is trusted for
\* is that a code serves once and with itself only.
THEOREM CodesSignInOnce == Spec => CodeSignsInOnce
<1>1. ASSUME FlowInv, CodesAreSpent, [Next]_vars, NEW r \in Req,
             pc[r] # "signedIn", pc'[r] = "signedIn"
      PROVE  job[r].code \notin entered /\ job[r].provider = flow[job[r].state].provider
  <2>1. LoginWithOAuth(r)
    BY <1>1, OnlyLoginSignsIn
  <2>2. pc[r] \in Exchanged
    BY <2>1 DEF LoginWithOAuth, Exchanged
  <2> QED
    BY <1>1, <2>2 DEF FlowInv, CallbacksFollow, CallbackFollows, CodesAreSpent, Redeems
<1>2. FlowInv /\ CodesAreSpent /\ [Next]_vars =>
        [\A r \in Req : pc[r] # "signedIn" /\ pc'[r] = "signedIn" =>
           /\ job[r].code \notin entered
           /\ job[r].provider = flow[job[r].state].provider]_vars
  BY <1>1
<1> QED
  BY <1>2, FlowInvariance, CodesSpent, PTL DEF Spec, CodeSignsInOnce
=============================================================================
