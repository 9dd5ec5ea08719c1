-------------------------- MODULE OnboardingProofs --------------------------
(* Theorems about Onboarding, for all sets of accounts, addresses, external   *)
(* identities and requests, any number of failures, and both values of        *)
(* AUTO_VERIFY_EMAIL.                                                         *)
EXTENDS Onboarding, Naturals, TLAPS

(***************************************************************************)
(* Requests.                                                               *)
(***************************************************************************)
LEMMA JobTypes ==
  /\ NoJob \in Job
  /\ \A e \in Address : [NoJob EXCEPT !.address = e] \in Job
  /\ \A a \in Account : [NoJob EXCEPT !.account = a] \in Job
  /\ \A j \in Job, a \in Account : [j EXCEPT !.account = a] \in Job
BY DEF Job, NoJob

LEMMA JobFields ==
  /\ \A e \in Address :
       [NoJob EXCEPT !.address = e].address = e /\ [NoJob EXCEPT !.address = e].ident = None
  /\ \A a \in Account : [NoJob EXCEPT !.account = a].account = a
  /\ \A j \in Job, a \in Account :
       LET c == [j EXCEPT !.account = a]
       IN  /\ c.account = a /\ c.address = j.address
           /\ c.ident = j.ident /\ c.certified = j.certified
BY DEF Job, NoJob

LEMMA BeginTypes ==
  ASSUME OnboardingTypeOK,
         NEW r \in Req, NEW stage \in Stage, NEW carried \in Job,
         Begin(r, stage, carried)
  PROVE  pc' \in [Req -> Stage] /\ job' \in [Req -> Job]
BY DEF Begin, OnboardingTypeOK

\* What a step of one request leaves to the others.
LEMMA OthersStay ==
  ASSUME OnboardingTypeOK, NEW r \in Req, NEW q \in Req, q # r,
         Arrive(r) \/ Proceed(r) \/ Crash(r)
  PROVE  pc'[q] = pc[q] /\ job'[q] = job[q]
BY DEF OnboardingTypeOK, Arrive, Proceed, Crash, RegisterUser, CreateUser, InsertUser,
       GrantRole, StoreTicket, VerifyEmail, MarkUserAsVerified,
       DeleteEmailVerificationToken, FindOAuthAccount, FindLinkedUser, Enter, MatchAddress,
       CreateOAuthUser, LinkAccount, Begin, Continue, Answer

(***************************************************************************)
(* Type correctness.                                                       *)
(***************************************************************************)
LEMMA TypingInit == Init => OnboardingTypeOK
BY OnboardingAssumption, JobTypes DEF Init, OnboardingTypeOK, Stage, Resting

LEMMA InsertTypes ==
  ASSUME OnboardingTypeOK, NEW r \in Req, job[r].address \in Address,
         NEW confirmed \in BOOLEAN, NEW stages \in SUBSET Stage,
         InsertUser(r, confirmed, stages),
         UNCHANGED <<link, tickets, vouched, entered>>
  PROVE  OnboardingTypeOK'
<1> USE OnboardingAssumption, JobTypes
    DEF OnboardingTypeOK, users, tickets, Fault, Stage, Resting
<1>1. CASE Answer(r, "failed") /\ UNCHANGED <<users, creator>>
           /\ (UNCHANGED faults \/ Fault)
  BY <1>1, BeginTypes DEF Answer
<1>2. ASSUME NEW a \in Account, NEW stage \in stages,
             address' = [address EXCEPT ![a] = job[r].address],
             verified' = verified \cup (IF confirmed THEN {a} ELSE {}),
             creator' = [creator EXCEPT ![a] = job[r].ident],
             Begin(r, stage, [job[r] EXCEPT !.account = a]),
             UNCHANGED <<deleted, granted, faults>>
      PROVE  OnboardingTypeOK'
  <2>1. job[r] \in Job /\ job[r].ident \in External \cup {None}
    BY DEF Job
  <2>2. pc' \in [Req -> Stage] /\ job' \in [Req -> Job]
    BY <1>2, <2>1, BeginTypes
  <2> QED
    BY <1>2, <2>1, <2>2
<1> QED
  BY <1>1, <1>2 DEF InsertUser

LEMMA TypingStep ==
  ASSUME OnboardingTypeOK, \A r \in Req : JobFilled(r), [Next]_vars
  PROVE  OnboardingTypeOK'
<1> USE OnboardingAssumption, JobTypes
    DEF OnboardingTypeOK, vars, users, tickets, history, Fault, Continue, Answer,
        Stage, Resting
<1>1. CASE UNCHANGED vars
  BY <1>1
<1>2. ASSUME NEW r \in Req, NEW e \in Address, RegisterUser(r, e) PROVE OnboardingTypeOK'
  BY <1>2, BeginTypes DEF RegisterUser
<1>3. ASSUME NEW r \in Req, NEW a \in Account, VerifyEmail(r, a) PROVE OnboardingTypeOK'
  BY <1>3, BeginTypes DEF VerifyEmail
<1>4. ASSUME NEW r \in Req, NEW x \in External, NEW e \in Address, NEW c \in BOOLEAN,
             FindOAuthAccount(r, x, e, c)
      PROVE  OnboardingTypeOK'
  <2> DEFINE carried == [account |-> None, address |-> Lower(e), ident |-> x,
                         certified |-> c]
  <2>1. carried \in Job /\ \A a \in Account : [carried EXCEPT !.account = a] \in Job
    BY DEF Job
  <2> QED
    BY <1>4, <2>1, BeginTypes DEF FindOAuthAccount
<1>5. ASSUME NEW r \in Req, CreateUser(r) PROVE OnboardingTypeOK'
  <2>1. pc[r] = "createUser" /\ job[r].address \in Address
    BY <1>5 DEF CreateUser, JobFilled
  <2> QED
    BY <1>5, <2>1, InsertTypes DEF CreateUser
<1>6. ASSUME NEW r \in Req, CreateOAuthUser(r) PROVE OnboardingTypeOK'
  <2>1. pc[r] = "createClient" /\ job[r].address \in Address
    BY <1>6 DEF CreateOAuthUser, JobFilled
  <2> QED
    BY <1>6, <2>1, InsertTypes DEF CreateOAuthUser
<1>7. ASSUME NEW r \in Req, GrantRole(r) PROVE OnboardingTypeOK'
  BY <1>7 DEF GrantRole, JobFilled
<1>8. ASSUME NEW r \in Req, StoreTicket(r) PROVE OnboardingTypeOK'
  BY <1>8, BeginTypes DEF StoreTicket, JobFilled
<1>9. ASSUME NEW r \in Req, MarkUserAsVerified(r) PROVE OnboardingTypeOK'
  BY <1>9, BeginTypes DEF MarkUserAsVerified, JobFilled
<1>10. ASSUME NEW r \in Req, DeleteEmailVerificationToken(r) PROVE OnboardingTypeOK'
  BY <1>10, BeginTypes DEF DeleteEmailVerificationToken, JobFilled
<1>11. ASSUME NEW r \in Req, FindLinkedUser(r) PROVE OnboardingTypeOK'
  BY <1>11, BeginTypes DEF FindLinkedUser, JobFilled, Enter
<1>12. ASSUME NEW r \in Req, MatchAddress(r) PROVE OnboardingTypeOK'
  <2>1. CASE \E a \in Account : Begin(r, "link", [job[r] EXCEPT !.account = a])
    BY <1>12, <2>1, BeginTypes DEF MatchAddress
  <2>2. CASE Continue(r, "createClient") \/ Answer(r, "failed")
    BY <1>12, <2>2, BeginTypes DEF MatchAddress
  <2> QED
    BY <1>12, <2>1, <2>2 DEF MatchAddress, Visible, Holder
<1>13. ASSUME NEW r \in Req, LinkAccount(r) PROVE OnboardingTypeOK'
  BY <1>13, BeginTypes DEF LinkAccount, JobFilled, Enter
<1>14. ASSUME NEW r \in Req, Crash(r) PROVE OnboardingTypeOK'
  BY <1>14, BeginTypes DEF Crash
<1>15. ASSUME NEW a \in Account, DeleteUser(a) \/ ExpireTicket(a) PROVE OnboardingTypeOK'
  BY <1>15 DEF DeleteUser, ExpireTicket
<1> QED
  BY <1>1, <1>2, <1>3, <1>4, <1>5, <1>6, <1>7, <1>8, <1>9, <1>10, <1>11, <1>12, <1>13, <1>14, <1>15
  DEF Next, Arrive, Proceed

(***************************************************************************)
(* The tables only move forward.                                           *)
(***************************************************************************)
\* An account keeps its address and its creator, an identity its link, and what
\* was verified, deleted or certified stays so.
TablesAdvance ==
  /\ \A a \in Account : Exists(a) => address'[a] = address[a] /\ creator'[a] = creator[a]
  /\ \A x \in External : link[x] # None => link'[x] = link[x]
  /\ verified \subseteq verified' /\ deleted \subseteq deleted' /\ vouched \subseteq vouched'

LEMMA TablesMoveForward ==
  ASSUME OnboardingTypeOK, [Next]_vars
  PROVE  TablesAdvance
<1> USE DEF OnboardingTypeOK, TablesAdvance, vars, users, history
<1>1. CASE UNCHANGED <<address, creator, link, verified, deleted, vouched>>
  BY <1>1
<1>2. ASSUME NEW r \in Req, CreateUser(r) \/ CreateOAuthUser(r) PROVE TablesAdvance
  BY <1>2 DEF CreateUser, CreateOAuthUser, InsertUser
<1>3. ASSUME NEW r \in Req, MarkUserAsVerified(r) PROVE TablesAdvance
  BY <1>3 DEF MarkUserAsVerified
<1>4. ASSUME NEW r \in Req, LinkAccount(r) PROVE TablesAdvance
  BY <1>4 DEF LinkAccount
<1>5. ASSUME NEW a \in Account, DeleteUser(a) PROVE TablesAdvance
  BY <1>5 DEF DeleteUser
<1> QED
  BY <1>1, <1>2, <1>3, <1>4, <1>5, ZenonT(30)
  DEF Next, Arrive, Proceed, Crash, RegisterUser, GrantRole, StoreTicket, VerifyEmail,
      DeleteEmailVerificationToken, FindOAuthAccount, FindLinkedUser, MatchAddress,
      ExpireTicket

(***************************************************************************)
(* The requests in flight agree with the tables.                           *)
(***************************************************************************)
InFlight(r) == JobFilled(r) /\ AccountFollowed(r)

\* A request that does not move keeps agreeing with tables that move forward.
LEMMA StayingInFlight ==
  ASSUME OnboardingTypeOK, TablesAdvance, NEW q \in Req, InFlight(q),
         pc'[q] = pc[q], job'[q] = job[q]
  PROVE  InFlight(q)'
BY OnboardingAssumption
DEF OnboardingTypeOK, TablesAdvance, InFlight, JobFilled, AccountFollowed, Exists

\* At rest there is nothing to agree with.
LEMMA AnsweredInFlight ==
  ASSUME OnboardingTypeOK, NEW r \in Req, NEW reply \in Resting, Answer(r, reply)
  PROVE  InFlight(r)'
BY DEF OnboardingTypeOK, Answer, Begin, Resting, InFlight, JobFilled, AccountFollowed

LEMMA InsertInFlight ==
  ASSUME OnboardingTypeOK, NEW r \in Req, job[r].address \in Address,
         NEW confirmed \in BOOLEAN, NEW stages \in SUBSET {"grantRole", "storeTicket"},
         InsertUser(r, confirmed, stages)
  PROVE  InFlight(r)'
<1> USE OnboardingAssumption DEF OnboardingTypeOK
<1>1. CASE Answer(r, "failed")
  BY <1>1, AnsweredInFlight DEF Resting
<1>2. ASSUME NEW a \in Account, NEW stage \in stages,
             address' = [address EXCEPT ![a] = job[r].address],
             creator' = [creator EXCEPT ![a] = job[r].ident],
             Begin(r, stage, [job[r] EXCEPT !.account = a])
      PROVE  InFlight(r)'
  <2>1. /\ pc'[r] \in {"grantRole", "storeTicket"}
        /\ job'[r].account = a /\ job'[r].ident = job[r].ident
    BY <1>2, JobFields DEF Begin
  <2>2. address'[a] # None /\ creator'[a] = job'[r].ident
    BY <1>2, <2>1
  <2> QED
    BY <2>1, <2>2 DEF InFlight, JobFilled, AccountFollowed, Exists
<1> QED
  BY <1>1, <1>2 DEF InsertUser

\* The step of a request leaves it in agreement with the tables.
LEMMA OwnInFlight ==
  ASSUME OnboardingTypeOK, RequestsMatchTables, TablesAdvance, NEW r \in Req,
         Arrive(r) \/ Proceed(r) \/ Crash(r)
  PROVE  InFlight(r)'
<1> USE OnboardingAssumption DEF OnboardingTypeOK
<1>1. InFlight(r)
  BY DEF RequestsMatchTables, InFlight
<1>2. CASE Answer(r, "failed") \/ Answer(r, "ok")
  BY <1>2, AnsweredInFlight DEF Resting
<1>3. ASSUME NEW e \in Address, RegisterUser(r, e), ~Answer(r, "failed")
      PROVE  InFlight(r)'
  <2>1. Begin(r, "createUser", [NoJob EXCEPT !.address = e])
    BY <1>3 DEF RegisterUser
  <2>2. pc'[r] = "createUser" /\ job'[r].address = e /\ job'[r].ident = None
    BY <2>1, JobFields DEF Begin
  <2> QED
    BY <2>2 DEF InFlight, JobFilled, AccountFollowed
<1>4. ASSUME NEW a \in Account, VerifyEmail(r, a), ~Answer(r, "failed")
      PROVE  InFlight(r)'
  <2>1. Exists(a) /\ UNCHANGED address
    BY <1>4 DEF VerifyEmail, RequestsMatchTables, users
  <2>2. Begin(r, "mark", [NoJob EXCEPT !.account = a])
    BY <1>4 DEF VerifyEmail
  <2>3. pc'[r] = "mark" /\ job'[r].account = a
    BY <2>2, JobFields DEF Begin
  <2> QED
    BY <2>1, <2>3 DEF InFlight, JobFilled, AccountFollowed, Exists
<1>5. ASSUME NEW x \in External, NEW e \in Address, NEW c \in BOOLEAN,
             FindOAuthAccount(r, x, e, c)
      PROVE  InFlight(r)'
  <2> DEFINE carried == [account |-> None, address |-> Lower(e), ident |-> x,
                         certified |-> c]
  <2>1. carried \in Job
    BY DEF Job
  <2>2. CASE Begin(r, "match", carried)
    BY <2>1, <2>2 DEF Begin, InFlight, JobFilled, AccountFollowed
  <2>3. CASE link[x] # None /\ Begin(r, "openLinked", [carried EXCEPT !.account = link[x]])
    <3>1. link[x] \in Account /\ Exists(link[x]) /\ UNCHANGED <<address, link>>
      BY <1>5, <2>3 DEF FindOAuthAccount, RequestsMatchTables, users
    <3> QED
      BY <2>1, <2>3, <3>1 DEF Begin, InFlight, JobFilled, AccountFollowed, Exists
  <2> QED
    BY <1>5, <2>2, <2>3 DEF FindOAuthAccount
<1>6. CASE CreateUser(r)
  BY <1>1, <1>6, InsertInFlight DEF CreateUser, InFlight, JobFilled
<1>7. CASE CreateOAuthUser(r)
  BY <1>1, <1>7, InsertInFlight DEF CreateOAuthUser, InFlight, JobFilled
<1>8. CASE GrantRole(r)
  BY <1>1, <1>8
  DEF GrantRole, Continue, InFlight, JobFilled, AccountFollowed, Exists, history
<1>9. CASE MarkUserAsVerified(r) /\ ~Answer(r, "failed")
  BY <1>1, <1>9
  DEF MarkUserAsVerified, Continue, InFlight, JobFilled, AccountFollowed, Exists
<1>10. CASE MatchAddress(r) /\ ~Answer(r, "failed")
  <2>1. pc[r] = "match" /\ job[r] \in Job /\ job[r].ident \in External
        /\ job[r].address \in Address /\ UNCHANGED <<address, creator, link>>
    BY <1>1, <1>10 DEF MatchAddress, InFlight, JobFilled, users, history
  <2>2. CASE Continue(r, "createClient")
    BY <2>1, <2>2 DEF Continue, InFlight, JobFilled, AccountFollowed
  <2>3. ASSUME NEW a \in Visible(job[r].address), job[r].certified,
               Begin(r, "link", [job[r] EXCEPT !.account = a])
        PROVE  InFlight(r)'
    <3>1. a \in Account /\ Exists(a)
      BY <2>1 DEF Visible, Holder, Exists
    <3>2. pc'[r] = "link" /\ job'[r].account = a /\ job'[r].ident = job[r].ident
          /\ job'[r].certified
      BY <2>1, <2>3, <3>1, JobFields DEF Begin
    <3> QED
      BY <2>1, <3>1, <3>2 DEF InFlight, JobFilled, AccountFollowed, Exists
  <2> QED
    BY <1>10, <2>2, <2>3 DEF MatchAddress
<1> QED
  BY <1>2, <1>3, <1>4, <1>5, <1>6, <1>7, <1>8, <1>9, <1>10
  DEF Arrive, Proceed, Crash, StoreTicket, DeleteEmailVerificationToken, FindLinkedUser,
      LinkAccount, Enter

\* Links and tickets only ever point at accounts that exist.
LEMMA RowsStep ==
  ASSUME OnboardingTypeOK, RequestsMatchTables, TablesAdvance, [Next]_vars
  PROVE  /\ (\A x \in External : link[x] # None => Exists(link[x]))'
         /\ (\A a \in Account : a \in mailed \/ ticket[a] # "absent" => Exists(a))'
<1> DEFINE Rows == /\ \A x \in External : link[x] # None => Exists(link[x])
                   /\ \A a \in Account : a \in mailed \/ ticket[a] # "absent" => Exists(a)
<1> USE OnboardingAssumption DEF OnboardingTypeOK, TablesAdvance, Exists
<1>1. Rows
  BY DEF RequestsMatchTables
<1>2. CASE UNCHANGED <<link, mailed, ticket>>
  BY <1>1, <1>2
<1>3. ASSUME NEW r \in Req, StoreTicket(r) \/ DeleteEmailVerificationToken(r) PROVE Rows'
  <2>1. JobFilled(r)
    BY DEF RequestsMatchTables
  <2>2. link' = link /\ address' = address /\ job[r].account \in Account
        /\ Exists(job[r].account)
    BY <1>3, <2>1 DEF StoreTicket, DeleteEmailVerificationToken, JobFilled, users
  <2> QED
    BY <1>1, <1>3, <2>2 DEF StoreTicket, DeleteEmailVerificationToken
<1>4. ASSUME NEW r \in Req, LinkAccount(r) PROVE Rows'
  <2>1. JobFilled(r)
    BY DEF RequestsMatchTables
  <2> QED
    BY <1>1, <1>4, <2>1 DEF LinkAccount, JobFilled, users, tickets
<1>5. ASSUME NEW a \in Account, ExpireTicket(a) PROVE Rows'
  BY <1>1, <1>5 DEF ExpireTicket, users
<1>6. Rows'
  BY <1>2, <1>3, <1>4, <1>5
  DEF Next, vars, tickets, Arrive, Proceed, Crash, RegisterUser, CreateUser, GrantRole,
      VerifyEmail, MarkUserAsVerified, FindOAuthAccount, FindLinkedUser, MatchAddress,
      CreateOAuthUser, DeleteUser
<1> QED
  BY <1>6

LEMMA RequestsStep ==
  ASSUME OnboardingTypeOK, RequestsMatchTables, [Next]_vars
  PROVE  RequestsMatchTables'
<1>1. TablesAdvance
  BY TablesMoveForward
<1>2. ASSUME NEW q \in Req PROVE InFlight(q)'
  <2>1. InFlight(q)
    BY DEF RequestsMatchTables, InFlight
  <2>2. CASE pc'[q] = pc[q] /\ job'[q] = job[q]
    BY <1>1, <2>1, <2>2, StayingInFlight
  <2>3. ASSUME NEW r \in Req, Arrive(r) \/ Proceed(r) \/ Crash(r) PROVE InFlight(q)'
    BY <1>1, <2>2, <2>3, OwnInFlight, OthersStay
  <2> QED
    BY <2>2, <2>3 DEF Next, vars, DeleteUser, ExpireTicket
<1> QED
  BY <1>1, <1>2, RowsStep DEF RequestsMatchTables, InFlight

(***************************************************************************)
(* The invariants.                                                         *)
(***************************************************************************)
\* An account that a sign-in created, and every one where AUTO_VERIFY_EMAIL is
\* set, is verified from its insert on: only a registration has a token to store.
ConfirmedAtBirth ==
  \A a \in Account : Exists(a) /\ (AutoVerify \/ creator[a] # None) => a \in verified

\* The inductive invariant: none of its parts follows from the others.
IInv ==
  /\ OnboardingTypeOK
  /\ RequestsMatchTables
  /\ ConfirmedAtBirth
  /\ EntersLinkedAccount
  /\ UnverifiedKeepsTicket
  /\ AttachedOnlyIfCertified

LEMMA EntersStep ==
  ASSUME OnboardingTypeOK, RequestsMatchTables, TablesAdvance, EntersLinkedAccount,
         [Next]_vars
  PROVE  EntersLinkedAccount'
<1> USE OnboardingAssumption DEF OnboardingTypeOK
<1>1. \A p \in entered : link'[p[1]] = p[2]
  BY DEF EntersLinkedAccount, TablesAdvance
<1>2. CASE UNCHANGED entered
  BY <1>1, <1>2 DEF EntersLinkedAccount
<1>3. ASSUME NEW r \in Req, LinkAccount(r) \/ FindLinkedUser(r), ~UNCHANGED entered
      PROVE  EntersLinkedAccount'
  <2>1. JobFilled(r) /\ AccountFollowed(r)
    BY DEF RequestsMatchTables
  <2>2. /\ entered' = entered \cup {<<job[r].ident, job[r].account>>}
        /\ link'[job[r].ident] = job[r].account
    BY <1>3, <2>1 DEF LinkAccount, FindLinkedUser, Enter, JobFilled, AccountFollowed
  <2> QED
    BY <1>1, <2>2 DEF EntersLinkedAccount
<1> QED
  BY <1>2, <1>3, ZenonT(30)
  DEF Next, vars, history, Arrive, Proceed, Crash, RegisterUser, CreateUser, GrantRole,
      StoreTicket, VerifyEmail, MarkUserAsVerified, DeleteEmailVerificationToken,
      FindOAuthAccount, MatchAddress, CreateOAuthUser, DeleteUser, ExpireTicket

\* The insert of an account: its uuid and its address are new, and a sign-in, or
\* AUTO_VERIFY_EMAIL, verifies it at once.
LEMMA Inserting ==
  ASSUME NEW r \in Req, CreateUser(r) \/ CreateOAuthUser(r), ~UNCHANGED users
  PROVE  \E a \in Account, stage \in {"grantRole", "storeTicket"} :
           /\ ~Exists(a) /\ Holder(job[r].address) = {}
           /\ address' = [address EXCEPT ![a] = job[r].address]
           /\ creator' = [creator EXCEPT ![a] = job[r].ident]
           /\ Begin(r, stage, [job[r] EXCEPT !.account = a])
           /\ AutoVerify \/ CreateOAuthUser(r) => verified' = verified \cup {a}
<1>1. CASE CreateOAuthUser(r)
  <2>1. InsertUser(r, TRUE, {"grantRole"})
    BY <1>1 DEF CreateOAuthUser
  <2>2. PICK a \in Account :
          /\ ~Exists(a) /\ Holder(job[r].address) = {}
          /\ address' = [address EXCEPT ![a] = job[r].address]
          /\ verified' = verified \cup (IF TRUE THEN {a} ELSE {})
          /\ creator' = [creator EXCEPT ![a] = job[r].ident]
          /\ Begin(r, "grantRole", [job[r] EXCEPT !.account = a])
    BY <2>1 DEF InsertUser
  <2>3. verified' = verified \cup {a}
    BY <2>2
  <2> QED
    BY <2>2, <2>3
<1>2. CASE CreateUser(r) /\ ~CreateOAuthUser(r)
  <2>1. InsertUser(r, AutoVerify, {"grantRole", "storeTicket"})
    BY <1>2 DEF CreateUser
  <2>2. PICK a \in Account, stage \in {"grantRole", "storeTicket"} :
          /\ ~Exists(a) /\ Holder(job[r].address) = {}
          /\ address' = [address EXCEPT ![a] = job[r].address]
          /\ verified' = verified \cup (IF AutoVerify THEN {a} ELSE {})
          /\ creator' = [creator EXCEPT ![a] = job[r].ident]
          /\ Begin(r, stage, [job[r] EXCEPT !.account = a])
    BY <2>1 DEF InsertUser
  <2>3. AutoVerify => verified' = verified \cup {a}
    BY <2>2
  <2> QED
    BY <1>2, <2>2, <2>3
<1> QED
  BY <1>1, <1>2

LEMMA ConfirmedStep ==
  ASSUME OnboardingTypeOK, RequestsMatchTables, TablesAdvance, ConfirmedAtBirth, [Next]_vars
  PROVE  ConfirmedAtBirth'
<1> USE OnboardingAssumption DEF OnboardingTypeOK, ConfirmedAtBirth, TablesAdvance, Exists
<1>1. CASE UNCHANGED <<address, creator>>
  BY <1>1
<1>2. ASSUME NEW r \in Req, CreateUser(r) \/ CreateOAuthUser(r) PROVE ConfirmedAtBirth'
  <2>1. CASE UNCHANGED users
    <3>1. UNCHANGED <<address, creator>>
      <4>1. ~\E a \in Account : ~Exists(a) /\ address' = [address EXCEPT ![a] = job[r].address]
        <5>1. job[r].address \in Address /\ address' = address
          BY <1>2, <2>1 DEF users, CreateUser, CreateOAuthUser, RequestsMatchTables, JobFilled
        <5> QED
          BY <5>1
      <4> QED
        BY <1>2, <2>1, <4>1 DEF CreateUser, CreateOAuthUser, InsertUser, users
    <3> QED
      BY <1>1, <3>1
  <2>2. CASE ~UNCHANGED users
    <3>1. job[r].address \in Address /\ (CreateUser(r) => job[r].ident = None)
      BY <1>2 DEF CreateUser, CreateOAuthUser, RequestsMatchTables, JobFilled, AccountFollowed
    <3>2. PICK a \in Account :
            /\ ~Exists(a)
            /\ address' = [address EXCEPT ![a] = job[r].address]
            /\ creator' = [creator EXCEPT ![a] = job[r].ident]
            /\ AutoVerify \/ CreateOAuthUser(r) => verified' = verified \cup {a}
      BY <1>2, <2>2, Inserting
    <3>3. CASE AutoVerify \/ CreateOAuthUser(r)
      BY <3>1, <3>2, <3>3
    <3>4. CASE ~AutoVerify /\ job[r].ident = None
      BY <3>1, <3>2, <3>4
    <3> QED
      BY <1>2, <3>1, <3>3, <3>4
  <2> QED
    BY <2>1, <2>2
<1> QED
  BY <1>1, <1>2, ZenonT(30)
  DEF Next, vars, users, history, Arrive, Proceed, Crash, RegisterUser, GrantRole, StoreTicket,
      VerifyEmail, MarkUserAsVerified, DeleteEmailVerificationToken, FindOAuthAccount,
      FindLinkedUser, Enter, MatchAddress, LinkAccount, DeleteUser, ExpireTicket

\* What becomes of the token of an account that is not verified.
TicketKept(a) ==
  \/ ticket[a] \in {"open", "expired"}
  \/ ticket[a] = "absent" /\ (AwaitsTicket(a) \/ faults > 0)

\* The step of a request that does not store the token of an account leaves it to
\* wait for the request that will.
LEMMA WaitingGoesOn ==
  ASSUME OnboardingTypeOK, RequestsMatchTables, ConfirmedAtBirth, NEW a \in Account,
         a \notin verified, AwaitsTicket(a),
         NEW q \in Req, Arrive(q) \/ Proceed(q), ~StoreTicket(q)
  PROVE  AwaitsTicket(a)'
<1> USE DEF OnboardingTypeOK
<1>1. PICK r \in Req : pc[r] \in {"grantRole", "storeTicket"} /\ job[r].account = a
  BY DEF AwaitsTicket
<1>2. CASE r # q
  BY <1>1, <1>2, OthersStay DEF AwaitsTicket
<1>3. CASE r = q
  <2>1. CASE GrantRole(q)
    <3>1. pc[q] = "grantRole"
      BY <2>1 DEF GrantRole
    <3>2. Exists(a) /\ job[q].ident = creator[a]
      BY <1>1, <1>3, <3>1 DEF RequestsMatchTables, JobFilled, AccountFollowed
    <3>3. job[q].ident = None
      BY <3>2 DEF ConfirmedAtBirth
    <3> QED
      BY <1>1, <1>3, <2>1, <3>3 DEF GrantRole, Continue, AwaitsTicket
  <2>2. CASE ~GrantRole(q)
    BY <1>1, <1>3, <2>2
    DEF Arrive, Proceed, Free, Resting, RegisterUser, VerifyEmail, FindOAuthAccount,
        CreateUser, MarkUserAsVerified, DeleteEmailVerificationToken, FindLinkedUser,
        MatchAddress, CreateOAuthUser, LinkAccount, StoreTicket
  <2> QED
    BY <2>1, <2>2
<1> QED
  BY <1>2, <1>3

LEMMA TicketStep ==
  ASSUME OnboardingTypeOK, RequestsMatchTables, TablesAdvance, ConfirmedAtBirth,
         UnverifiedKeepsTicket, [Next]_vars
  PROVE  UnverifiedKeepsTicket'
<1> USE OnboardingAssumption DEF OnboardingTypeOK
<1>1. SUFFICES ASSUME NEW a \in Account, a \notin verified', a \notin deleted', Exists(a)'
               PROVE  TicketKept(a)'
  BY DEF UnverifiedKeepsTicket, TicketKept
<1>2. a \notin verified /\ a \notin deleted
  BY <1>1 DEF TablesAdvance
<1>3. Exists(a) => TicketKept(a)
  BY <1>2 DEF UnverifiedKeepsTicket, TicketKept
<1>4. faults \in Nat /\ (Fault => faults' > 0)
  BY DEF Fault
<1>5. ~Exists(a) => ticket[a] = "absent"
  BY DEF RequestsMatchTables
<1>6. CASE UNCHANGED vars
  BY <1>1, <1>3, <1>6 DEF vars, users, tickets, Exists, TicketKept, AwaitsTicket
<1>7. ASSUME NEW q \in Req, CreateUser(q) \/ CreateOAuthUser(q) PROVE TicketKept(a)'
  <2>1. ticket' = ticket /\ (faults' = faults \/ Fault)
    BY <1>7 DEF CreateUser, CreateOAuthUser, InsertUser, tickets
  <2>2. CASE Exists(a)
    <3>1. Arrive(q) \/ Proceed(q)
      BY <1>7 DEF Proceed
    <3>2. ~StoreTicket(q)
      BY <1>7 DEF CreateUser, CreateOAuthUser, StoreTicket
    <3> QED
      BY <1>2, <1>3, <1>4, <2>1, <2>2, <3>1, <3>2, WaitingGoesOn DEF TicketKept
  <2>3. CASE ~Exists(a)
    <3>1. ~UNCHANGED users
      BY <1>1, <2>3 DEF users, Exists
    <3>2. PICK b \in Account, stage \in {"grantRole", "storeTicket"} :
            /\ ~Exists(b) /\ Holder(job[q].address) = {}
            /\ address' = [address EXCEPT ![b] = job[q].address]
            /\ creator' = [creator EXCEPT ![b] = job[q].ident]
            /\ Begin(q, stage, [job[q] EXCEPT !.account = b])
            /\ AutoVerify \/ CreateOAuthUser(q) => verified' = verified \cup {b}
      BY <1>7, <3>1, Inserting
    <3>3. a = b
      BY <1>1, <2>3, <3>2 DEF Exists
    <3>4. pc'[q] = stage /\ job'[q].account = a
      BY <3>2, <3>3, JobFields DEF Begin
    <3> QED
      BY <1>5, <2>1, <2>3, <3>4 DEF TicketKept, AwaitsTicket
  <2> QED
    BY <2>2, <2>3
<1>8. CASE address' = address
  <2>1. TicketKept(a)
    BY <1>1, <1>3, <1>8 DEF Exists
  <2>2. ASSUME NEW q \in Req, StoreTicket(q) PROVE TicketKept(a)'
    <3>1. ~AutoVerify
      BY <1>1, <1>2, <1>8 DEF ConfirmedAtBirth, Exists
    <3>2. \/ ticket' = [ticket EXCEPT ![job[q].account] = "open"] /\ faults' = faults
          \/ ticket' = ticket /\ Fault
      BY <2>2, <3>1 DEF StoreTicket
    <3>3. CASE job[q].account = a
      BY <1>4, <2>1, <3>2, <3>3 DEF TicketKept
    <3>4. CASE job[q].account # a /\ ticket' = [ticket EXCEPT ![job[q].account] = "open"]
               /\ faults' = faults
      <4>1. ticket'[a] = ticket[a]
        BY <3>4
      <4>2. AwaitsTicket(a) => AwaitsTicket(a)'
        <5>1. Arrive(q) \/ Proceed(q) \/ Crash(q)
          BY <2>2 DEF Proceed
        <5> QED
          BY <3>4, <5>1, OthersStay DEF AwaitsTicket
      <4> QED
        BY <2>1, <3>4, <4>1, <4>2 DEF TicketKept
    <3> QED
      BY <1>4, <2>1, <3>2, <3>3, <3>4 DEF TicketKept
  <2>3. ASSUME NEW q \in Req, DeleteEmailVerificationToken(q) PROVE TicketKept(a)'
    <3>1. job[q].account # a
      BY <1>2, <2>3 DEF DeleteEmailVerificationToken, RequestsMatchTables, AccountFollowed
    <3>2. ticket'[a] = ticket[a] /\ (faults' = faults \/ Fault)
      BY <2>3, <3>1 DEF DeleteEmailVerificationToken
    <3>3. Arrive(q) \/ Proceed(q)
      BY <2>3 DEF Proceed
    <3>4. ~StoreTicket(q)
      BY <2>3 DEF DeleteEmailVerificationToken, StoreTicket
    <3> QED
      BY <1>2, <1>4, <2>1, <3>2, <3>3, <3>4, WaitingGoesOn DEF TicketKept
  <2>4. ASSUME NEW q \in Req, Arrive(q) \/ Proceed(q), ~StoreTicket(q),
               ~DeleteEmailVerificationToken(q)
        PROVE  TicketKept(a)'
    <3>1. ticket' = ticket /\ (faults' = faults \/ Fault)
      BY <2>4
      DEF Arrive, Proceed, RegisterUser, CreateUser, InsertUser, GrantRole, VerifyEmail,
          MarkUserAsVerified, FindOAuthAccount, FindLinkedUser, MatchAddress,
          CreateOAuthUser, LinkAccount, tickets
    <3> QED
      BY <1>2, <1>4, <2>1, <2>4, <3>1, WaitingGoesOn DEF TicketKept
  <2>5. ASSUME NEW q \in Req, Crash(q) PROVE TicketKept(a)'
    BY <1>4, <2>1, <2>5 DEF Crash, tickets, TicketKept
  <2>6. ASSUME NEW b \in Account, DeleteUser(b) \/ ExpireTicket(b) PROVE TicketKept(a)'
    BY <2>1, <2>6 DEF DeleteUser, ExpireTicket, tickets, TicketKept, AwaitsTicket
  <2> QED
    BY <1>6, <2>2, <2>3, <2>4, <2>5, <2>6 DEF Next
<1>9. \/ address' = address
      \/ \E q \in Req : CreateUser(q) \/ CreateOAuthUser(q)
  BY ZenonT(30) DEF Next, vars, users, Arrive, Proceed, Crash, RegisterUser, GrantRole, StoreTicket,
      VerifyEmail, MarkUserAsVerified, DeleteEmailVerificationToken, FindOAuthAccount,
      FindLinkedUser, MatchAddress, LinkAccount, DeleteUser, ExpireTicket
<1> QED
  BY <1>7, <1>8, <1>9

LEMMA AttachStep ==
  ASSUME OnboardingTypeOK, RequestsMatchTables, TablesAdvance, AttachedOnlyIfCertified,
         [Next]_vars
  PROVE  AttachedOnlyIfCertified'
<1> USE OnboardingAssumption DEF OnboardingTypeOK
<1>1. \A x \in External : link[x] # None =>
        /\ link[x] \in Account /\ creator'[link[x]] = creator[link[x]]
        /\ creator[link[x]] # x => x \in vouched'
  BY DEF RequestsMatchTables, TablesAdvance, AttachedOnlyIfCertified
<1>2. CASE UNCHANGED link
  BY <1>1, <1>2 DEF AttachedOnlyIfCertified
<1>3. ASSUME NEW r \in Req, LinkAccount(r), ~UNCHANGED link
      PROVE  AttachedOnlyIfCertified'
  <2> DEFINE x == job[r].ident
             a == job[r].account
  <2>1. /\ x \in External /\ a \in Account /\ creator' = creator
        /\ job[r].certified \/ x = creator[a]
        /\ link' = [link EXCEPT ![x] = a]
        /\ job[r].certified => x \in vouched'
    BY <1>3 DEF LinkAccount, RequestsMatchTables, JobFilled, AccountFollowed
  <2> QED
    BY <1>1, <2>1 DEF AttachedOnlyIfCertified
<1> QED
  BY <1>2, <1>3, ZenonT(30)
  DEF Next, vars, Arrive, Proceed, Crash, RegisterUser, CreateUser, GrantRole,
      StoreTicket, VerifyEmail, MarkUserAsVerified, DeleteEmailVerificationToken,
      FindOAuthAccount, FindLinkedUser, MatchAddress, CreateOAuthUser, DeleteUser,
      ExpireTicket

LEMMA IInvInit == Init => IInv
<1> SUFFICES ASSUME Init PROVE IInv
  OBVIOUS
<1>1. OnboardingTypeOK
  BY TypingInit
<1>2. RequestsMatchTables
  BY DEF Init, RequestsMatchTables, JobFilled, AccountFollowed
<1> QED
  BY <1>1, <1>2
  DEF IInv, Init, ConfirmedAtBirth, Exists, EntersLinkedAccount,
      UnverifiedKeepsTicket, AttachedOnlyIfCertified

LEMMA IInvStep == IInv /\ [Next]_vars => IInv'
<1> SUFFICES ASSUME IInv, [Next]_vars PROVE IInv'
  OBVIOUS
<1>1. OnboardingTypeOK /\ RequestsMatchTables /\ ConfirmedAtBirth
  BY DEF IInv
<1>2. OnboardingTypeOK'
  BY <1>1, TypingStep DEF RequestsMatchTables
<1>3. RequestsMatchTables'
  BY <1>1, RequestsStep
<1>4. TablesAdvance
  BY <1>1, TablesMoveForward
<1> QED
  BY <1>1, <1>2, <1>3, <1>4, ConfirmedStep, EntersStep, TicketStep,
     AttachStep DEF IInv

\* The inductive invariant holds in every reachable state.
THEOREM OnboardingInvariance == Spec => []IInv
BY IInvInit, IInvStep, PTL DEF Spec

\* Every sign-in of an external identity opens the one account linked to it.
THEOREM SignInsAreStable == Spec => []EntersLinkedAccount
<1>1. IInv => EntersLinkedAccount
  BY DEF IInv
<1> QED
  BY <1>1, OnboardingInvariance, PTL

\* A live account that is not verified has its token, waits for its registration
\* to store it, or lost it to a failed call or a crash: nothing else that the
\* service, the clock or the other requests do leaves an account without one.
THEOREM TicketsLastLongEnough == Spec => []UnverifiedKeepsTicket
<1>1. IInv => UnverifiedKeepsTicket
  BY DEF IInv
<1> QED
  BY <1>1, OnboardingInvariance, PTL

\* An identity joins an account it did not create only under a certified address.
THEOREM JoiningTakesCertification == Spec => []AttachedOnlyIfCertified
<1>1. IInv => AttachedOnlyIfCertified
  BY DEF IInv
<1> QED
  BY <1>1, OnboardingInvariance, PTL

\* Accounts that are deleted keep their row.
DeletedExist == \A a \in deleted : Exists(a)

THEOREM RowsOutliveDeletion == Spec => []DeletedExist
<1>1. Init => DeletedExist
  BY DEF Init, DeletedExist
<1>2. IInv /\ DeletedExist /\ [Next]_vars => DeletedExist'
  <2> SUFFICES ASSUME IInv, DeletedExist, [Next]_vars PROVE DeletedExist'
    OBVIOUS
  <2>1. OnboardingTypeOK /\ TablesAdvance
    BY TablesMoveForward DEF IInv
  <2>2. \A a \in deleted' : a \in Account /\ (a \in deleted \/ Exists(a))
    <3>1. CASE UNCHANGED deleted
      BY <2>1, <3>1 DEF OnboardingTypeOK
    <3>2. ASSUME NEW a \in Account, DeleteUser(a)
          PROVE  \A b \in deleted' : b \in Account /\ (b \in deleted \/ Exists(b))
      BY <2>1, <3>2 DEF DeleteUser, OnboardingTypeOK
    <3> QED
      BY <3>1, <3>2, ZenonT(30)
      DEF Next, Arrive, Proceed, Crash, RegisterUser, CreateUser, InsertUser, GrantRole,
          StoreTicket, VerifyEmail, MarkUserAsVerified, DeleteEmailVerificationToken,
          FindOAuthAccount, FindLinkedUser, MatchAddress, CreateOAuthUser, LinkAccount,
          ExpireTicket, users, vars
  <2> QED
    BY <2>1, <2>2 DEF DeletedExist, TablesAdvance, Exists, OnboardingTypeOK
<1> QED
  BY <1>1, <1>2, OnboardingInvariance, PTL DEF Spec

\* The sign-in of request r chose the account, or created it, and has yet to link it.
Joins(r, a) ==
  pc[r] \in {"grantRole", "link"} /\ job[r].account = a /\ job[r].ident # None

\* The step of a request that does not join a deleted account leads it to none.
LEMMA OwnJoin ==
  ASSUME OnboardingTypeOK, DeletedExist, NEW r \in Req, NEW a \in deleted, ~Joins(r, a),
         Arrive(r) \/ Proceed(r) \/ Crash(r)
  PROVE  ~Joins(r, a)'
<1> USE OnboardingAssumption DEF OnboardingTypeOK, Joins
<1>1. CASE Answer(r, "failed") \/ Answer(r, "ok")
  BY <1>1 DEF Answer, Begin
<1>2. CASE \E stage \in Stage \ {"grantRole", "link"} : pc' = [pc EXCEPT ![r] = stage]
  BY <1>2
<1>3. CASE CreateUser(r) \/ CreateOAuthUser(r)
  <2>1. ASSUME NEW b \in Account, NEW stage, ~Exists(b),
               Begin(r, stage, [job[r] EXCEPT !.account = b])
        PROVE  ~Joins(r, a)'
    <3>1. job'[r].account = b
      BY <2>1, JobFields DEF Begin
    <3> QED
      BY <2>1, <3>1 DEF DeletedExist
  <2> QED
    BY <1>1, <1>3, <2>1, Zenon DEF CreateUser, CreateOAuthUser, InsertUser
<1>4. CASE GrantRole(r)
  BY <1>4 DEF GrantRole, Continue
<1>5. CASE MatchAddress(r)
  <2>1. ASSUME NEW b \in Account \ deleted, Begin(r, "link", [job[r] EXCEPT !.account = b])
        PROVE  ~Joins(r, a)'
    <3>1. job'[r].account = b
      BY <2>1, JobFields DEF Begin
    <3> QED
      BY <3>1
  <2> QED
    BY <1>1, <1>2, <1>5, <2>1 DEF MatchAddress, Visible, Holder, Continue, Stage
<1> QED
  BY <1>1, <1>2, <1>3, <1>4, <1>5
  DEF Arrive, Proceed, Crash, RegisterUser, StoreTicket, VerifyEmail, MarkUserAsVerified,
      DeleteEmailVerificationToken, FindOAuthAccount, FindLinkedUser, Enter, LinkAccount,
      Begin, Continue, Stage, Resting

\* No step lets an identity into a deleted account that no sign-in joins.
LEMMA OwnEntry ==
  ASSUME OnboardingTypeOK, NEW r \in Req, NEW a \in deleted, ~Joins(r, a), JobFilled(r),
         FindLinkedUser(r) \/ LinkAccount(r), NEW x \in External, <<x, a>> \in entered'
  PROVE  <<x, a>> \in entered
<1> USE OnboardingAssumption DEF Enter
<1>1. CASE UNCHANGED entered
  BY <1>1
<1>2. CASE FindLinkedUser(r) /\ job[r].account \notin deleted
  BY <1>2 DEF FindLinkedUser
<1>3. CASE LinkAccount(r)
  <2>1. job[r].account # a
    BY <1>3 DEF LinkAccount, JobFilled, Joins
  <2> QED
    BY <1>3, <2>1 DEF LinkAccount
<1> QED
  BY <1>1, <1>2, <1>3 DEF FindLinkedUser

\* No step brings a deleted account to a sign-in that did not have it in hand.
LEMMA DeletedStep ==
  ASSUME OnboardingTypeOK, RequestsMatchTables, DeletedExist, [Next]_vars,
         NEW a \in deleted, ~BeingJoined(a)
  PROVE  /\ ~BeingJoined(a)'
         /\ \A x \in External : <<x, a>> \in entered' => <<x, a>> \in entered
<1>1. \A r \in Req : ~Joins(r, a)
  BY DEF BeingJoined, Joins
<1>2. ASSUME NEW r \in Req, Arrive(r) \/ Proceed(r) \/ Crash(r)
      PROVE  ~BeingJoined(a)'
  <2>1. ~Joins(r, a)'
    BY <1>1, <1>2, OwnJoin
  <2>2. \A q \in Req \ {r} : ~Joins(q, a)'
    BY <1>1, <1>2, OthersStay DEF Joins
  <2> QED
    BY <2>1, <2>2 DEF BeingJoined, Joins
<1>3. ASSUME NEW r \in Req, FindLinkedUser(r) \/ LinkAccount(r), NEW x \in External,
             <<x, a>> \in entered'
      PROVE  <<x, a>> \in entered
  BY <1>1, <1>3, OwnEntry DEF RequestsMatchTables
<1>4. (\E r \in Req : FindLinkedUser(r) \/ LinkAccount(r)) \/ UNCHANGED entered
  BY ZenonT(30)
  DEF Next, Arrive, Proceed, Crash, RegisterUser, CreateUser, GrantRole, StoreTicket,
      VerifyEmail, MarkUserAsVerified, DeleteEmailVerificationToken, FindOAuthAccount,
      MatchAddress, CreateOAuthUser, DeleteUser, ExpireTicket, history, vars
<1>5. (\E r \in Req : Arrive(r) \/ Proceed(r) \/ Crash(r)) \/ UNCHANGED <<pc, job>>
  BY DEF Next, DeleteUser, ExpireTicket, vars
<1>6. UNCHANGED <<pc, job>> => ~BeingJoined(a)'
  BY DEF BeingJoined
<1> QED
  BY <1>2, <1>3, <1>4, <1>5, <1>6

\* Once an account is deleted, no lookup of any sign-in leads to it any more.
THEOREM DeletionShutsOut == Spec => DeletedIsJoinedNoMore
<1>1. IInv /\ DeletedExist /\ [Next]_vars =>
        [\A a \in deleted : ~BeingJoined(a) =>
           /\ ~BeingJoined(a)'
           /\ \A x \in External : <<x, a>> \in entered' => <<x, a>> \in entered]_vars
  BY DeletedStep DEF IInv
<1> QED
  BY <1>1, OnboardingInvariance, RowsOutliveDeletion, PTL DEF Spec, DeletedIsJoinedNoMore

\* Every variable keeps its type: the tables refer to rows that exist.
THEOREM OnboardingIsTyped == Spec => []OnboardingTypeOK
<1>1. IInv => OnboardingTypeOK
  BY DEF IInv
<1> QED
  BY <1>1, OnboardingInvariance, PTL

\* Every request agrees with the tables: what it read of them is still true.
THEOREM OnboardingIsSound == Spec => []RequestsMatchTables
<1>1. IInv => RequestsMatchTables
  BY DEF IInv
<1> QED
  BY <1>1, OnboardingInvariance, PTL

(***************************************************************************)
(* Onboarding implements Directory.                                        *)
(***************************************************************************)
LEMMA DirectoryInit == Init => Dir!Init
BY DEF Init, Dir!Init

\* Each step of the service is one step of the directory or none.
LEMMA DirectoryStep ==
  ASSUME OnboardingTypeOK, RequestsMatchTables, [Next]_vars
  PROVE  [Dir!Next]_Dir!vars
<1> USE OnboardingAssumption DEF OnboardingTypeOK, users
<1>1. CASE UNCHANGED <<address, verified, deleted, link>>
  BY <1>1 DEF Dir!vars
<1>2. ASSUME NEW r \in Req, CreateUser(r) \/ CreateOAuthUser(r), ~UNCHANGED users
      PROVE  Dir!Next
  <2>1. /\ job[r].address \in Address
        /\ \E confirmed \in BOOLEAN, stages \in SUBSET Stage :
             InsertUser(r, confirmed, stages)
        /\ link' = link
    BY <1>2 DEF CreateUser, CreateOAuthUser, RequestsMatchTables, JobFilled, Stage
  <2>2. PICK confirmed \in BOOLEAN, a \in Account :
          /\ Holder(job[r].address) = {} /\ ~Exists(a)
          /\ address' = [address EXCEPT ![a] = job[r].address]
          /\ verified' = verified \cup (IF confirmed THEN {a} ELSE {})
          /\ UNCHANGED deleted
    BY <1>2, <2>1 DEF InsertUser
  <2>3. Dir!Enrol(a, job[r].address, confirmed)
    BY <2>1, <2>2 DEF Dir!Enrol, Dir!Exists, Exists, Holder
  <2> QED
    BY <2>1, <2>3 DEF Dir!Next
<1>3. ASSUME NEW r \in Req, MarkUserAsVerified(r), ~UNCHANGED verified
      PROVE  Dir!Next
  <2>0. job[r].account \in Account /\ Exists(job[r].account)
    BY <1>3 DEF MarkUserAsVerified, RequestsMatchTables, JobFilled
  <2>1. /\ verified' = verified \cup ({job[r].account} \ deleted)
        /\ UNCHANGED <<address, deleted, link>>
    BY <1>3 DEF MarkUserAsVerified
  <2>2. job[r].account \notin deleted
    <3>1. CASE job[r].account \in deleted
      <4>1. {job[r].account} \ deleted = {}
        BY <3>1
      <4> QED
        BY <1>3, <2>1, <4>1
    <3> QED
      BY <3>1
  <2>3. verified' = verified \cup {job[r].account}
    BY <2>1, <2>2
  <2>4. Dir!Confirm(job[r].account)
    BY <2>0, <2>1, <2>2, <2>3 DEF Dir!Confirm, Dir!Exists, Exists
  <2> QED
    BY <2>0, <2>4 DEF Dir!Next
<1>4. ASSUME NEW r \in Req, LinkAccount(r), ~UNCHANGED link
      PROVE  Dir!Next
  <2>1. /\ job[r].account \in Account /\ Exists(job[r].account)
        /\ job[r].ident \in External /\ link[job[r].ident] = None
        /\ link' = [link EXCEPT ![job[r].ident] = job[r].account]
        /\ UNCHANGED <<address, verified, deleted>>
    BY <1>4 DEF LinkAccount, RequestsMatchTables, JobFilled
  <2>2. Dir!Attach(job[r].ident, job[r].account)
    BY <2>1 DEF Dir!Attach, Dir!Exists, Exists
  <2> QED
    BY <2>1, <2>2 DEF Dir!Next
<1>5. ASSUME NEW a \in Account, DeleteUser(a) PROVE Dir!Next
  <2>1. Dir!Remove(a)
    BY <1>5 DEF DeleteUser, Dir!Remove, Dir!Exists, Exists
  <2> QED
    BY <2>1 DEF Dir!Next
<1> QED
  BY <1>1, <1>2, <1>3, <1>4, <1>5, ZenonT(30)
  DEF Next, vars, Arrive, Proceed, Crash, RegisterUser, CreateUser, CreateOAuthUser,
      GrantRole, StoreTicket, VerifyEmail, MarkUserAsVerified,
      DeleteEmailVerificationToken, FindOAuthAccount, FindLinkedUser, MatchAddress,
      LinkAccount, ExpireTicket

\* The handlers, cut at every repository call, implement the abstract directory.
THEOREM OnboardingImplementsDirectory == Spec => DirectorySpec
<1>1. IInv /\ [Next]_vars => [Dir!Next]_Dir!vars
  BY DirectoryStep DEF IInv
<1> QED
  BY <1>1, DirectoryInit, OnboardingInvariance, PTL DEF Spec, DirectorySpec, Dir!Spec

(***************************************************************************)
(* How far a handler can go.                                               *)
(***************************************************************************)
\* The repository calls a handler at this stage may still make.
CallsLeft(stage) ==
  CASE stage = "match" -> 4
    [] stage \in {"createUser", "createClient"} -> 3
    [] stage \in {"grantRole", "mark"} -> 2
    [] stage \in {"storeTicket", "drop", "openLinked", "link"} -> 1
    [] OTHER -> 0

LEMMA OwnCallsRunOut ==
  ASSUME OnboardingTypeOK, NEW r \in Req, Proceed(r) \/ Crash(r)
  PROVE  CallsLeft(pc'[r]) \in Nat /\ CallsLeft(pc'[r]) < CallsLeft(pc[r])
<1> USE DEF OnboardingTypeOK, Begin, Continue, Answer, CallsLeft
<1>1. CASE Crash(r)
  <2>1. pc[r] \in Stage \ Resting /\ pc'[r] = "failed"
    BY <1>1 DEF Crash, Free
  <2> QED
    BY <2>1 DEF Stage, Resting
<1>2. CASE CreateUser(r) \/ CreateOAuthUser(r)
  BY <1>2 DEF CreateUser, CreateOAuthUser, InsertUser
<1>3. CASE GrantRole(r) \/ StoreTicket(r)
  BY <1>3 DEF GrantRole, StoreTicket
<1>4. CASE MarkUserAsVerified(r) \/ DeleteEmailVerificationToken(r)
  BY <1>4 DEF MarkUserAsVerified, DeleteEmailVerificationToken
<1>5. CASE FindLinkedUser(r) \/ LinkAccount(r)
  BY <1>5 DEF FindLinkedUser, LinkAccount, Enter
<1>6. CASE MatchAddress(r)
  BY <1>6 DEF MatchAddress
<1> QED
  BY <1>1, <1>2, <1>3, <1>4, <1>5, <1>6 DEF Proceed

\* No handler of this module loops or waits for another: each step it takes
\* leaves it fewer calls, at most four from its arrival to its answer, and no
\* step of another request sends it back.
THEOREM HandlersEnd ==
  Spec => [][\A r \in Req : ~Free(r) =>
               \/ pc'[r] = pc[r] /\ ~Proceed(r)
               \/ CallsLeft(pc'[r]) < CallsLeft(pc[r])]_vars
<1>1. ASSUME OnboardingTypeOK, [Next]_vars, NEW r \in Req, ~Free(r)
      PROVE  (pc'[r] = pc[r] /\ ~Proceed(r)) \/ CallsLeft(pc'[r]) < CallsLeft(pc[r])
  <2>1. CASE Proceed(r) \/ Crash(r)
    BY <2>1, <1>1, OwnCallsRunOut
  <2>2. CASE UNCHANGED vars \/ \E a \in Account : DeleteUser(a) \/ ExpireTicket(a)
    <3>1. UNCHANGED pc
      BY <2>2 DEF vars, DeleteUser, ExpireTicket
    <3> QED
      BY <2>1, <3>1
  <2>3. ASSUME NEW q \in Req \ {r}, Arrive(q) \/ Proceed(q) \/ Crash(q)
        PROVE  pc'[r] = pc[r]
    BY <1>1, <2>3, OthersStay
  <2>4. ~Arrive(r)
    BY <1>1 DEF Arrive, RegisterUser, VerifyEmail, FindOAuthAccount
  <2> QED
    BY <1>1, <2>1, <2>2, <2>3, <2>4 DEF Next
<1>2. OnboardingTypeOK /\ [Next]_vars =>
        [\A r \in Req : ~Free(r) => \/ pc'[r] = pc[r] /\ ~Proceed(r)
                                    \/ CallsLeft(pc'[r]) < CallsLeft(pc[r])]_vars
  BY <1>1
<1> QED
  BY <1>2, OnboardingIsTyped, PTL DEF Spec

\* What a row says of whom it belongs to is for ever: no later registration,
\* sign-in, verification, deletion or crash gives an address, a creator or an
\* identity to another account, or undoes a verification or a certification.
THEOREM BelongingsAreForEver == Spec => [][TablesAdvance]_vars
<1>1. OnboardingTypeOK /\ [Next]_vars => [TablesAdvance]_vars
  BY TablesMoveForward
<1> QED
  BY <1>1, OnboardingIsTyped, PTL DEF Spec

(***************************************************************************)
(* Why a sign-in may miss the account it should join (run onboarding_case).*)
(***************************************************************************)
\* The addresses of sign-ins are in lower case, and so are those of the accounts
\* that sign-ins create.
SignInsAreLower ==
  /\ \A r \in Req : job[r].ident # None => Lower(job[r].address) = job[r].address
  /\ \A a \in Account : Exists(a) /\ creator[a] # None => Lower(address[a]) = address[a]

LEMMA SignInsAreLowerStep ==
  ASSUME OnboardingTypeOK, RequestsMatchTables, SignInsAreLower, [Next]_vars,
         \A e \in Address : Lower(Lower(e)) = Lower(e)
  PROVE  SignInsAreLower'
<1> USE OnboardingAssumption DEF OnboardingTypeOK, SignInsAreLower
<1>1. ASSUME NEW q \in Req, job'[q].ident # None
      PROVE  Lower(job'[q].address) = job'[q].address
  <2>1. CASE job'[q].ident = job[q].ident /\ job'[q].address = job[q].address
    BY <1>1, <2>1
  <2>2. ASSUME NEW x \in External, NEW e \in Address, NEW c \in BOOLEAN,
               FindOAuthAccount(q, x, e, c)
        PROVE  job'[q].address = Lower(e)
    <3> DEFINE carried == [account |-> None, address |-> Lower(e), ident |-> x,
                           certified |-> c]
    <3>1. \A a : carried.address = Lower(e) /\ [carried EXCEPT !.account = a].address = Lower(e)
      OBVIOUS
    <3>2. job'[q] = carried \/ job'[q] = [carried EXCEPT !.account = link[x]]
      BY <2>2 DEF FindOAuthAccount, Begin
    <3> QED
      BY <3>1, <3>2
  <2>3. CASE job'[q] = NoJob
    BY <1>1, <2>3 DEF NoJob
  <2>4. ASSUME NEW a \in Account, job'[q] = [job[q] EXCEPT !.account = a]
        PROVE  job'[q].ident = job[q].ident /\ job'[q].address = job[q].address
    BY <2>4, JobFields
  <2>5. ASSUME NEW e \in Address, RegisterUser(q, e) PROVE job'[q].ident = None
    BY <2>5, JobFields DEF RegisterUser, Answer, Begin, NoJob
  <2>6. ASSUME NEW a \in Account, VerifyEmail(q, a) PROVE job'[q].ident = None
    BY <2>6 DEF VerifyEmail, Answer, Begin, NoJob
  <2>7. ASSUME Proceed(q) \/ Crash(q)
        PROVE  \/ job'[q] = job[q] \/ job'[q] = NoJob
               \/ \E a \in Account : job'[q] = [job[q] EXCEPT !.account = a]
    BY <2>7
    DEF Proceed, Crash, CreateUser, InsertUser, GrantRole, StoreTicket, MarkUserAsVerified,
        DeleteEmailVerificationToken, FindLinkedUser, Enter, MatchAddress, Visible, Holder,
        CreateOAuthUser, LinkAccount, Begin, Continue, Answer
  <2>8. CASE Arrive(q)
    BY <1>1, <2>2, <2>5, <2>6, <2>8 DEF Arrive
  <2>9. CASE Proceed(q) \/ Crash(q)
    BY <2>1, <2>3, <2>4, <2>7, <2>9
  <2>10. CASE job'[q] = job[q]
    BY <2>1, <2>10
  <2> QED
    BY <2>8, <2>9, <2>10, OthersStay DEF Next, vars, DeleteUser, ExpireTicket
<1>2. ASSUME NEW a \in Account, address'[a] # None, creator'[a] # None
      PROVE  Lower(address'[a]) = address'[a]
  <2>1. CASE Exists(a)
    BY <1>2, <2>1, TablesMoveForward DEF TablesAdvance, Exists
  <2>2. CASE ~Exists(a)
    <3>1. PICK r \in Req : CreateUser(r) \/ CreateOAuthUser(r)
      BY <1>2, <2>2, ZenonT(30)
      DEF Next, vars, users, Arrive, Proceed, Crash, RegisterUser, GrantRole, StoreTicket,
          VerifyEmail, MarkUserAsVerified, DeleteEmailVerificationToken, FindOAuthAccount,
          FindLinkedUser, MatchAddress, LinkAccount, DeleteUser, ExpireTicket, Exists
    <3>2. ~UNCHANGED users
      BY <1>2, <2>2 DEF users, Exists
    <3>3. PICK b \in Account, stage \in {"grantRole", "storeTicket"} :
            /\ ~Exists(b) /\ Holder(job[r].address) = {}
            /\ address' = [address EXCEPT ![b] = job[r].address]
            /\ creator' = [creator EXCEPT ![b] = job[r].ident]
            /\ Begin(r, stage, [job[r] EXCEPT !.account = b])
            /\ AutoVerify \/ CreateOAuthUser(r) => verified' = verified \cup {b}
      BY <3>1, <3>2, Inserting
    <3>4. a = b
      BY <1>2, <2>2, <3>3 DEF Exists
    <3> QED
      BY <1>2, <3>3, <3>4
  <2> QED
    BY <2>1, <2>2
<1> QED
  BY <1>1, <1>2 DEF Exists

\* The insert at the end of a sign-in, seen from the outside.
LEMMA SignInInserts ==
  ASSUME OnboardingTypeOK, [Next]_vars, NEW r \in Req,
         pc[r] = "createClient", pc'[r] = "grantRole"
  PROVE  Holder(job[r].address) = {}
<1>1. Proceed(r)
  <2>1. Arrive(r) \/ Proceed(r) \/ Crash(r)
    BY OthersStay DEF Next, vars, DeleteUser, ExpireTicket
  <2> QED
    BY <2>1 DEF Arrive, Free, Resting, RegisterUser, VerifyEmail, FindOAuthAccount, Crash,
       Answer, Begin, OnboardingTypeOK
<1>2. CreateOAuthUser(r)
  BY <1>1 DEF Proceed, CreateUser, GrantRole, StoreTicket, MarkUserAsVerified,
     DeleteEmailVerificationToken, FindLinkedUser, MatchAddress, LinkAccount
<1>3. ~Answer(r, "failed")
  BY DEF Answer, Begin, OnboardingTypeOK
<1> QED
  BY <1>2, <1>3 DEF CreateOAuthUser, InsertUser

\* Where addresses are only written in lower case, a sign-in under a certified
\* address always joins the account of that address: the spelling is the one
\* cause of the accounts that the run finds doubled, and no race, failed lookup
\* or crash is another.
THEOREM LowerCaseJoins ==
  ASSUME \A e \in Address : Lower(e) = e
  PROVE  Spec => JoinsExistingAccount
<1>1. OnboardingTypeOK /\ [Next]_vars =>
        [\A r \in Req : pc[r] = "createClient" /\ pc'[r] = "grantRole" /\ job[r].certified =>
           \A a \in Account \ deleted : Exists(a) => Lower(address[a]) # job[r].address]_vars
  <2> SUFFICES ASSUME OnboardingTypeOK, [Next]_vars, NEW r \in Req, pc[r] = "createClient",
                      pc'[r] = "grantRole", NEW a \in Account, Exists(a),
                      Lower(address[a]) = job[r].address
               PROVE  FALSE
    OBVIOUS
  <2>1. address[a] = job[r].address
    BY DEF OnboardingTypeOK, Exists
  <2> QED
    BY <2>1, SignInInserts DEF Holder
<1> QED
  BY <1>1, OnboardingIsTyped, PTL DEF Spec, JoinsExistingAccount

\* And the account a sign-in misses was registered, with an address that is not
\* in lower case: no account that a sign-in created is ever doubled by another.
THEOREM OnlyRegisteredAccountsAreMissed ==
  ASSUME \A e \in Address : Lower(Lower(e)) = Lower(e)
  PROVE  Spec => [][\A r \in Req, a \in Account :
                      pc[r] = "createClient" /\ pc'[r] = "grantRole" /\ Exists(a)
                        /\ Lower(address[a]) = job[r].address
                      => address[a] # Lower(address[a]) /\ creator[a] = None]_vars
<1>1. Init => SignInsAreLower
  BY DEF Init, SignInsAreLower, NoJob, Exists
<1>2. IInv /\ SignInsAreLower /\ [Next]_vars => SignInsAreLower'
  BY SignInsAreLowerStep DEF IInv
<1>3. IInv /\ SignInsAreLower /\ [Next]_vars =>
        [\A r \in Req, a \in Account :
           pc[r] = "createClient" /\ pc'[r] = "grantRole" /\ Exists(a)
             /\ Lower(address[a]) = job[r].address
           => address[a] # Lower(address[a]) /\ creator[a] = None]_vars
  <2> SUFFICES ASSUME IInv, SignInsAreLower, [Next]_vars, NEW r \in Req, NEW a \in Account,
                      pc[r] = "createClient", pc'[r] = "grantRole", Exists(a),
                      Lower(address[a]) = job[r].address
               PROVE  address[a] # Lower(address[a]) /\ creator[a] = None
    OBVIOUS
  <2>1. address[a] # job[r].address
    BY SignInInserts DEF IInv, Holder
  <2> QED
    BY <2>1 DEF SignInsAreLower
<1> QED
  BY <1>1, <1>2, <1>3, OnboardingInvariance, PTL DEF Spec
=============================================================================
