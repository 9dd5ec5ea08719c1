--------------------------- MODULE AccountLedger ---------------------------
(***************************************************************************)
(* What the account database promises, whatever the handlers of the        *)
(* auth-service do to it concurrently: every write touches one table, a    *)
(* refresh token and a reset key only ever move forward in their life, and *)
(* an account that was deleted keeps the password it had.                  *)
(* Module Sessions, where a handler is a series of separate repository     *)
(* calls, is shown to implement this specification.                        *)
(***************************************************************************)
CONSTANTS User, Password, Token, Key

VARIABLES
  password,  \* the password of each account
  deleted,   \* the accounts that were soft-deleted
  session,   \* the life of each refresh token
  key        \* the life of each password reset key

vars == <<password, deleted, session, key>>

Init ==
  /\ password \in [User -> Password]
  /\ deleted = {}
  /\ session = [t \in Token |-> "absent"]
  /\ key = [k \in Key |-> "absent"]

\* A token comes to life once. The unique index refuses a second row for it.
Open(t) ==
  /\ session[t] = "absent"
  /\ session' = [session EXCEPT ![t] = "active"]
  /\ UNCHANGED <<password, deleted, key>>

\* Some live tokens are revoked in one write, and none of them ever returns.
Close(T) ==
  /\ \A t \in T : session[t] = "active"
  /\ session' = [t \in Token |-> IF t \in T THEN "revoked" ELSE session[t]]
  /\ UNCHANGED <<password, deleted, key>>

Issue(k) ==
  /\ key[k] = "absent"
  /\ key' = [key EXCEPT ![k] = "open"]
  /\ UNCHANGED <<password, deleted, session>>

Spend(k) ==
  /\ key[k] = "open"
  /\ key' = [key EXCEPT ![k] = "used"]
  /\ UNCHANGED <<password, deleted, session>>

\* A password is only ever written on an account that still exists.
SetPassword(u, p) ==
  /\ u \notin deleted
  /\ password' = [password EXCEPT ![u] = p]
  /\ UNCHANGED <<deleted, session, key>>

Remove(u) ==
  /\ u \notin deleted
  /\ deleted' = deleted \cup {u}
  /\ UNCHANGED <<password, session, key>>

Next ==
  \/ \E t \in Token : Open(t)
  \/ \E T \in SUBSET Token : Close(T)
  \/ \E k \in Key : Issue(k) \/ Spend(k)
  \/ \E u \in User, p \in Password : SetPassword(u, p)
  \/ \E u \in User : Remove(u)

Spec == Init /\ [][Next]_vars
=============================================================================
