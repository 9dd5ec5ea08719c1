----------------------------- MODULE Directory -----------------------------
(***************************************************************************)
(* What the tables users and oauth_accounts promise, whatever happens      *)
(* concurrently: an address belongs to one account for ever, an account    *)
(* that was verified stays so, an external identity is linked once, to an  *)
(* account that exists, and a deleted account changes no more.             *)
(* Module Onboarding is shown to implement this specification.             *)
(***************************************************************************)
CONSTANTS Account, Address, External, None

VARIABLES
  address,   \* the address of each account, None before it exists
  verified,  \* the accounts whose address is verified
  deleted,   \* the accounts that were soft-deleted
  link       \* the account of each external identity, None before it has one

vars == <<address, verified, deleted, link>>

Exists(a) == address[a] # None

Init ==
  /\ address = [a \in Account |-> None]
  /\ verified = {}
  /\ deleted = {}
  /\ link = [x \in External |-> None]

Enrol(a, e, confirmed) ==
  /\ ~Exists(a)
  /\ \A b \in Account : address[b] # e
  /\ address' = [address EXCEPT ![a] = e]
  /\ verified' = verified \cup (IF confirmed THEN {a} ELSE {})
  /\ UNCHANGED <<deleted, link>>

Confirm(a) ==
  /\ Exists(a) /\ a \notin deleted
  /\ verified' = verified \cup {a}
  /\ UNCHANGED <<address, deleted, link>>

Attach(x, a) ==
  /\ link[x] = None
  /\ Exists(a)
  /\ link' = [link EXCEPT ![x] = a]
  /\ UNCHANGED <<address, verified, deleted>>

Remove(a) ==
  /\ Exists(a) /\ a \notin deleted
  /\ deleted' = deleted \cup {a}
  /\ UNCHANGED <<address, verified, link>>

Next ==
  \E a \in Account :
    \/ Confirm(a) \/ Remove(a)
    \/ \E e \in Address, confirmed \in BOOLEAN : Enrol(a, e, confirmed)
    \/ \E x \in External : Attach(x, a)

Spec == Init /\ [][Next]_vars
=============================================================================
