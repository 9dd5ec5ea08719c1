---------------------------- MODULE MCOnboarding ----------------------------
(* Two addresses, or two spellings of one that only differ in case. *)
EXTENDS Onboarding, TLC

CONSTANTS one, other

AsIs(e) == e
ToLower(e) == IF e = one THEN other ELSE e

Interchangeable == Permutations(Req) \cup Permutations(Account)
=============================================================================
