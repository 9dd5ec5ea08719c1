---------------------------- MODULE MCOAuthFlow ----------------------------
(* Two browsers, two flows, two Callbacks at once. *)
EXTENDS OAuthFlow, TLC

Interchangeable ==
  Permutations(Browser) \cup Permutations(State) \cup Permutations(Code) \cup Permutations(Req)
=============================================================================
