---------------------------- MODULE MCWebClient ----------------------------
(* Two tabs of one browser, and one account. *)
EXTENDS WebClient
=============================================================================
