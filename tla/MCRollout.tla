----------------------------- MODULE MCRollout -----------------------------
(* Two pods replaced by two others, one crash at most. *)
EXTENDS Rollout
=============================================================================
