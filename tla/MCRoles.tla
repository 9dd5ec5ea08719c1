------------------------------ MODULE MCRoles ------------------------------
(* Three names: "admin", "Admin" and one, "chef!", that opens nothing. *)
EXTENDS Roles, TLC

CONSTANTS admin, chef

Names == {[text |-> admin, capitals |-> FALSE, marks |-> FALSE],
          [text |-> admin, capitals |-> TRUE, marks |-> FALSE],
          [text |-> chef, capitals |-> FALSE, marks |-> TRUE]}

Interchangeable == Permutations(User) \cup Permutations(Client) \cup Permutations(Req)
=============================================================================
