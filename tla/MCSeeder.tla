------------------------------ MODULE MCSeeder ------------------------------
(* Two roles, and two accounts of which the first is a manager. *)
EXTENDS Seeder

CONSTANTS admin, client, chief, eater

TwoRoles == <<admin, client>>
TwoUsers == <<chief, eater>>
=============================================================================
