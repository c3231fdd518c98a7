------------------------------- MODULE MCRoles -------------------------------
(* Instances of Roles for TLC. *)
EXTENDS Roles, TLC

CONSTANTS c, x, y
=============================================================================
