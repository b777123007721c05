---------------------------- MODULE MCRoleWrites ----------------------------
(* The instance of MCGuidance, with the writes. *)
EXTENDS RoleWrites, MCGuidance
=============================================================================
