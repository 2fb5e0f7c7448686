---------------------------- MODULE MCManageChat ----------------------------
(* ManageChat for TLC. *)
EXTENDS ManageChat
=============================================================================
