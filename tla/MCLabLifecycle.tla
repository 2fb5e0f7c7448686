-------------------------- MODULE MCLabLifecycle --------------------------
(* The lab lifecycle for TLC: one lab of each execution profile. *)
EXTENDS LabLifecycle
=============================================================================
