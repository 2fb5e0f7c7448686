--------------------------- MODULE MCLabStateFile ---------------------------
(* The lab's state file for TLC. *)
EXTENDS LabStateFile
=============================================================================
