--------------------------- MODULE MCServerLeases ---------------------------
(* An instance of ServerLeases for TLC. *)
EXTENDS ServerLeases
=============================================================================
