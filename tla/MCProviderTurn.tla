--------------------------- MODULE MCProviderTurn ---------------------------
(* An instance of ProviderTurn for TLC. *)
EXTENDS ProviderTurn
=============================================================================
