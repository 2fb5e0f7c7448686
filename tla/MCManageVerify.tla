--------------------------- MODULE MCManageVerify ---------------------------
(* ManageVerify for TLC: calls are interchangeable. *)
EXTENDS ManageVerify, TLC

Symmetry == Permutations(Callers)
=============================================================================
