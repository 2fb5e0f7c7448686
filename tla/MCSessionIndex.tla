--------------------------- MODULE MCSessionIndex ---------------------------
(* SessionIndex for TLC. *)
EXTENDS SessionIndex, TLC

(* The keys are ordered, the updaters are interchangeable. *)
Symmetry == Permutations(Updaters)
=============================================================================
