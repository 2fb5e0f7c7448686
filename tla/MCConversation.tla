--------------------------- MODULE MCConversation ---------------------------
(* Conversation for TLC. *)
EXTENDS Conversation, TLC

(* The providers other than the default one are interchangeable. *)
Symmetry == Permutations(Providers \ {DefaultProvider})
=============================================================================
