--------------------------- MODULE MCConversation ---------------------------
(* Instances of Conversation for TLC.  Nonces and texts are only compared    *)
(* with each other, so each is a symmetry set.                               *)
EXTENDS Conversation, TLC

Symmetry == Permutations(Nonces) \union Permutations(Texts)
=============================================================================
