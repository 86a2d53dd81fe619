---------------------------- MODULE MC_Conversation ----------------------------
(***************************************************************************)
(* Conversation on small instances.                                        *)
(***************************************************************************)
EXTENDS Conversation, TLC

Symmetry == Permutations(Attempts) \cup Permutations(Branches) \cup Permutations(Messages)

=============================================================================
