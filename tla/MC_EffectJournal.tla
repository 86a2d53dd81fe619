--------------------------- MODULE MC_EffectJournal ---------------------------
(***************************************************************************)
(* EffectJournal on small instances.                                       *)
(***************************************************************************)
EXTENDS EffectJournal, TLC

MCAfterKey == [c \in ToolKeys |-> <<"after", c>>]

MCControlKeys == {<<"after", c>> : c \in ToolKeys}

Symmetry == Permutations(Attempts) \cup Permutations(Hosts) \cup Permutations(DecisionIds)

=============================================================================
