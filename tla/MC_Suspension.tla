---------------------------- MODULE MC_Suspension ----------------------------
(***************************************************************************)
(* Suspension on small instances: calls 1 and 2 make up the first round,   *)
(* call 3 the second.                                                      *)
(***************************************************************************)
EXTENDS Suspension, TLC

MCRoundOf == [c \in Calls |-> IF c <= 2 THEN 1 ELSE 2]

Symmetry == Permutations(Workers)

=============================================================================
