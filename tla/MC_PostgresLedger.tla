-------------------------- MODULE MC_PostgresLedger --------------------------
(***************************************************************************)
(* PostgresLedger on small instances: three workers that succeed each      *)
(* other on one branch.                                                    *)
(***************************************************************************)
EXTENDS PostgresLedger, TLC

Symmetry == Permutations(Workers)

=============================================================================
