------------------------------ MODULE MC_Delivery ------------------------------
(***************************************************************************)
(* Delivery on small instances: a prompt with an id and a steer.           *)
(***************************************************************************)
EXTENDS Delivery, TLC

Symmetry == Permutations(Owners)

=============================================================================
