-------------------------------- MODULE MC_Fork --------------------------------
(***************************************************************************)
(* Fork on small instances.                                                *)
(***************************************************************************)
EXTENDS Fork, TLC

MCAfterKey == [c \in ToolKeys |-> <<"after", c>>]

MCControlKeys == {<<"after", c>> : c \in ToolKeys}

CONSTANTS a1, a2

(* The two attempts differ only in their names: it is enough that they begin  *)
(* in this order.  Nothing is fair about beginning, so this is sound for      *)
(* liveness too.                                                              *)
NamedInOrder == phase'[a2] # "new" => phase[a1] # "new"

=============================================================================
