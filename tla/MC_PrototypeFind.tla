------------------------- MODULE MC_PrototypeFind --------------------------
(* Instances of PrototypeFind for TLC.                                     *)
EXTENDS PrototypeFind

CONSTANTS far, near, pole

(* A call with several nearby cells, one with one, and one with none.      *)
MCNumNearby ==
  [c \in Calls |-> CASE c = far -> 3 [] c = near -> 1 [] OTHER -> 0]
=============================================================================
