------------------------- MODULE MCAccountDeletion -------------------------
(* AccountDeletion on a small instance. *)
EXTENDS AccountDeletion, TLC

CONSTANTS p1, p2
=============================================================================
