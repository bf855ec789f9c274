-------------------------- MODULE MCSubscriptions --------------------------
(* Subscriptions on a small instance. *)
EXTENDS Subscriptions, TLC

CONSTANTS c1, c2
=============================================================================
