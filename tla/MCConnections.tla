--------------------------- MODULE MCConnections ---------------------------
(* Connections on a small instance. *)
EXTENDS Connections, TLC

CONSTANTS u1, u2
=============================================================================
