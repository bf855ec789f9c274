---------------------------- MODULE MCCollabSync ----------------------------
(* Instances of CollabSync for TLC: see the configurations.                *)
EXTENDS CollabSync
=============================================================================
