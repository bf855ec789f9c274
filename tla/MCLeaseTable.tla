---------------------------- MODULE MCLeaseTable ----------------------------
(* Instances of LeaseTable for TLC.                                        *)
EXTENDS LeaseTable, TLC

\* No definition names or orders clients.
Symmetry == Permutations(Clients)
=============================================================================
