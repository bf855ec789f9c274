---------------------------- MODULE MCLeaseGates ----------------------------
(* Instances of LeaseGates for TLC: see the configurations.                *)
EXTENDS LeaseGates, TLC

ClientSymmetry == Permutations(Clients)
=============================================================================
