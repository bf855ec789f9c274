-------------------------- MODULE MCUnsyncedCopies --------------------------
\* UnsyncedCopies with interchangeable tabs.
EXTENDS UnsyncedCopies, TLC

CONSTANTS t1, t2

TabSymmetry == Permutations(Tabs)
=============================================================================
