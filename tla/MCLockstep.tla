----------------------------- MODULE MCLockstep -----------------------------
EXTENDS Lockstep, TLC

CONSTANTS c1, c2

Symmetry == Permutations(Client)
=============================================================================
