---------------------------- MODULE MCRouterLeases ----------------------------
EXTENDS RouterLeases, TLC

MCCharges == {1, 2}
Symmetry == Permutations(Requests)
=============================================================================
