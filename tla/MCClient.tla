------------------------------ MODULE MCClient ------------------------------
EXTENDS ClientWorld, TLC

Symmetry == Permutations(Apps)
=============================================================================
