------------------------------ MODULE MCHelper ------------------------------
EXTENDS Helper, TLC

Symmetry == Permutations(Helper)
=============================================================================
