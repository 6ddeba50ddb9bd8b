------------------------------ MODULE MCAgent ------------------------------
EXTENDS Agent, TLC
Symmetry == Permutations(Conn)
=============================================================================
