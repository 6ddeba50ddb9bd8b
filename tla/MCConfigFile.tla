---------------------------- MODULE MCConfigFile ----------------------------
EXTENDS ConfigFile, TLC

Symmetry == Permutations(Command) \cup Permutations(Host)
=============================================================================
