------------------------------- MODULE MCBio -------------------------------
EXTENDS Bio, TLC

Symmetry == Permutations(Accesses) \cup Permutations(Blocks)
=============================================================================
