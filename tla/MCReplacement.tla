---------------------------- MODULE MCReplacement ----------------------------
EXTENDS Replacement, TLC
CONSTANTS a1, a2
Symmetry == Permutations(Attempts)
=============================================================================
