---------------------------- MODULE MCAdderLimits ----------------------------
EXTENDS AdderLimits, TLC

Symmetry == Permutations(Phones)
=============================================================================
