---------------------------- MODULE MCParallelAdd ----------------------------
(* Two or three accounts, four or five members, some of them unusable.      *)
EXTENDS ParallelAdd, TLC

Symmetry == Permutations(Accounts)
=============================================================================
