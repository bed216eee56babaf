------------------------------ MODULE MCSessions ------------------------------
(* Two sign-ins for one phone, with two requests at a time.                   *)
EXTENDS Sessions, TLC

CONSTANTS ph, l1, l2, r1, r2

Symmetry == Permutations(Login) \cup Permutations(Request)
=============================================================================
