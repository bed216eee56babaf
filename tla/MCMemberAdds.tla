---------------------------- MODULE MCMemberAdds ----------------------------
EXTENDS MemberAdds, TLC

Symmetry == Permutations(User) \cup Permutations(Worker)
=============================================================================
