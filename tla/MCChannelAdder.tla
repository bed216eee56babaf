--------------------------- MODULE MCChannelAdder ---------------------------
\* ChannelAdder for model checking.
EXTENDS ChannelAdder, TLC

CONSTANTS a1, a2, u1, u2, u3

Symmetry == Permutations(Account) \cup Permutations(User)
=============================================================================
