--------------------------- MODULE MCConversation ---------------------------
\* Conversation for model checking.
EXTENDS Conversation, TLC

CONSTANTS a1, a2, h1, h2

Symmetry == Permutations(Account) \cup Permutations(Handler)
=============================================================================
