------------------------------ MODULE MCGroups ------------------------------
\* Groups for model checking: one member with a bad name, who goes on as any other
\* when Telegram refuses to restrict him, and senders that are no user.
EXTENDS Groups, TLC

CONSTANTS m1, w1, w2

Symmetry == Permutations(Worker)
=============================================================================
