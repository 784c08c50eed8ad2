--------------------------- MODULE MCSessionCalls ---------------------------
EXTENDS SessionCalls, TLC

Symmetry == Permutations(Threads) \cup Permutations(Ids) \cup Permutations(Names)
=============================================================================
