--------------------------- MODULE MCSessionStore ---------------------------
EXTENDS SessionProperties, TLC

Symmetry == Permutations(Threads) \cup Permutations(Ids) \cup Permutations(Names)
=============================================================================
