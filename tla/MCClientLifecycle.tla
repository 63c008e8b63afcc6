-------------------------- MODULE MCClientLifecycle --------------------------
EXTENDS ClientLifecycle, TLC
Symmetry == Permutations(Clients) \cup Permutations(Tokens) \cup Permutations(Threads)
=============================================================================
