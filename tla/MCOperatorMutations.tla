------------------------- MODULE MCOperatorMutations -------------------------
EXTENDS OperatorMutations, TLC
Symmetry == Permutations(Threads) \cup Permutations(Keys)
              \cup Permutations(Grants) \cup Permutations(Proposals)
=============================================================================
