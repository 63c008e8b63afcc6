-------------------------- MODULE MCDevelopmentJobs --------------------------
EXTENDS DevelopmentJobs, TLC
Symmetry == Permutations(Jobs) \cup Permutations(Workers)
=============================================================================
