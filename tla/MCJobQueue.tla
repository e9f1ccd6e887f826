----------------------------- MODULE MCJobQueue -----------------------------
EXTENDS JobLoop, TLC

Symmetry == Permutations(Jobs)
=============================================================================
