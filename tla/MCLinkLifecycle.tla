-------------------------- MODULE MCLinkLifecycle --------------------------
EXTENDS LinkLifecycle, TLC

Symmetry == Permutations(Keys) \cup Permutations(Clients)
=============================================================================
