-------------------------- MODULE MCCleanupOverlap --------------------------
EXTENDS CleanupOverlap
=============================================================================
