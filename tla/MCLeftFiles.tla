---------------------------- MODULE MCLeftFiles ----------------------------
EXTENDS LeftFiles, TLC

CONSTANT MaxFaults   \* bound: faults of all kinds together

Symmetry == Permutations(Keys) \cup Permutations(Clients)

\* Two faults of one kind, or of two, in one behaviour.
FewFaults ==
  MaxStorageFaults + MaxDbFaults + MaxCrashes
    <= MaxFaults + faults.storage + faults.db + faults.crash
=============================================================================
