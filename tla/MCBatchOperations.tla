------------------------- MODULE MCBatchOperations -------------------------
EXTENDS BatchOperations, TLC

Symmetry == Permutations(Jobs)

PurgeCalls == {c \in AppCalls : c.type \in {"batch_restore", "batch_force_delete"}}

\* BullMQ with a failure or with a crash; the memory queue beside a synchronous call;
\* and a synchronous call with a failure.
MCSettings ==
  LET S(e, f, c, asked, called) ==
        [enabled |-> e, faults |-> f, crashes |-> c, batches |-> asked, syncs |-> called]
  IN  {S(TRUE, 1, 0, SUBSET Links, {}), S(TRUE, 0, 1, SUBSET Links, {}),
       S(FALSE, 0, 0, SUBSET Links, {Links}), S(FALSE, 1, 0, {}, {Links})}
=============================================================================
