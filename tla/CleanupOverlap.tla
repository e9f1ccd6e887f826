--------------------------- MODULE CleanupOverlap ---------------------------
(***************************************************************************)
(* Two runs of processCleanup at the same time.  The cron of               *)
(* jobs/scheduler.js starts a run every fifteen minutes and asks nothing   *)
(* about the run before, so a long one, with many files to delete, has     *)
(* another beside it.  This is LinkLifecycle with a second collector,      *)
(* which works on the same table, storage and queue.  A restart ends both  *)
(* runs, after which there is one again: it is left to LinkLifecycle.      *)
(***************************************************************************)
EXTENDS LinkLifecycle

VARIABLE other   \* the run of processCleanup that began beside gc

overlapVars == <<vars, other>>

Beside == INSTANCE LinkLifecycle WITH gc <- other

OverlapInit == Init /\ other = GcIdle

\* The tick of the cron while a run is under way.
StartBeside == gc # GcIdle /\ Beside!GcStart

\* A run goes on, whether or not the one beside it has ended.
BesideStep ==
  /\ \/ StartBeside
     \/ other # GcIdle /\ Beside!GcStep
  /\ UNCHANGED gc

OverlapNext ==
  \/ /\ \/ \E k \in Keys : Upload(k) \/ FileDeletionJob(k)
        \/ \E l \in LinkIds, k \in Keys : UpdateNotFound(l, k)
        \/ \E c \in Clients : ClientCall(c) \/ ClientStep(c)
        \/ GcStep
        \/ Tick
     /\ UNCHANGED other
  \/ BesideStep

OverlapSpec == OverlapInit /\ [][OverlapNext]_overlapVars

FairOverlapSpec ==
  /\ OverlapSpec
  /\ \A c \in Clients : WF_overlapVars(ClientStep(c) /\ UNCHANGED other)
  /\ WF_overlapVars(GcStep /\ UNCHANGED other)
  /\ WF_overlapVars(BesideStep)

-----------------------------------------------------------------------------
(* Properties *)

\* The inductive invariant of one run holds of both: whatever either of them still
\* has in its batch is doomed, and no row comes to share its file.
BothRunsDeleteDoomed == IInv /\ other \in GcRun /\ Beside!CollectorDeletesDoomed

NothingFailed == faults = [storage |-> MaxStorageFaults, db |-> MaxDbFaults,
                           crash |-> MaxCrashes]

\* While nothing has failed, a row without its file is in the hands of a call or
\* of one of the runs, which is about to delete it: a run that finds the file gone
\* has to delete the row all the same.  And a file that nobody can reach is left
\* behind by the replacement of a link's file only.
FilesAndRowsAreInHand ==
  NothingFailed =>
    /\ \A l \in LinkIds : Exists(l) /\ links[l].file \notin files =>
         BeingRemoved(l) \/ Beside!BeingRemoved(l)
    /\ \A k \in files : Reachable(k) \/ Beside!Reachable(k) \/ k \in replaced

\* Neither run removes the row of a link that nobody had a reason to remove, also
\* when the other has removed rows of its batch and the next offset skips some.
NoRunRemovesALiveLink ==
  [][\A l \in LinkIds : Exists(l) /\ links'[l] = NoRow => l \in doomed]_overlapVars

-----------------------------------------------------------------------------
(* The inductive invariant behind FilesAndRowsAreInHand: with the row of a    *)
(* link nothing is lost, and a key is replaced before it leaves its row.      *)

\* Nothing is lost with the row of l: its file is gone, or left behind anyway.
NothingLostWith(l) == Exists(l) /\ links[l].file \in files => links[l].file \in replaced

\* The row of l has the file k, if not one that was replaced.
StillHas(l, k) == Exists(l) => links[l].file \in replaced \cup {k}

\* A new file is in a form, in a row, in a call, or was part of a replacement.
FilesHaveAPlace ==
  \A k \in files :
    \/ k \in uploads \/ k \in replaced
    \/ \E l \in LinkIds : Exists(l) /\ links[l].file = k
    \/ \E c \in Clients : Carries(c, k)

\* A call took the upload it brings.  What an update brings and what it takes the
\* place of are known as replaced; a purge that comes to its row has the file behind it.
CallsAreInHand ==
  \A c \in Clients :
    LET call == request[c]
    IN  /\ call.new \in (issued \ uploads) \cup {NoKey}
        /\ call.pc = "update" =>
             /\ Exists(call.link) \/ call.link \in doomed
             /\ call.new # NoKey =>
                  /\ call.new \in replaced /\ call.old \in replaced
                  /\ Exists(call.link) => links[call.link].file \in replaced
        /\ call.pc = "purge_file" => StillHas(call.link, call.old)
        /\ call.pc = "purge_row" => NothingLostWith(call.link)

\* A run knows the files of its batch, and has deleted those of its done.
RunIsInHand(run) ==
  /\ run.pc # "fallback"
  /\ run.pc # "unlink" => run.batch = {} /\ run.done = {}
  /\ \A v \in run.batch : StillHas(v.link, v.key)
  /\ \A v \in run.done : NothingLostWith(v.link)

FaultsOnlyFall ==
  faults.storage <= MaxStorageFaults /\ faults.db <= MaxDbFaults /\ faults.crash <= MaxCrashes

AllInHand ==
  NothingFailed =>
    /\ FilesHaveAPlace /\ CallsAreInHand
    /\ RunIsInHand(gc) /\ RunIsInHand(other) /\ deletions = {}

OverlapInv == BothRunsDeleteDoomed /\ FilesAndRowsAreInHand /\ FaultsOnlyFall /\ AllInHand
=============================================================================
