----------------------------- MODULE LinkProofs -----------------------------
(***************************************************************************)
(* Proofs about LinkLifecycle, CleanupOverlap and LeftFiles, for every     *)
(* value of their constants.                                               *)
(*                                                                         *)
(* IInv says who holds a key at every moment.  Its proof is split twice:   *)
(* first by action, into what a step can do to the table, the storage, the *)
(* calls and the collector (the ...Shape lemmas); then by conjunct, each   *)
(* proved preserved from those shapes alone.                               *)
(*                                                                         *)
(* A step of the second cleanup run is a step of the first with their      *)
(* variables exchanged, and is proved about once more; what the two must   *)
(* not do to each other is that neither makes a link that the other holds  *)
(* undone or puts one of its keys to new use.  OverlapInv adds that, while *)
(* nothing fails, whoever deletes a file goes on to its row.               *)
(*                                                                         *)
(* The last two sections use both: the steps of one run or of two are ones *)
(* that LinkPromise allows, and whoever deletes a row has dealt with the   *)
(* file it read there, so that a file that stays behind is one that        *)
(* LeftFiles has recorded: refused by storage, cut off by a restart,       *)
(* brought by an update that did not write it, or put into a row that      *)
(* somebody else had read before.                                          *)
(***************************************************************************)
EXTENDS CleanupOverlap, LeftFiles, FiniteSetTheorems, TLAPS

-----------------------------------------------------------------------------
(* Types *)

\* A storage deletion removes at most the file it was asked to remove
\* (storageService.delete).
LEMMA DeleteFileType ==
  ASSUME ProgramTypeOK, NEW k, DeleteFile(k)
  PROVE  /\ files' \subseteq files
         /\ files \ {k} \subseteq files'
         /\ faults' \in [{"storage", "db", "crash"} -> Nat]
  BY DEF ProgramTypeOK, DeleteFile, Spend

\* A fault leaves the fault budget well typed.
LEMMA SpendType ==
  ASSUME ProgramTypeOK, NEW kind \in {"storage", "db", "crash"}, Spend(kind)
  PROVE  faults' \in [{"storage", "db", "crash"} -> Nat]
  BY DEF ProgramTypeOK, Spend

\* The resting states of a service call and of the collector are well typed.
LEMMA IdleType == Idle \in Request /\ GcIdle \in GcRun
  BY BoundsAssumption DEF Idle, GcIdle, Request, GcRun, Pcs, Victim

\* A freshly started server with an empty table is well typed.
LEMMA InitType == Init => TypeOK
  BY BoundsAssumption, SentinelAssumption, IdleType
  DEF Init, TypeOK, ProgramTypeOK, LinkIds, Time, Idle

\* The history variables stay well typed when the program's state does.
LEMMA HistoryType ==
  ASSUME TypeOK, History, ProgramTypeOK'
  PROVE  TypeOK'
<1>1. doomed' \subseteq LinkIds
  BY DEF TypeOK, ProgramTypeOK, History, Reasons
<1>2. Dropped \subseteq Keys
  BY DEF TypeOK, ProgramTypeOK, Dropped
<1>3. Swapping' \subseteq Keys
  BY DEF ProgramTypeOK, Swapping, Request
<1>4. QED
  BY <1>1, <1>2, <1>3 DEF TypeOK, History

\* countGarbage answers a natural number.
LEMMA GarbageCount ==
  ASSUME NEW cutoff
  PROVE  Cardinality(Garbage(cutoff)) \in Nat
<1>1. IsFiniteSet(LinkIds)
  BY FS_Interval, BoundsAssumption DEF LinkIds
<1>2. IsFiniteSet(Garbage(cutoff))
  BY <1>1, FS_Subset DEF Garbage
<1>3. QED
  BY <1>2, FS_CardinalityType

\* What findGarbage selects is a garbage row, with the key in its filename.
LEMMA FindGarbageVictims ==
  ASSUME NEW cutoff, NEW offset, NEW v \in FindGarbage(cutoff, offset)
  PROVE  /\ v.link \in Garbage(cutoff)
         /\ v = [link |-> v.link, key |-> links[v.link].file]
<1>1. PICK l \in Garbage(cutoff) : v = [link |-> l, key |-> links[l].file]
  BY DEF FindGarbage
<1>2. QED
  BY <1>1

\* findGarbage answers pairs of a link id and a storage key.
LEMMA FindGarbageType ==
  ASSUME ProgramTypeOK, NEW cutoff, NEW offset
  PROVE  FindGarbage(cutoff, offset) \subseteq Victim
<1>1. \A l \in Garbage(cutoff) : l \in LinkIds /\ links[l].file \in Keys
  BY DEF ProgramTypeOK, Exists, Row, Garbage
<1>2. QED
  BY <1>1, FindGarbageVictims DEF Victim

\* Moving processCleanup to its next batch keeps the run well typed.
LEMMA NextBatchType ==
  ASSUME gc \in GcRun
  PROVE  GcNextBatch \in GcRun
<1>1. CASE Cardinality(gc.batch) < BatchSize
  BY <1>1, IdleType DEF GcNextBatch
<1>2. CASE ~(Cardinality(gc.batch) < BatchSize)
  <2>1. gc.offset + BatchSize \in Nat
    BY BoundsAssumption DEF GcRun
  <2>2. QED
    BY <1>2, <2>1 DEF GcNextBatch, GcRun
<1>3. QED
  BY <1>1, <1>2

\* Every step of a client, of the collector or of the environment keeps the
\* state well typed.
LEMMA StepType ==
  ASSUME TypeOK, [Next]_vars
  PROVE  TypeOK'
<1> USE BoundsAssumption, SentinelAssumption, IdleType DEF ProgramTypeOK
<1>1. ASSUME NEW k \in Keys, Upload(k)
      PROVE  ProgramTypeOK' /\ History
  BY <1>1
  DEF TypeOK, Upload
<1>2. ASSUME NEW k \in Keys, FileDeletionJob(k)
      PROVE  ProgramTypeOK' /\ History
  BY <1>2, DeleteFileType
  DEF TypeOK, FileDeletionJob
<1>3. ASSUME NEW l \in LinkIds, NEW k \in Keys, UpdateNotFound(l, k)
      PROVE  ProgramTypeOK' /\ History
  BY <1>3
  DEF TypeOK, UpdateNotFound
<1>4. ASSUME NEW c \in Clients, NEW k \in Keys, NEW e \in Expiries, CreateLink(c, k, e)
      PROVE  ProgramTypeOK' /\ History
  BY <1>4
  DEF TypeOK, CreateLink, Begin, Request, Pcs, LinkIds, Stamp
<1>5. ASSUME NEW c \in Clients, NEW l \in LinkIds, NEW k \in Keys \cup {NoKey}, NEW e \in Expiries \cup {Keep}, UpdateLink(c, l, k, e)
      PROVE  ProgramTypeOK' /\ History
  BY <1>5
  DEF TypeOK, UpdateLink, Begin, Request, Pcs, IsActive, Exists, Keep, Stamp, Row
<1>6. ASSUME NEW c \in Clients, NEW l \in LinkIds, TrashLink(c, l)
      PROVE  ProgramTypeOK' /\ History
  BY <1>6
  DEF TypeOK, TrashLink, Begin, OnLink, Idle, Request, Pcs
<1>7. ASSUME NEW c \in Clients, NEW l \in LinkIds, RestoreLink(c, l)
      PROVE  ProgramTypeOK' /\ History
  BY <1>7
  DEF TypeOK, RestoreLink, Begin, OnLink, Idle, Request, Pcs
<1>8. ASSUME NEW c \in Clients, NEW l \in LinkIds, PurgeLink(c, l)
      PROVE  ProgramTypeOK' /\ History
  BY <1>8
  DEF TypeOK, PurgeLink, Begin, OnLink, Idle, Request, Pcs, Exists, Row
<1>9. ASSUME NEW c \in Clients, InsertLink(c)
      PROVE  ProgramTypeOK' /\ History
  BY <1>9
  DEF TypeOK, InsertLink, Finish, Idle, Row, Stamp, LinkIds
<1>10. ASSUME NEW c \in Clients, InsertFails(c)
      PROVE  ProgramTypeOK' /\ History
  BY <1>10, SpendType
  DEF TypeOK, InsertFails, Goto, Request, Pcs
<1>11. ASSUME NEW c \in Clients, CleanupUpload(c)
      PROVE  ProgramTypeOK' /\ History
  BY <1>11, DeleteFileType
  DEF TypeOK, CleanupUpload, Finish, Idle
<1>12. ASSUME NEW c \in Clients, WriteUpdate(c)
      PROVE  ProgramTypeOK' /\ History
  <2>1. \A l \in LinkIds : Exists(l) => Updated(links[l], request[c]) \in Row
    <3>1. request[c] \in Request
      BY DEF TypeOK
    <3>2. request[c].new \in Keys \cup {NoKey} /\ request[c].exp \in Stamp \cup {Keep}
      BY <3>1 DEF Request, Stamp, Keep
    <3>3. QED
      BY <3>2 DEF TypeOK, Exists, Updated, Row
  <2>2. links' \in [LinkIds -> Row \cup {NoRow}]
    BY <1>12, <2>1 DEF TypeOK, WriteUpdate
  <2>3. /\ request' \in [Clients -> Request]
        /\ \A d \in Clients :
             \/ request'[d] = request[d]
             \/ request'[d].pc = "idle"
             \/ /\ request'[d].pc = "unlink_old"
                /\ request'[d].link = request[d].link
                /\ request[d].pc # "idle"
    BY <1>12 DEF TypeOK, WriteUpdate, Finish, Goto, Idle, Request, Pcs
  <2>4. QED
    BY <1>12, <2>2, <2>3 DEF TypeOK, WriteUpdate
<1>13. ASSUME NEW c \in Clients, UnlinkOld(c)
      PROVE  ProgramTypeOK' /\ History
  BY <1>13, DeleteFileType
  DEF TypeOK, UnlinkOld, Finish, Idle
<1>14. ASSUME NEW c \in Clients, WriteTrash(c)
      PROVE  ProgramTypeOK' /\ History
  BY <1>14
  DEF TypeOK, WriteTrash, Finish, Idle, SetDeleted, Exists, Row, Stamp, Time
<1>15. ASSUME NEW c \in Clients, WriteRestore(c)
      PROVE  ProgramTypeOK' /\ History
  BY <1>15
  DEF TypeOK, WriteRestore, Finish, Idle, SetDeleted, Exists, Row, Stamp
<1>16. ASSUME NEW c \in Clients, PurgeFile(c)
      PROVE  ProgramTypeOK' /\ History
  BY <1>16, DeleteFileType
  DEF TypeOK, PurgeFile, Goto, Request, Pcs
<1>17. ASSUME NEW c \in Clients, PurgeRow(c)
      PROVE  ProgramTypeOK' /\ History
  BY <1>17
  DEF TypeOK, PurgeRow, Finish, Idle
<1>18. ASSUME NEW c \in Clients, TransactionFails(c)
      PROVE  ProgramTypeOK' /\ History
  BY <1>18, SpendType
  DEF TypeOK, TransactionFails, Finish, Idle
<1>19. ASSUME GcStart
      PROVE  ProgramTypeOK' /\ History
  <2>1. now - Retention \in Int
    BY DEF TypeOK, Time
  <2>2. gc' \in GcRun
    BY <1>19, <2>1, GarbageCount DEF GcStart, GcIdle, GcRun
  <2>3. QED
    BY <1>19, <2>2 DEF TypeOK, GcStart
<1>20. ASSUME GcSelect
      PROVE  ProgramTypeOK' /\ History
  BY <1>20, FindGarbageType
  DEF TypeOK, GcSelect, GcRun
<1>21. ASSUME GcQueryFails
      PROVE  ProgramTypeOK' /\ History
  BY <1>21, SpendType
  DEF TypeOK, GcQueryFails
<1>22. ASSUME GcDeleteRows
      PROVE  ProgramTypeOK' /\ History
  BY <1>22, NextBatchType
  DEF TypeOK, GcDeleteRows
<1>23. ASSUME GcDeleteRowsFails
      PROVE  ProgramTypeOK' /\ History
  BY <1>23, SpendType
  DEF TypeOK, GcDeleteRowsFails, GcRun
<1>24. ASSUME NEW v \in Victim, GcUnlink(v)
      PROVE  ProgramTypeOK' /\ History
  BY <1>24, DeleteFileType
  DEF TypeOK, GcUnlink, GcRun
<1>25. ASSUME NEW v \in Victim, GcDeleteRow(v)
      PROVE  ProgramTypeOK' /\ History
  BY <1>25
  DEF TypeOK, GcDeleteRow, GcRun
<1>26. ASSUME NEW v \in Victim, GcDeleteRowFails(v)
      PROVE  ProgramTypeOK' /\ History
  BY <1>26, SpendType
  DEF TypeOK, GcDeleteRowFails, GcRun
<1>27. ASSUME GcQueueRetries
      PROVE  ProgramTypeOK' /\ History
  BY <1>27, NextBatchType
  DEF TypeOK, GcQueueRetries, GcRun, Victim
<1>28. ASSUME Tick
      PROVE  ProgramTypeOK' /\ History
  BY <1>28
  DEF TypeOK, Tick, Time
<1>29. ASSUME Crash
      PROVE  ProgramTypeOK' /\ History
  BY <1>29, SpendType
  DEF TypeOK, Crash, Idle
<1>30. CASE UNCHANGED vars
  BY <1>30 DEF vars, TypeOK
<1>31. QED
  BY <1>1, <1>2, <1>3, <1>4, <1>5, <1>6, <1>7, <1>8, <1>9, <1>10, <1>11, <1>12, <1>13, <1>14, <1>15, <1>16, <1>17, <1>18, <1>19, <1>20, <1>21, <1>22, <1>23, <1>24, <1>25, <1>26, <1>27, <1>28, <1>29, <1>30, HistoryType
  DEF Next, ClientCall, ClientStep, GcStep

-----------------------------------------------------------------------------
(* What a step does to each part of the state, action by action. *)

\* What the first step of a service call changes: the call is recorded with
\* the row it read, an upload it takes leaves the browser, and no row or file
\* is touched.
LEMMA ClientCallShape ==
  ASSUME TypeOK, NEW c \in Clients, ClientCall(c)
  PROVE  /\ UNCHANGED <<links, files, issued, gc, deletions, now>>
         /\ History
         /\ request[c] = Idle
         /\ \A d \in Clients : d # c => request'[d] = request[d]
         /\ request'[c].new = NoKey \/ request'[c].new \in uploads
         /\ uploads' = uploads \ {request'[c].new}
         /\ \/ /\ request'[c].pc = "create"
               /\ request'[c].link = nextLink
               /\ nextLink' = nextLink + 1
            \/ /\ nextLink' = nextLink
               /\ request'[c].pc \in {"update", "purge_file"}
               /\ Exists(request'[c].link)
               /\ request'[c].link \in LinkIds
               /\ request'[c].old = links[request'[c].link].file
            \/ /\ nextLink' = nextLink
               /\ request'[c].pc \in {"trash", "restore"}
<1> USE SentinelAssumption DEF TypeOK, ProgramTypeOK, Begin
<1>1. ASSUME NEW k \in Keys, NEW e \in Expiries, CreateLink(c, k, e)
      PROVE  request'[c].new = k /\ k \in uploads /\ uploads' = uploads \ {k}
  BY <1>1 DEF CreateLink
<1>2. ASSUME NEW k \in Keys, NEW e \in Expiries, CreateLink(c, k, e)
      PROVE  /\ UNCHANGED <<links, files, issued, gc, deletions, now>>
             /\ History
             /\ request[c] = Idle
             /\ \A d \in Clients : d # c => request'[d] = request[d]
             /\ request'[c].pc = "create"
             /\ request'[c].link = nextLink
             /\ nextLink' = nextLink + 1
  BY <1>2 DEF CreateLink
<1>3. ASSUME NEW l \in LinkIds, NEW k \in Keys \cup {NoKey},
             NEW e \in Expiries \cup {Keep}, UpdateLink(c, l, k, e)
      PROVE  /\ UNCHANGED <<links, files, issued, gc, deletions, now, nextLink>>
             /\ History
             /\ request[c] = Idle
             /\ \A d \in Clients : d # c => request'[d] = request[d]
             /\ request'[c].new = k
             /\ k \in uploads \cup {NoKey} /\ uploads' = uploads \ {k}
             /\ request'[c].pc = "update"
             /\ request'[c].link = l /\ Exists(l)
             /\ request'[c].old = links[l].file
  BY <1>3 DEF UpdateLink, IsActive
<1>4. ASSUME NEW l \in LinkIds, TrashLink(c, l) \/ RestoreLink(c, l) \/ PurgeLink(c, l)
      PROVE  /\ UNCHANGED <<links, files, issued, gc, deletions, now, nextLink, uploads>>
             /\ History
             /\ request[c] = Idle
             /\ \A d \in Clients : d # c => request'[d] = request[d]
             /\ request'[c].new = NoKey
             /\ \/ request'[c].pc \in {"trash", "restore"}
                \/ /\ request'[c].pc = "purge_file"
                   /\ request'[c].link = l /\ Exists(l)
                   /\ request'[c].old = links[l].file
  <2>1. CASE TrashLink(c, l)
    BY <2>1 DEF TrashLink, OnLink, Idle
  <2>2. CASE RestoreLink(c, l)
    BY <2>2 DEF RestoreLink, OnLink, Idle
  <2>3. CASE PurgeLink(c, l)
    <3>1. request'[c] = [OnLink("purge_file", l) EXCEPT !.old = links[l].file]
      BY <2>3 DEF PurgeLink
    <3>2. /\ request'[c].pc = "purge_file" /\ request'[c].link = l
          /\ request'[c].old = links[l].file /\ request'[c].new = NoKey
      BY <3>1 DEF OnLink, Idle
    <3>3. /\ UNCHANGED <<links, files, issued, gc, deletions, now, nextLink, uploads>>
          /\ History /\ Exists(l)
          /\ request[c] = Idle
          /\ \A d \in Clients : d # c => request'[d] = request[d]
      BY <2>3 DEF PurgeLink
    <3>4. QED
      BY <3>2, <3>3
  <2>4. QED
    BY <1>4, <2>1, <2>2, <2>3
<1>5. NoKey \notin uploads
  OBVIOUS
<1>6. QED
  BY <1>1, <1>2, <1>3, <1>4, <1>5 DEF ClientCall

\* What a later step of a service call changes: it ends, or moves on to its
\* cleanup, unlink or row deletion with the values it read at first.
LEMMA ClientStepShape ==
  ASSUME TypeOK, NEW c \in Clients, ClientStep(c)
  PROVE  /\ UNCHANGED <<issued, uploads, nextLink, gc, deletions, now>>
         /\ History
         /\ \A d \in Clients : d # c => request'[d] = request[d]
         /\ \/ request'[c] = Idle
            \/ /\ request'[c].link = request[c].link
               /\ request'[c].old = request[c].old
               /\ request'[c].new = request[c].new
               /\ \/ request[c].pc = "create" /\ request'[c].pc = "create_cleanup"
                  \/ request[c].pc = "update" /\ request'[c].pc = "unlink_old"
                  \/ request[c].pc = "purge_file" /\ request'[c].pc = "purge_row"
<1> USE DEF TypeOK, ProgramTypeOK, Request, Finish, Goto
<1>1. CASE InsertLink(c)
  BY <1>1 DEF InsertLink
<1>2. CASE InsertFails(c)
  BY <1>2 DEF InsertFails
<1>3. CASE CleanupUpload(c)
  BY <1>3 DEF CleanupUpload
<1>4. CASE WriteUpdate(c)
  BY <1>4 DEF WriteUpdate
<1>5. CASE UnlinkOld(c)
  BY <1>5 DEF UnlinkOld
<1>6. CASE WriteTrash(c)
  BY <1>6 DEF WriteTrash
<1>7. CASE WriteRestore(c)
  BY <1>7 DEF WriteRestore
<1>8. CASE PurgeFile(c)
  BY <1>8 DEF PurgeFile
<1>9. CASE PurgeRow(c)
  BY <1>9 DEF PurgeRow
<1>10. CASE TransactionFails(c)
  BY <1>10 DEF TransactionFails
<1>11. QED
  BY <1>1, <1>2, <1>3, <1>4, <1>5, <1>6, <1>7, <1>8, <1>9, <1>10 DEF ClientStep

\* What a step of processCleanup changes: its victims are rows that were garbage
\* when the run selected them, and its retries are for keys it failed on.
LEMMA GcShape ==
  ASSUME TypeOK, GcStep
  PROVE  /\ UNCHANGED <<issued, uploads, nextLink, request, now>>
         /\ History
         /\ gc'.pc # "idle" =>
              \/ gc'.cutoff = gc.cutoff /\ gc.pc # "idle"
              \/ gc'.cutoff = now - Retention
         /\ \A v \in gc'.batch \cup gc'.done \cup gc'.failed :
              \/ v \in gc.batch \cup gc.done \cup gc.failed
              \/ /\ gc.pc # "idle"
                 /\ v.link \in Garbage(gc.cutoff)
                 /\ v.key = links[v.link].file
         /\ \A k \in deletions' :
              k \in deletions \/ \E v \in gc.failed : v.key = k
<1> USE IdleType DEF TypeOK, ProgramTypeOK
<1>a. gc \in GcRun
  OBVIOUS
<1>b. /\ GcNextBatch.batch \subseteq {} /\ GcNextBatch.done = {} /\ GcNextBatch.failed = {}
      /\ GcNextBatch.pc # "idle" => GcNextBatch.cutoff = gc.cutoff
  BY <1>a DEF GcNextBatch, GcIdle, GcRun
<1>1. CASE GcStart
  BY <1>1 DEF GcStart, GcIdle
<1>2. CASE GcSelect
  <2>1. PICK batch \in {{}, FindGarbage(gc.cutoff, gc.offset)} :
          gc' = IF batch = {} THEN GcIdle
                ELSE [gc EXCEPT !.pc = "unlink", !.batch = batch]
    BY <1>2 DEF GcSelect
  <2>2. \A v \in batch : v.link \in Garbage(gc.cutoff) /\ v.key = links[v.link].file
    <3>1. SUFFICES ASSUME NEW v \in FindGarbage(gc.cutoff, gc.offset)
                   PROVE  v.link \in Garbage(gc.cutoff) /\ v.key = links[v.link].file
      BY <2>1
    <3>2. v = [link |-> v.link, key |-> links[v.link].file]
      BY FindGarbageVictims
    <3>3. v.key = links[v.link].file
      BY <3>2
    <3>4. QED
      BY <3>3, FindGarbageVictims
  <2>3. CASE batch = {}
    <3>1. gc' = GcIdle
      BY <2>1, <2>3
    <3>2. gc'.pc = "idle" /\ gc'.batch \cup gc'.done \cup gc'.failed = {}
      BY <3>1 DEF GcIdle
    <3>3. QED
      BY <1>2, <3>2 DEF GcSelect
  <2>4. CASE batch # {}
    <3>1. /\ gc'.batch = batch /\ gc'.done = gc.done /\ gc'.failed = gc.failed
          /\ gc'.cutoff = gc.cutoff
      BY <1>a, <2>1, <2>4 DEF GcRun
    <3>2. QED
      BY <1>2, <2>2, <3>1 DEF GcSelect
  <2>5. QED
    BY <2>3, <2>4
<1>3. CASE GcQueryFails
  BY <1>3 DEF GcQueryFails, GcIdle
<1>4. CASE GcDeleteRows
  BY <1>4, <1>b DEF GcDeleteRows
<1>5. CASE GcDeleteRowsFails
  BY <1>5, <1>a DEF GcDeleteRowsFails, GcRun
<1>6. ASSUME NEW v \in Victim, GcUnlink(v)
      PROVE  /\ UNCHANGED <<issued, uploads, nextLink, request, now, deletions>>
             /\ History
             /\ gc'.batch = gc.batch /\ gc'.done = gc.done \cup {v}
             /\ v \in gc.batch /\ gc'.failed = gc.failed
             /\ gc'.cutoff = gc.cutoff /\ gc.pc # "idle"
  BY <1>6, <1>a DEF GcUnlink, GcRun
<1>7. ASSUME NEW v \in Victim, GcDeleteRow(v) \/ GcDeleteRowFails(v)
      PROVE  /\ UNCHANGED <<issued, uploads, nextLink, request, now, deletions>>
             /\ History
             /\ gc'.batch = gc.batch /\ gc'.done \subseteq gc.done
             /\ v \in gc.done /\ gc'.failed \subseteq gc.failed \cup {v}
             /\ gc'.cutoff = gc.cutoff /\ gc.pc # "idle"
  <2>1. CASE GcDeleteRow(v)
    BY <2>1, <1>a DEF GcDeleteRow, GcRun
  <2>2. CASE GcDeleteRowFails(v)
    BY <2>2, <1>a DEF GcDeleteRowFails, GcRun
  <2>3. QED
    BY <1>7, <2>1, <2>2
<1>8. CASE GcQueueRetries
  BY <1>8, <1>b DEF GcQueueRetries
<1>9. CASE \E v \in Victim : GcUnlink(v) \/ GcDeleteRow(v) \/ GcDeleteRowFails(v)
  BY <1>6, <1>7, <1>9
<1>10. QED
  BY <1>1, <1>2, <1>3, <1>4, <1>5, <1>8, <1>9 DEF GcStep

\* Where the file of a row comes from: the row had it before, or a create or
\* an update under way has just written it.
LEMMA RowsShape ==
  ASSUME TypeOK, [Next]_vars, NEW m \in LinkIds, links'[m] # NoRow
  PROVE  \/ Exists(m) /\ links'[m].file = links[m].file
         \/ /\ files' = files
            /\ \E c \in Clients :
                 /\ request[c].pc \in {"create", "update"}
                 /\ request[c].pc = "update" => Exists(m) /\ request'[c].pc = "unlink_old"
                 /\ request[c].link = m
                 /\ request[c].new # NoKey
                 /\ request[c].new = links'[m].file
                 /\ request'[c].pc \in {"idle", "unlink_old"}
<1> USE SentinelAssumption DEF TypeOK, ProgramTypeOK, Exists
<1>1. CASE links' = links
  BY <1>1
<1>2. ASSUME NEW c \in Clients, InsertLink(c)
      PROVE  \/ links'[m] = links[m]
             \/ /\ files' = files
                /\ request[c].pc = "create" /\ request[c].link = m
                /\ request[c].new = links'[m].file /\ request[c].new # NoKey
                /\ request'[c].pc = "idle"
  BY <1>2 DEF InsertLink, Finish, Idle
<1>3. ASSUME NEW c \in Clients, WriteUpdate(c)
      PROVE  \/ Exists(m) /\ links'[m].file = links[m].file
             \/ /\ files' = files
                /\ request[c].pc = "update" /\ Exists(m) /\ request[c].link = m
                /\ request[c].new = links'[m].file /\ request[c].new # NoKey
                /\ request'[c].pc = "unlink_old"
  <2>1. CASE request[c].link = m
    <3>1. Exists(m) /\ links'[m] = Updated(links[m], request[c])
      BY <1>3, <2>1 DEF WriteUpdate
    <3>2. links'[m].file = IF request[c].new = NoKey THEN links[m].file
                           ELSE request[c].new
      BY <3>1 DEF Updated, Row
    <3>3. CASE request[c].new = NoKey
      BY <3>1, <3>2, <3>3
    <3>4. CASE request[c].new # NoKey
      <4>1. request'[c].pc = "unlink_old"
        BY <1>3, <3>4 DEF WriteUpdate, Goto, Request
      <4>2. QED
        BY <1>3, <2>1, <3>1, <3>2, <3>4, <4>1 DEF WriteUpdate
    <3>5. QED
      BY <3>3, <3>4
  <2>2. CASE request[c].link # m
    BY <1>3, <2>2 DEF WriteUpdate
  <2>3. QED
    BY <2>1, <2>2
<1>4. ASSUME NEW c \in Clients, WriteTrash(c) \/ WriteRestore(c)
      PROVE  Exists(m) /\ links'[m].file = links[m].file
  BY <1>4 DEF WriteTrash, WriteRestore, SetDeleted, Row
<1>5. ASSUME NEW c \in Clients, PurgeRow(c)
      PROVE  links'[m] = links[m]
  BY <1>5 DEF PurgeRow
<1>6. CASE GcDeleteRows
  BY <1>6 DEF GcDeleteRows
<1>7. ASSUME NEW v \in Victim, GcDeleteRow(v)
      PROVE  links'[m] = links[m]
  BY <1>7 DEF GcDeleteRow
<1>8. CASE /\ links' # links /\ Next
           /\ ~GcDeleteRows /\ \A v \in Victim : ~GcDeleteRow(v)
  <2>1. PICK c \in Clients : \/ InsertLink(c) \/ WriteUpdate(c) \/ WriteTrash(c)
                             \/ WriteRestore(c) \/ PurgeRow(c)
    BY <1>8
    DEF Next, ClientCall, ClientStep, GcStep, Upload, FileDeletionJob,
        UpdateNotFound, CreateLink, UpdateLink, TrashLink, RestoreLink,
        PurgeLink, InsertFails, CleanupUpload, UnlinkOld, PurgeFile,
        TransactionFails, GcStart, GcSelect, GcQueryFails, GcDeleteRowsFails,
        GcUnlink, GcDeleteRowFails, GcQueueRetries, Tick, Crash
  <2>2. QED
    BY <1>2, <1>3, <1>4, <1>5, <2>1
<1>9. QED
  BY <1>1, <1>6, <1>7, <1>8 DEF vars

\* Who can delete a file: the catch of createLink, updateLink after its
\* transaction, permanentlyDeleteLink, the collector, or a file_deletion job.
LEMMA FilesShape ==
  ASSUME TypeOK, [Next]_vars, NEW k \in files, k \notin files'
  PROVE  \/ \E c \in Clients :
              \/ /\ request[c].pc = "create_cleanup" /\ request[c].new = k
                 /\ request'[c] = Idle
              \/ request[c].pc \in {"unlink_old", "purge_file"} /\ request[c].old = k
         \/ k \in deletions
         \/ \E v \in gc.batch : v.key = k
<1> USE DEF TypeOK, ProgramTypeOK
<1>1. ASSUME NEW j, DeleteFile(j)
      PROVE  k = j
  BY <1>1 DEF DeleteFile
<1>2. ASSUME NEW c \in Clients, CleanupUpload(c)
      PROVE  request[c].pc = "create_cleanup" /\ request[c].new = k /\ request'[c] = Idle
  BY <1>1, <1>2 DEF CleanupUpload, Finish
<1>3. ASSUME NEW c \in Clients, UnlinkOld(c) \/ PurgeFile(c)
      PROVE  request[c].pc \in {"unlink_old", "purge_file"} /\ request[c].old = k
  BY <1>1, <1>3 DEF UnlinkOld, PurgeFile
<1>4. ASSUME NEW v \in Victim, GcUnlink(v)
      PROVE  v \in gc.batch /\ v.key = k
  BY <1>1, <1>4 DEF GcUnlink
<1>5. ASSUME NEW j \in Keys, FileDeletionJob(j)
      PROVE  k \in deletions
  BY <1>1, <1>5 DEF FileDeletionJob
<1>6. \/ \E c \in Clients : CleanupUpload(c) \/ UnlinkOld(c) \/ PurgeFile(c)
      \/ \E v \in Victim : GcUnlink(v)
      \/ \E j \in Keys : FileDeletionJob(j)
  BY DEF vars, Next, ClientCall, ClientStep, GcStep, Upload,
        UpdateNotFound, CreateLink, UpdateLink, TrashLink, RestoreLink,
        PurgeLink, InsertLink, InsertFails, WriteUpdate, WriteTrash,
        WriteRestore, PurgeRow, TransactionFails, GcStart, GcSelect,
        GcQueryFails, GcDeleteRows, GcDeleteRowsFails, GcDeleteRow,
        GcDeleteRowFails, GcQueueRetries, Tick, Crash
<1>7. QED
  BY <1>2, <1>3, <1>4, <1>5, <1>6

\* What any step of the system can do to one service call.
LEMMA CallsShape ==
  ASSUME TypeOK, [Next]_vars, NEW c \in Clients
  PROVE  \/ request'[c] = request[c]
         \/ request'[c] = Idle
         \/ /\ request'[c].link = request[c].link
            /\ request'[c].old = request[c].old
            /\ request'[c].new = request[c].new
            /\ \/ request[c].pc = "create" /\ request'[c].pc = "create_cleanup"
               \/ request[c].pc = "update" /\ request'[c].pc = "unlink_old"
               \/ request[c].pc = "purge_file" /\ request'[c].pc = "purge_row"
         \/ ClientCall(c)
<1>1. ASSUME NEW d \in Clients, ClientCall(d), d # c
      PROVE  request'[c] = request[c]
  BY <1>1, ClientCallShape
<1>2. ASSUME NEW d \in Clients, ClientStep(d), d # c
      PROVE  request'[c] = request[c]
  BY <1>2, ClientStepShape
<1>3. CASE GcStep
  BY <1>3, GcShape
<1>4. CASE \E k \in Keys : Upload(k) \/ FileDeletionJob(k)
  BY <1>4 DEF Upload, FileDeletionJob
<1>5. CASE \E l \in LinkIds, k \in Keys : UpdateNotFound(l, k)
  BY <1>5 DEF UpdateNotFound
<1>6. CASE Tick \/ UNCHANGED vars
  BY <1>6 DEF Tick, vars
<1>7. CASE Crash
  BY <1>7 DEF Crash
<1>8. CASE ClientStep(c)
  BY <1>8, ClientStepShape
<1>9. QED
  BY <1>1, <1>2, <1>3, <1>4, <1>5, <1>6, <1>7, <1>8 DEF Next

\* Keys are never taken back, an upload is complete when it appears, and link
\* ids are given out in order.
LEMMA UploadsShape ==
  ASSUME TypeOK, [Next]_vars
  PROVE  /\ issued \subseteq issued'
         /\ \A k \in uploads' : k \in uploads \/ (k \in files' /\ k \notin issued)
         /\ nextLink' \in {nextLink, nextLink + 1}
         /\ History \/ UNCHANGED vars
<1>1. CASE \E c \in Clients : ClientCall(c)
  BY <1>1, ClientCallShape
<1>2. CASE \E c \in Clients : ClientStep(c)
  BY <1>2, ClientStepShape
<1>3. CASE GcStep
  BY <1>3, GcShape
<1>4. CASE \E k \in Keys : Upload(k) \/ FileDeletionJob(k)
  BY <1>4 DEF Upload, FileDeletionJob
<1>5. CASE \E l \in LinkIds, k \in Keys : UpdateNotFound(l, k)
  BY <1>5 DEF UpdateNotFound
<1>6. CASE Tick
  BY <1>6 DEF Tick
<1>7. CASE Crash
  BY <1>7 DEF Crash
<1>8. CASE UNCHANGED vars
  BY <1>8 DEF vars
<1>9. QED
  BY <1>1, <1>2, <1>3, <1>4, <1>5, <1>6, <1>7, <1>8 DEF Next

\* What any step of the system can do to the collector, to the retry jobs and to
\* the clock.
LEMMA CollectorShape ==
  ASSUME TypeOK, [Next]_vars
  PROVE  /\ now' \in {now, now + 1}
         /\ gc'.pc # "idle" =>
              \/ gc'.cutoff = gc.cutoff /\ gc.pc # "idle"
              \/ gc'.cutoff = now - Retention
         /\ \A v \in gc'.batch \cup gc'.done \cup gc'.failed :
              \/ v \in gc.batch \cup gc.done \cup gc.failed
              \/ /\ gc.pc # "idle"
                 /\ v.link \in Garbage(gc.cutoff)
                 /\ v.key = links[v.link].file
         /\ \A k \in deletions' :
              k \in deletions \/ \E v \in gc.failed : v.key = k
<1>1. CASE \E c \in Clients : ClientCall(c)
  BY <1>1, ClientCallShape
<1>2. CASE \E c \in Clients : ClientStep(c)
  BY <1>2, ClientStepShape
<1>3. CASE GcStep
  BY <1>3, GcShape
<1>4. CASE \E k \in Keys : Upload(k) \/ FileDeletionJob(k)
  BY <1>4 DEF Upload, FileDeletionJob
<1>5. CASE \E l \in LinkIds, k \in Keys : UpdateNotFound(l, k)
  BY <1>5 DEF UpdateNotFound
<1>6. CASE Tick
  BY <1>6 DEF Tick
<1>7. CASE Crash
  BY <1>7 DEF Crash, GcIdle
<1>8. CASE UNCHANGED vars
  BY <1>8 DEF vars
<1>9. QED
  BY <1>1, <1>2, <1>3, <1>4, <1>5, <1>6, <1>7, <1>8 DEF Next

\* A call comes to carry a new file only by taking an upload from the browser.
LEMMA CarriesShape ==
  ASSUME TypeOK, [Next]_vars, NEW c \in Clients, NEW k \in Keys, Carries(c, k)'
  PROVE  \/ Carries(c, k)
         \/ /\ k \in uploads /\ k \notin uploads'
            /\ \A d \in Clients : d # c => request'[d] = request[d]
<1>1. CASE ClientCall(c)
  BY <1>1, ClientCallShape, SentinelAssumption DEF Carries
<1>2. CASE ~ClientCall(c)
  BY <1>2, CallsShape DEF Carries, Idle
<1>3. QED
  BY <1>1, <1>2

\* A settled key stays settled: nothing uploads or carries it again.
LEMMA SettledStable ==
  ASSUME TypeOK, [Next]_vars, NEW k \in Keys, Settled(k)
  PROVE  Settled(k)'
  BY CarriesShape, UploadsShape DEF Settled

\* Nobody gives a settled key to a row.
LEMMA SettledRows ==
  ASSUME TypeOK, [Next]_vars, NEW k \in Keys, Settled(k),
         NEW m \in LinkIds, links'[m] # NoRow, links'[m].file = k
  PROVE  Exists(m) /\ links[m].file = k
  BY RowsShape DEF Settled, Carries

\* A settled key that only the row of l may have stays that row's alone.
LEMMA OnlyOfStable ==
  ASSUME TypeOK, [Next]_vars, NEW k \in Keys, Settled(k), NEW l, OnlyOf(k, l)
  PROVE  OnlyOf(k, l)'
  BY SettledRows DEF OnlyOf, Exists

\* A step deletes a file for one of two reasons: the create that carried it
\* has failed, or every row that has it is doomed.
LEMMA DeletedFiles ==
  ASSUME IInv, [Next]_vars, NEW k \in files, k \notin files'
  PROVE  \/ \E c \in Clients : Carries(c, k) /\ request[c].pc = "create_cleanup"
         \/ /\ Settled(k)
            /\ \A m \in LinkIds : Exists(m) /\ links[m].file = k => m \in doomed
<1>1. TypeOK /\ CallsDeleteTheirOwn /\ CollectorDeletesDoomed
  BY DEF IInv
<1>2. ASSUME NEW c \in Clients, request[c].pc = "unlink_old", request[c].old = k
      PROVE  Settled(k) /\ \A m \in LinkIds : Exists(m) => links[m].file # k
  BY <1>1, <1>2 DEF CallsDeleteTheirOwn
<1>3. ASSUME NEW c \in Clients, request[c].pc = "purge_file", request[c].old = k
      PROVE  Settled(k) /\ OnlyOf(k, request[c].link) /\ request[c].link \in doomed
  BY <1>1, <1>3 DEF CallsDeleteTheirOwn
<1>4. ASSUME NEW v \in gc.batch, v.key = k
      PROVE  Settled(k) /\ OnlyOf(k, v.link) /\ v.link \in doomed
  BY <1>1, <1>4 DEF CollectorDeletesDoomed
<1>5. k \in deletions =>
        /\ Settled(k)
        /\ \A m \in LinkIds : Exists(m) /\ links[m].file = k => m \in doomed
  BY <1>1 DEF CollectorDeletesDoomed
<1>6. \/ \E c \in Clients :
            \/ request[c].pc = "create_cleanup" /\ request[c].new = k
            \/ request[c].pc \in {"unlink_old", "purge_file"} /\ request[c].old = k
      \/ k \in deletions
      \/ \E v \in gc.batch : v.key = k
  BY <1>1, FilesShape
<1>7. QED
  BY <1>2, <1>3, <1>4, <1>5, <1>6 DEF OnlyOf, Carries

-----------------------------------------------------------------------------
(* Each part of the inductive invariant is preserved. *)

\* No step deletes a file that a form, a create or an update still has to use.
LEMMA UploadsCompleteStep ==
  ASSUME IInv, [Next]_vars
  PROVE  UploadsComplete'
<1> USE DEF IInv
<1>1. ASSUME NEW k \in uploads
      PROVE  k \in files'
  <2>1. k \in files /\ k \in Keys
    BY DEF UploadsComplete, TypeOK, ProgramTypeOK
  <2>2. \A c \in Clients : ~Carries(c, k)
    BY <2>1 DEF NewKeysHaveOneHolder
  <2>3. ~Settled(k)
    BY DEF Settled
  <2>4. QED
    BY <2>1, <2>2, <2>3, DeletedFiles
<1>2. uploads' \subseteq files'
  BY <1>1, UploadsShape
<1>3. ASSUME NEW c \in Clients, request'[c].pc \in {"create", "update"},
             request'[c].new # NoKey
      PROVE  request'[c].new \in files'
  <2>1. CASE request'[c] = request[c]
    <3> DEFINE k == request[c].new
    <3>1. k \in files /\ k \in Keys
      BY <1>3, <2>1 DEF UploadsComplete, TypeOK, ProgramTypeOK
    <3>2. Carries(c, k)
      BY <1>3, <2>1 DEF Carries
    <3>3. \A d \in Clients : Carries(d, k) => d = c
      BY <3>1, <3>2 DEF NewKeysHaveOneHolder
    <3>4. ~Settled(k)
      BY <3>2 DEF Settled
    <3>5. k \in files'
      BY <1>3, <2>1, <3>1, <3>3, <3>4, DeletedFiles
    <3>6. QED
      BY <2>1, <3>5
  <2>2. CASE ClientCall(c)
    BY <1>1, <1>3, <2>2, ClientCallShape
  <2>3. QED
    BY <1>3, <2>1, <2>2, CallsShape DEF Idle
<1>4. QED
  BY <1>2, <1>3 DEF UploadsComplete

\* No step lets two calls carry the same uploaded file.
LEMMA NewKeysHaveOneHolderStep ==
  ASSUME IInv, [Next]_vars
  PROVE  NewKeysHaveOneHolder'
<1> USE DEF IInv
<1>1. ASSUME NEW c \in Clients, NEW k \in Keys, Carries(c, k)'
      PROVE  k \in issued' /\ k \notin uploads'
  BY <1>1, CarriesShape, UploadsShape DEF NewKeysHaveOneHolder, TypeOK, ProgramTypeOK
<1>2. ASSUME NEW c \in Clients, NEW d \in Clients, NEW k \in Keys,
             Carries(c, k)', Carries(d, k)'
      PROVE  c = d
  <2>1. CASE Carries(c, k) /\ Carries(d, k)
    BY <2>1 DEF NewKeysHaveOneHolder
  <2>2. ASSUME NEW a \in Clients, NEW b \in Clients, Carries(b, k)', a # b,
               k \in uploads, \A x \in Clients : x # a => request'[x] = request[x]
        PROVE  FALSE
    <3>1. Carries(b, k)
      BY <2>2 DEF Carries
    <3>2. QED
      BY <2>2, <3>1 DEF NewKeysHaveOneHolder
  <2>3. QED
    BY <1>2, <2>1, <2>2, CarriesShape
<1>3. QED
  BY <1>1, <1>2 DEF NewKeysHaveOneHolder

\* No step gives two rows the same file, or a row a file that is still carried.
LEMMA RowsOwnTheirFilesStep ==
  ASSUME IInv, [Next]_vars
  PROVE  RowsOwnTheirFiles'
<1> USE DEF IInv
<1>1. ASSUME NEW l \in LinkIds, NEW k \in Keys, links'[l] # NoRow, links'[l].file = k
      PROVE  Settled(k)' /\ OnlyOf(k, l)'
  <2>1. CASE Exists(l) /\ links[l].file = k
    <3>1. Settled(k) /\ OnlyOf(k, l)
      BY <2>1 DEF RowsOwnTheirFiles
    <3>2. QED
      BY <3>1, SettledStable, OnlyOfStable
  <2>2. ASSUME NEW c \in Clients, request[c].pc \in {"create", "update"},
               request[c].link = l, request[c].new = k,
               request'[c].pc \in {"idle", "unlink_old"}
        PROVE  Settled(k)' /\ OnlyOf(k, l)'
    <3>1. Carries(c, k) /\ ~Carries(c, k)'
      BY <2>2 DEF Carries
    <3>2. k \in issued /\ k \notin uploads
      BY <3>1 DEF NewKeysHaveOneHolder
    <3>3. k \in issued' /\ k \notin uploads'
      BY <3>2, UploadsShape
    <3>4. \A d \in Clients : ~Carries(d, k)'
      BY <3>1, <3>2, CarriesShape DEF NewKeysHaveOneHolder
    <3>5. ASSUME NEW m \in LinkIds, links'[m] # NoRow, links'[m].file = k
          PROVE  m = l
      <4>1. ~(Exists(m) /\ links[m].file = k)
        BY <3>1 DEF RowsOwnTheirFiles, Settled
      <4>2. PICK d \in Clients : /\ request[d].pc \in {"create", "update"}
                                 /\ request[d].link = m /\ request[d].new = k
        BY <3>5, <4>1, RowsShape
      <4>3. d = c
        BY <3>1, <4>2 DEF NewKeysHaveOneHolder, Carries
      <4>4. QED
        BY <2>2, <4>2, <4>3
    <3>6. QED
      BY <3>3, <3>4, <3>5 DEF Settled, OnlyOf, Exists
  <2>3. QED
    BY <1>1, <2>1, <2>2, RowsShape
<1>2. ASSUME NEW l \in LinkIds, links'[l] # NoRow
      PROVE  links'[l].file \in Keys
  BY <1>2, StepType DEF TypeOK, ProgramTypeOK, Row
<1>3. QED
  BY <1>1, <1>2 DEF RowsOwnTheirFiles, Exists, Settled, OnlyOf, Carries

\* The transaction of a replacement has put the new file in the row.
LEMMA ReplacedRow ==
  ASSUME TypeOK, [Next]_vars, NEW c \in Clients,
         request[c].pc = "update", request'[c].pc = "unlink_old"
  PROVE  /\ request[c].new # NoKey
         /\ \A m \in LinkIds :
              m = request[c].link /\ links'[m] # NoRow =>
                links'[m].file = request[c].new
<1> USE DEF TypeOK, ProgramTypeOK
<1>1. WriteUpdate(c)
  <2>1. ~ClientCall(c)
    BY ClientCallShape DEF Idle
  <2>2. \A d \in Clients : d # c => ~ClientCall(d) /\ ~ClientStep(d)
    BY ClientCallShape, ClientStepShape
  <2>3. ~GcStep
    BY GcShape
  <2>4. ClientStep(c)
    BY <2>1, <2>2, <2>3
    DEF Next, Upload, FileDeletionJob, UpdateNotFound, Tick, Crash, Idle, vars
  <2>5. QED
    BY <2>4
    DEF ClientStep, InsertLink, InsertFails, CleanupUpload, UnlinkOld,
        WriteTrash, WriteRestore, PurgeFile, PurgeRow, TransactionFails,
        Finish, Idle
<1>2. request[c].new # NoKey
  BY <1>1 DEF WriteUpdate, Finish, Idle
<1>3. ASSUME NEW m \in LinkIds, m = request[c].link, links'[m] # NoRow
      PROVE  links'[m].file = request[c].new
  <2>1. Exists(m) /\ links'[m] = Updated(links[m], request[c])
    BY <1>1, <1>3, SentinelAssumption DEF WriteUpdate, Exists
  <2>2. QED
    BY <1>2, <2>1 DEF Updated, Exists, Row
<1>4. QED
  BY <1>2, <1>3

\* No step lets a call come to delete a file that a row other than its own has.
LEMMA CallsDeleteTheirOwnStep ==
  ASSUME IInv, [Next]_vars
  PROVE  CallsDeleteTheirOwn'
<1> USE DEF IInv
<1>1. ASSUME NEW c \in Clients, request'[c].pc \in {"update", "purge_file"},
             NEW k, k = request'[c].old, NEW l, l = request'[c].link
      PROVE  Settled(k)' /\ OnlyOf(k, l)'
  <2>1. Settled(k) /\ OnlyOf(k, l)
    <3>1. CASE request'[c] = request[c]
      BY <1>1, <3>1 DEF CallsDeleteTheirOwn
    <3>2. CASE ClientCall(c)
      <4>1. l \in LinkIds /\ Exists(l) /\ k = links[l].file
        BY <1>1, <3>2, ClientCallShape
      <4>2. QED
        BY <4>1 DEF RowsOwnTheirFiles
    <3>3. QED
      BY <1>1, <3>1, <3>2, CallsShape DEF Idle
  <2>2. k \in Keys
    BY <2>1 DEF Settled, TypeOK, ProgramTypeOK
  <2>3. QED
    BY <2>1, <2>2, SettledStable, OnlyOfStable
<1>2. ASSUME NEW c \in Clients, request'[c].pc = "unlink_old",
             NEW k, k = request'[c].old
      PROVE  /\ Settled(k)'
             /\ \A m \in LinkIds : links'[m] # NoRow => links'[m].file # k
  <2>1. CASE request'[c] = request[c]
    <3>1. Settled(k) /\ \A m \in LinkIds : Exists(m) => links[m].file # k
      BY <1>2, <2>1 DEF CallsDeleteTheirOwn
    <3>2. k \in Keys
      BY <3>1 DEF Settled, TypeOK, ProgramTypeOK
    <3>3. QED
      BY <3>1, <3>2, SettledStable, SettledRows
  <2>2. CASE request[c].pc = "update" /\ k = request[c].old
    <3>0. PICK l : l = request[c].link
      OBVIOUS
    <3>1. Settled(k) /\ OnlyOf(k, l)
      BY <2>2, <3>0 DEF CallsDeleteTheirOwn
    <3>2. k \in Keys
      BY <3>1 DEF Settled, TypeOK, ProgramTypeOK
    <3>3. Settled(k)' /\ OnlyOf(k, l)'
      BY <3>1, <3>2, SettledStable, OnlyOfStable
    <3>4. request[c].new # k
      BY <2>2, <3>1 DEF Settled, Carries
    <3>5. ASSUME NEW m \in LinkIds, links'[m] # NoRow
          PROVE  links'[m].file # k
      BY <1>2, <2>2, <3>0, <3>3, <3>4, <3>5, ReplacedRow DEF OnlyOf, Exists
    <3>6. QED
      BY <3>3, <3>5
  <2>3. ~ClientCall(c)
    BY <1>2, ClientCallShape
  <2>4. QED
    BY <1>2, <2>1, <2>2, <2>3, CallsShape DEF Idle
<1>3. ASSUME NEW c \in Clients, request'[c].pc \in {"purge_file", "purge_row"}
      PROVE  request'[c].link \in doomed'
  <2>1. doomed \subseteq doomed'
    BY UploadsShape DEF History, vars
  <2>2. CASE ClientCall(c)
    <3>1. request'[c].pc = "purge_file" /\ History
      BY <1>3, <2>2, ClientCallShape
    <3>2. QED
      BY <3>1 DEF History, Reasons
  <2>3. CASE ~ClientCall(c)
    BY <1>3, <2>1, <2>3, CallsShape DEF CallsDeleteTheirOwn, Idle
  <2>4. QED
    BY <2>2, <2>3
<1>4. QED
  BY <1>1, <1>2, <1>3 DEF CallsDeleteTheirOwn, Exists, Settled, OnlyOf, Carries

\* No step puts a link that is not due in the collector's hands, or gives
\* its file to another row.
LEMMA CollectorDeletesDoomedStep ==
  ASSUME IInv, [Next]_vars
  PROVE  CollectorDeletesDoomed'
<1> USE DEF IInv
<1>1. gc'.pc # "idle" => gc'.cutoff <= now' - Retention
  <2>1. gc'.cutoff \in Int /\ gc.cutoff \in Int /\ now \in Int
    BY StepType DEF TypeOK, ProgramTypeOK, GcRun, Time
  <2>2. QED
    BY <2>1, CollectorShape, BoundsAssumption DEF CollectorDeletesDoomed
<1>2. doomed \subseteq doomed'
  BY UploadsShape DEF History, vars
<1>3. ASSUME NEW v \in gc'.batch \cup gc'.done \cup gc'.failed, NEW k, k = v.key,
             NEW l, l = v.link
      PROVE  Settled(k)' /\ OnlyOf(k, l)' /\ l \in doomed'
  <2>1. Settled(k) /\ OnlyOf(k, l) /\ l \in doomed
    <3>1. CASE v \in gc.batch \cup gc.done \cup gc.failed
      BY <1>3, <3>1 DEF CollectorDeletesDoomed
    <3>2. CASE gc.pc # "idle" /\ l \in Garbage(gc.cutoff) /\ k = links[l].file
      <4>1. l \in LinkIds /\ Exists(l)
        BY <3>2 DEF Garbage
      <4>2. /\ links[l].expires \in Int /\ links[l].deleted \in Int
            /\ gc.cutoff \in Int /\ now \in Int /\ gc.cutoff <= now - Retention
        BY <3>2, <4>1
        DEF CollectorDeletesDoomed, TypeOK, ProgramTypeOK, GcRun, Time, Stamp,
            Row, Exists
      <4>3. Due(l)
        BY <3>2, <4>1, <4>2, BoundsAssumption
        DEF Due, Garbage, ExpiredRow, PastRetention
      <4>4. QED
        BY <3>2, <4>1, <4>3 DEF DueIsDoomed, RowsOwnTheirFiles
    <3>3. QED
      BY <1>3, <3>1, <3>2, CollectorShape
  <2>2. k \in Keys
    BY <2>1 DEF Settled, TypeOK, ProgramTypeOK
  <2>3. QED
    BY <1>2, <2>1, <2>2, SettledStable, OnlyOfStable
<1>4. ASSUME NEW k \in deletions'
      PROVE  /\ Settled(k)'
             /\ \A m \in LinkIds : links'[m] # NoRow /\ links'[m].file = k =>
                  m \in doomed'
  <2>1. /\ Settled(k)
        /\ \A m \in LinkIds : Exists(m) /\ links[m].file = k => m \in doomed
    BY <1>4, CollectorShape DEF CollectorDeletesDoomed, OnlyOf
  <2>2. k \in Keys
    BY <2>1 DEF Settled, TypeOK, ProgramTypeOK
  <2>3. QED
    BY <1>2, <2>1, <2>2, SettledStable, SettledRows
<1>5. QED
  BY <1>1, <1>3, <1>4
  DEF CollectorDeletesDoomed, Exists, Settled, OnlyOf, Carries

\* A link that has become due is remembered as doomed.
LEMMA DueIsDoomedStep ==
  ASSUME IInv, [Next]_vars
  PROVE  DueIsDoomed'
<1>1. CASE History
  BY <1>1 DEF History, Reasons, DueIsDoomed
<1>2. CASE UNCHANGED vars
  BY <1>2 DEF vars, IInv, DueIsDoomed, Due, Exists
<1>3. QED
  BY <1>1, <1>2, UploadsShape DEF IInv

\* The id of a create under way has never had a row and is nobody else's.
LEMMA NewLinksAreNewStep ==
  ASSUME IInv, [Next]_vars
  PROVE  NewLinksAreNew'
<1> USE DEF IInv
<1> DEFINE Creating(call) == call.pc \in {"create", "create_cleanup"}
<1>1. nextLink \in Nat /\ nextLink' \in {nextLink, nextLink + 1} /\ nextLink <= nextLink'
  BY UploadsShape, BoundsAssumption DEF TypeOK, ProgramTypeOK
<1>2. ASSUME NEW c \in Clients, Creating(request'[c])
      PROVE  \/ /\ Creating(request[c])
                /\ request'[c].link = request[c].link
             \/ /\ request'[c].link = nextLink /\ nextLink' = nextLink + 1
                /\ \A d \in Clients : d # c => request'[d] = request[d]
  BY <1>2, CallsShape, ClientCallShape DEF Idle
<1>3. ASSUME NEW l \in LinkIds, links'[l] # NoRow
      PROVE  \/ Exists(l)
             \/ \E c \in Clients : /\ Creating(request[c]) /\ request[c].link = l
                                   /\ ~Creating(request'[c])
  BY <1>3, RowsShape
<1>4. ASSUME NEW l \in LinkIds, links'[l] # NoRow
      PROVE  l < nextLink
  BY <1>3, <1>4 DEF NewLinksAreNew
\* A link is doomed by a step only if it has a row before or after it.
<1>5. ASSUME NEW l \in doomed'
      PROVE  l \in doomed \/ (l \in LinkIds /\ (Exists(l) \/ links'[l] # NoRow))
  <2>1. CASE l \in doomed
    BY <2>1
  <2>2. CASE l \in LinkIds /\ Due(l)'
    BY <2>2 DEF Due, Exists
  <2>3. ASSUME NEW c \in Clients, request'[c].pc = "purge_file", l = request'[c].link
        PROVE  l \in doomed \/ (l \in LinkIds /\ Exists(l))
    <3>1. CASE request'[c] = request[c]
      BY <2>3, <3>1 DEF CallsDeleteTheirOwn
    <3>2. CASE ClientCall(c)
      BY <2>3, <3>2, ClientCallShape
    <3>3. QED
      BY <2>3, <3>1, <3>2, CallsShape DEF Idle
  <2>4. QED
    BY <1>5, <2>1, <2>2, <2>3, UploadsShape DEF History, Reasons, vars
<1>6. ASSUME NEW l \in LinkIds, links'[l] # NoRow \/ l \in doomed'
      PROVE  l < nextLink
  BY <1>4, <1>5, <1>6 DEF NewLinksAreNew
<1>7. ASSUME NEW c \in Clients, Creating(request'[c])
      PROVE  /\ request'[c].link < nextLink'
             /\ request'[c].link \notin doomed'
             /\ links'[request'[c].link] = NoRow
  <2>1. request'[c].link \in LinkIds
    BY <1>7, StepType DEF TypeOK, ProgramTypeOK
  <2>2. CASE request'[c].link = nextLink /\ nextLink' = nextLink + 1
    BY <1>1, <1>6, <2>1, <2>2
  <2>3. CASE Creating(request[c]) /\ request'[c].link = request[c].link
    <3>1. /\ request[c].link < nextLink /\ request[c].link \notin doomed
          /\ ~Exists(request[c].link)
      BY <2>3 DEF NewLinksAreNew
    <3>2. links'[request[c].link] = NoRow
      BY <1>3, <1>7, <2>1, <2>3, <3>1 DEF NewLinksAreNew
    <3>3. request[c].link \notin doomed'
      BY <1>5, <2>3, <3>1, <3>2 DEF Exists
    <3>4. QED
      BY <1>1, <2>1, <2>3, <3>1, <3>2, <3>3 DEF LinkIds
  <2>4. QED
    BY <1>2, <1>7, <2>2, <2>3
<1>8. ASSUME NEW c \in Clients, NEW d \in Clients, Creating(request'[c]),
             Creating(request'[d]), request'[c].link = request'[d].link
      PROVE  c = d
  <2>1. \A b \in Clients : Creating(request[b]) => request[b].link < nextLink
    BY DEF NewLinksAreNew
  <2>2. CASE Creating(request[c]) /\ Creating(request[d])
             /\ request[c].link = request[d].link
    BY <2>2 DEF NewLinksAreNew
  <2>3. ASSUME NEW a \in Clients, NEW b \in Clients, a # b, Creating(request'[b]),
               request'[a].link = nextLink, request'[b].link = nextLink,
               \A x \in Clients : x # a => request'[x] = request[x]
        PROVE  FALSE
    BY <1>1, <2>1, <2>3
  <2>4. QED
    BY <1>2, <1>8, <2>2, <2>3
<1>9. QED
  <2>1. doomed' \subseteq LinkIds
    BY StepType DEF TypeOK
  <2>2. \A l \in LinkIds : l < nextLink => l < nextLink'
    BY <1>1 DEF LinkIds
  <2>3. QED
    BY <1>6, <1>7, <1>8, <2>1, <2>2 DEF NewLinksAreNew, Exists

\* No step takes the file from the row of a link that is not doomed.
LEMMA FileLostForAReasonStep ==
  ASSUME IInv, [Next]_vars
  PROVE  FileLostForAReason'
<1> USE DEF IInv
<1>1. ASSUME NEW l \in LinkIds, links'[l] # NoRow, l \notin doomed'
      PROVE  links'[l].file \in files'
  <2>1. l \notin doomed
    BY <1>1, UploadsShape DEF History, vars
  <2>2. CASE Exists(l) /\ links'[l].file = links[l].file
    <3> DEFINE k == links[l].file
    <3>1. k \in files /\ Settled(k)
      BY <2>1, <2>2 DEF FileLostForAReason, RowsOwnTheirFiles
    <3>2. \A c \in Clients : ~Carries(c, k)
      BY <3>1 DEF Settled
    <3>3. k \in files'
      BY <2>1, <2>2, <3>1, <3>2, DeletedFiles
    <3>4. QED
      BY <2>2, <3>3
  <2>3. ASSUME NEW c \in Clients, request[c].pc \in {"create", "update"},
               request[c].new # NoKey, request[c].new = links'[l].file,
               files' = files
        PROVE  links'[l].file \in files'
    BY <2>3 DEF UploadsComplete
  <2>4. QED
    BY <1>1, <2>2, <2>3, RowsShape
<1>2. QED
  BY <1>1 DEF FileLostForAReason, Exists

\* The inductive invariant holds when the server first starts.
LEMMA InitInductive == Init => IInv
<1> SUFFICES ASSUME Init
             PROVE  IInv
  OBVIOUS
<1>1. TypeOK
  BY InitType
<1>2. /\ \A c \in Clients : request[c].pc = "idle"
      /\ \A l \in LinkIds : ~Exists(l)
      /\ gc.pc = "idle" /\ gc.batch \cup gc.done \cup gc.failed = {}
      /\ deletions = {} /\ doomed = {} /\ uploads = {}
  BY DEF Init, Idle, GcIdle, Exists
<1>3. UploadsComplete /\ NewKeysHaveOneHolder /\ RowsOwnTheirFiles
  BY <1>2 DEF UploadsComplete, NewKeysHaveOneHolder, RowsOwnTheirFiles, Carries
<1>4. CallsDeleteTheirOwn /\ CollectorDeletesDoomed
  BY <1>2 DEF CallsDeleteTheirOwn, CollectorDeletesDoomed
<1>5. DueIsDoomed /\ NewLinksAreNew /\ FileLostForAReason
  BY <1>2 DEF DueIsDoomed, Due, NewLinksAreNew, FileLostForAReason
<1>6. QED
  BY <1>1, <1>3, <1>4, <1>5 DEF IInv

\* Every step of the system preserves the inductive invariant.
LEMMA StepInductive ==
  ASSUME IInv, [Next]_vars
  PROVE  IInv'
<1>1. TypeOK'
  BY StepType DEF IInv
<1>2. QED
  BY <1>1, UploadsCompleteStep, NewKeysHaveOneHolderStep, RowsOwnTheirFilesStep,
     CallsDeleteTheirOwnStep, CollectorDeletesDoomedStep, DueIsDoomedStep,
     NewLinksAreNewStep, FileLostForAReasonStep
  DEF IInv

-----------------------------------------------------------------------------
(* The theorems. *)

\* Type correctness of every reachable state, for all constants.
THEOREM TypeCorrect == Spec => []TypeOK
<1>1. TypeOK /\ [Next]_vars => TypeOK'
  BY StepType
<1>2. QED
  BY InitType, <1>1, PTL DEF Spec

\* The inductive invariant holds in every reachable state.
THEOREM Inductive == Spec => []IInv
<1>1. IInv /\ [Next]_vars => IInv'
  BY StepInductive
<1>2. QED
  BY InitInductive, <1>1, PTL DEF Spec

\* A link that was never due and that nobody asked to purge keeps its file,
\* whatever calls, cleanup runs, failures and restarts interleave.
THEOREM FilesAreKept == Spec => []FileLostForAReason
<1>1. IInv => FileLostForAReason
  BY DEF IInv
<1>2. QED
  BY Inductive, <1>1, PTL

\* This step is one of a purge or a run that has tried to delete the file of l.
RemovedNow(l) ==
  \/ \E c \in Clients : /\ request[c].pc = "purge_row" /\ request[c].link = l
                        /\ request'[c] # request[c]
  \/ gc' # gc /\ \E v \in gc.done : v.link = l

\* A row is only removed by a call or a run that has dealt with a file of it before.
LEMMA RemovedByItsHolder ==
  ASSUME TypeOK, [Next]_vars, NEW l \in LinkIds, Exists(l), links'[l] = NoRow
  PROVE  BeingRemoved(l) /\ RemovedNow(l)
<1> USE BoundsAssumption DEF TypeOK, ProgramTypeOK, Exists
<1>1. ASSUME NEW c \in Clients, PurgeRow(c)
      PROVE  BeingRemoved(l) /\ RemovedNow(l)
  <2>1. request[c].pc = "purge_row" /\ request[c].link = l /\ request'[c].pc = "idle"
    BY <1>1 DEF PurgeRow, Finish, Idle
  <2>2. QED
    BY <2>1 DEF BeingRemoved, RemovedNow
<1>2. CASE GcDeleteRows
  <2>1. PICK v \in gc.batch : v.link = l
    BY <1>2 DEF GcDeleteRows
  <2>2. gc.done = gc.batch /\ gc.pc = "unlink" /\ gc' = GcNextBatch
    BY <1>2 DEF GcDeleteRows
  <2>3. GcNextBatch.pc \in {"idle", "select"}
    BY DEF GcNextBatch, GcIdle, GcRun
  <2>4. QED
    BY <2>1, <2>2, <2>3 DEF BeingRemoved, RemovedNow
<1>3. ASSUME NEW v \in Victim, GcDeleteRow(v)
      PROVE  BeingRemoved(l) /\ RemovedNow(l)
  <2>1. v.link = l /\ v \in gc.done /\ gc' = [gc EXCEPT !.done = @ \ {v}]
    BY <1>3 DEF GcDeleteRow
  <2>2. v \notin gc'.done
    BY <2>1 DEF GcRun
  <2>3. QED
    BY <2>1, <2>2 DEF BeingRemoved, RemovedNow
<1>4. \A c \in Clients :
        ~InsertLink(c) /\ ~WriteUpdate(c) /\ ~WriteTrash(c) /\ ~WriteRestore(c)
  <2>1. SUFFICES ASSUME NEW c \in Clients,
                        \/ InsertLink(c) \/ WriteUpdate(c) \/ WriteTrash(c)
                        \/ WriteRestore(c)
                 PROVE  FALSE
    OBVIOUS
  <2>2. ASSUME NEW row \in Row
        PROVE  row # NoRow
    BY <2>2, SentinelAssumption
  <2>3. links'[l] \in Row
    <3>1. CASE InsertLink(c)
      BY <3>1 DEF InsertLink, Row, Stamp
    <3>2. CASE WriteTrash(c)
      BY <3>2 DEF WriteTrash, SetDeleted, Row, Stamp, Time
    <3>3. CASE WriteRestore(c)
      BY <3>3 DEF WriteRestore, SetDeleted, Row, Stamp
    <3>4. CASE WriteUpdate(c)
      <4>1. links'[l] = links[l] \/ links'[l] = Updated(links[l], request[c])
        BY <3>4 DEF WriteUpdate
      <4>2. request[c].new \in Keys \cup {NoKey} /\ request[c].exp \in Stamp \cup {Keep}
        BY DEF Request, Stamp, Keep
      <4>3. QED
        BY <4>1, <4>2 DEF Updated, Row
    <3>5. QED
      BY <2>1, <3>1, <3>2, <3>3, <3>4
  <2>4. QED
    BY <2>2, <2>3
<1>5. CASE /\ Next /\ ~GcDeleteRows
           /\ \A v \in Victim : ~GcDeleteRow(v)
           /\ \A c \in Clients : ~PurgeRow(c)
  BY <1>4, <1>5
  DEF Next, ClientCall, ClientStep, GcStep, Upload, FileDeletionJob,
      UpdateNotFound, CreateLink, UpdateLink, TrashLink, RestoreLink,
      PurgeLink, InsertFails, CleanupUpload, UnlinkOld, PurgeFile,
      TransactionFails, GcStart, GcSelect, GcQueryFails, GcDeleteRowsFails,
      GcUnlink, GcDeleteRowFails, GcQueueRetries, Tick, Crash
<1>6. QED
  BY <1>1, <1>2, <1>3, <1>5 DEF vars

\* The row of a link is only removed once the link is doomed.
LEMMA RowRemovedStep ==
  ASSUME IInv, [Next]_vars, NEW l \in LinkIds, Exists(l), links'[l] = NoRow
  PROVE  l \in doomed
<1>1. BeingRemoved(l)
  BY RemovedByItsHolder DEF IInv
<1>2. QED
  BY <1>1 DEF BeingRemoved, IInv, CallsDeleteTheirOwn, CollectorDeletesDoomed

\* No actor removes the row of a link that was never due and that nobody asked
\* to purge.
THEOREM RowsAreKept == Spec => RowRemovedForAReason
<1>1. IInv /\ [Next]_vars =>
        [\A l \in LinkIds : Exists(l) /\ links'[l] = NoRow => l \in doomed]_vars
  BY RowRemovedStep
<1>2. QED
  BY Inductive, <1>1, PTL DEF Spec, RowRemovedForAReason

\* A write of a call that read a row before it was removed does not bring the
\* row back.
LEMMA ResurrectionStep ==
  ASSUME IInv, [Next]_vars, NEW l \in doomed, links[l] = NoRow
  PROVE  links'[l] = NoRow
<1>1. l \in LinkIds /\ ~Exists(l)
  BY DEF IInv, TypeOK, Exists
<1>2. ASSUME NEW c \in Clients, request[c].pc = "create", request[c].link = l
      PROVE  FALSE
  BY <1>2 DEF IInv, NewLinksAreNew
<1>3. QED
  BY <1>1, <1>2, RowsShape DEF IInv

\* A removed link is gone for good, whatever stale calls are still under way.
THEOREM RemovedLinksStayRemoved == Spec => NeverResurrected
<1>1. IInv /\ [Next]_vars =>
        [\A l \in doomed : links[l] = NoRow => links'[l] = NoRow]_vars
  BY ResurrectionStep
<1>2. QED
  BY Inductive, <1>1, PTL DEF Spec, NeverResurrected

-----------------------------------------------------------------------------
(* Two runs of processCleanup at the same time. *)

\* The links that a run of processCleanup still has to do with, whichever run it is.
Victims(run) == run.batch \cup run.done \cup run.failed

\* What CollectorDeletesDoomed says of a run.
Dooms(run) ==
  /\ run.pc # "idle" => run.cutoff <= now - Retention
  /\ \A v \in Victims(run) : Settled(v.key) /\ OnlyOf(v.key, v.link) /\ v.link \in doomed

\* A key whose rows, if there is one, are doomed.
Forfeit(k) ==
  Settled(k) /\ \A m \in LinkIds : Exists(m) /\ links[m].file = k => m \in doomed

\* CollectorDeletesDoomed of one run and of the other.
LEMMA BothDoom ==
  /\ CollectorDeletesDoomed <=> Dooms(gc) /\ \A k \in deletions : Forfeit(k)
  /\ Beside!CollectorDeletesDoomed <=> Dooms(other) /\ \A k \in deletions : Forfeit(k)
<1>1. CollectorDeletesDoomed <=> Dooms(gc) /\ \A k \in deletions : Forfeit(k)
  BY DEF CollectorDeletesDoomed, Dooms, Victims, Forfeit
<1>2. /\ \A k : Beside!Settled(k) <=> Settled(k)
      /\ \A k, l : Beside!OnlyOf(k, l) <=> OnlyOf(k, l)
  BY DEF Beside!Settled, Settled, Beside!OnlyOf, OnlyOf, Beside!Carries, Carries,
         Beside!Exists, Exists, Beside!LinkIds, LinkIds
<1>3. \A m : Beside!Exists(m) <=> Exists(m)
  BY DEF Beside!Exists, Exists
<1>4. Beside!LinkIds = LinkIds
  BY DEF Beside!LinkIds, LinkIds
<1>5. Beside!CollectorDeletesDoomed <=> Dooms(other) /\ \A k \in deletions : Forfeit(k)
  BY <1>2, <1>3, <1>4 DEF Beside!CollectorDeletesDoomed, Dooms, Victims, Forfeit
<1>6. QED
  BY <1>1, <1>5

\* The same after a step.
LEMMA BothDoomNext ==
  /\ Dooms(gc)' /\ (\A k \in deletions' : Forfeit(k)') => CollectorDeletesDoomed'
  /\ Dooms(other)' /\ (\A k \in deletions' : Forfeit(k)') => Beside!CollectorDeletesDoomed'
  /\ CollectorDeletesDoomed' => \A k \in deletions' : Forfeit(k)'
<1>1. /\ Dooms(gc)' /\ (\A k \in deletions' : Forfeit(k)') => CollectorDeletesDoomed'
      /\ CollectorDeletesDoomed' => \A k \in deletions' : Forfeit(k)'
  BY DEF CollectorDeletesDoomed, Dooms, Victims, Forfeit
<1>2. /\ \A k : Settled(k)' => Beside!Settled(k)'
      /\ \A k, l : OnlyOf(k, l)' => Beside!OnlyOf(k, l)'
      /\ \A m : Beside!Exists(m)' <=> Exists(m)'
  BY DEF Beside!Settled, Settled, Beside!OnlyOf, OnlyOf, Beside!Carries, Carries,
         Beside!Exists, Exists, Beside!LinkIds, LinkIds
<1>3. Dooms(other)' /\ (\A k \in deletions' : Forfeit(k)') => Beside!CollectorDeletesDoomed'
  BY <1>2 DEF Beside!CollectorDeletesDoomed, Dooms, Victims, Forfeit, Beside!LinkIds, LinkIds
<1>4. QED
  BY <1>1, <1>3

\* The two runs select and count alike.
LEMMA SameSelection ==
  /\ \A S : Beside!Cardinality(S) = Cardinality(S)
  /\ \A cutoff : Beside!Garbage(cutoff) = Garbage(cutoff)
  /\ \A cutoff, offset : Beside!FindGarbage(cutoff, offset) = FindGarbage(cutoff, offset)
<1>1. \A S : Beside!Cardinality(S) = Cardinality(S)
  BY DEF Beside!Cardinality, Cardinality
<1>2. \A cutoff : Beside!Garbage(cutoff) = Garbage(cutoff)
  BY DEF Beside!Garbage, Garbage, Beside!Exists, Exists, Beside!ExpiredRow, ExpiredRow,
         Beside!PastRetention, PastRetention, Beside!LinkIds, LinkIds
<1>3. \A cutoff, offset : Beside!FindGarbage(cutoff, offset) = FindGarbage(cutoff, offset)
  BY <1>1, <1>2 DEF Beside!FindGarbage, FindGarbage
<1>4. QED
  BY <1>1, <1>2, <1>3

\* Both remember the same history, delete files alike, and have the same types.
LEMMA SameHelpers ==
  /\ Beside!History => History
  /\ \A k : Beside!DeleteFile(k) => DeleteFile(k)
  /\ \A kind : Beside!Spend(kind) => Spend(kind)
  /\ Beside!GcIdle = GcIdle /\ Beside!LinkIds = LinkIds /\ Beside!Victim = Victim
<1>1. Beside!LinkIds = LinkIds /\ Beside!Victim = Victim
  BY DEF Beside!LinkIds, LinkIds, Beside!Victim, Victim
<1>2. /\ \A k : Beside!DeleteFile(k) => DeleteFile(k)
      /\ \A kind : Beside!Spend(kind) => Spend(kind)
  BY DEF Beside!DeleteFile, DeleteFile, Beside!Spend, Spend
<1>3. Beside!GcIdle = GcIdle
  BY DEF Beside!GcIdle, GcIdle
<1>4. \A l : Beside!Due(l)' <=> Due(l)'
  BY DEF Beside!Due, Due, Beside!Exists, Exists
<1>5. Beside!Reasons' = Reasons'
  BY <1>1, <1>4 DEF Beside!Reasons, Reasons, Beside!LinkIds, LinkIds
<1>6. Beside!Swapping' = Swapping' /\ Beside!Dropped = Dropped
  BY DEF Beside!Swapping, Swapping, Beside!Dropped, Dropped
<1>7. Beside!History => History
  BY <1>5, <1>6 DEF Beside!History, History
<1>8. QED
  BY <1>1, <1>2, <1>3, <1>7

\* The next batch of the run that is beside, or its end.
LEMMA BesideNextBatch ==
  ASSUME other \in GcRun
  PROVE  LET next == Beside!GcNextBatch
         IN  /\ next \in GcRun
             /\ Victims(next) = {}
             /\ next.pc # "idle" => next.cutoff = other.cutoff
<1>1. CASE Beside!Cardinality(other.batch) < BatchSize
  BY <1>1, SameHelpers, IdleType DEF Beside!GcNextBatch, Victims, GcIdle
<1>2. CASE ~(Beside!Cardinality(other.batch) < BatchSize)
  <2>1. other.offset + BatchSize \in Nat
    BY BoundsAssumption DEF GcRun
  <2>2. Beside!GcNextBatch = [other EXCEPT !.pc = "select", !.offset = @ + BatchSize,
                                          !.batch = {}, !.done = {}, !.failed = {}]
    BY <1>2 DEF Beside!GcNextBatch
  <2>3. QED
    BY <2>1, <2>2 DEF GcRun, Victims
<1>3. QED
  BY <1>1, <1>2

\* What a step of the run that is beside can do, whatever that step is.
BesideEffect ==
  /\ UNCHANGED <<issued, uploads, nextLink, request, gc, now>>
  /\ History
  /\ other' \in GcRun
  /\ other'.pc # "idle" =>
       \/ other'.cutoff = other.cutoff /\ other.pc # "idle"
       \/ other'.cutoff = now - Retention
  /\ \A v \in Victims(other') :
       \/ v \in Victims(other)
       \/ /\ other.pc # "idle"
          /\ v.link \in Garbage(other.cutoff) /\ v.key = links[v.link].file
  /\ \A k \in deletions' : k \in deletions \/ \E v \in Victims(other) : v.key = k
  /\ links' \in [LinkIds -> Row \cup {NoRow}]
  /\ \A m \in LinkIds :
       \/ links'[m] = links[m]
       \/ links'[m] = NoRow /\ \E v \in Victims(other) : v.link = m
  /\ files' \subseteq files
  /\ \A k \in files : k \in files' \/ \E v \in Victims(other) : v.key = k
  /\ faults' \in [{"storage", "db", "crash"} -> Nat]

\* Every step of processCleanup is of that kind, also of a run that began while
\* another was under way.
LEMMA BesideShape ==
  ASSUME TypeOK, other \in GcRun, BesideStep
  PROVE  BesideEffect
<1> USE SameHelpers, SameSelection DEF TypeOK, ProgramTypeOK, Victims
<1>1. gc' = gc
  BY DEF BesideStep
<1>2. CASE Beside!GcStart
  <2>1. now - Retention \in Int /\ Cardinality(Garbage(now - Retention)) \in Nat
    BY BoundsAssumption, GarbageCount DEF Time
  <2>2. other' = [GcIdle EXCEPT !.pc = "select", !.cutoff = now - Retention,
                               !.total = Cardinality(Garbage(now - Retention))]
    BY <1>2 DEF Beside!GcStart
  <2>3. other' \in GcRun /\ other'.cutoff = now - Retention /\ Victims(other') = {}
    BY <2>1, <2>2 DEF GcIdle, GcRun
  <2>4. /\ UNCHANGED <<links, files, issued, uploads, nextLink, request, deletions, now, faults>>
        /\ History
    BY <1>2 DEF Beside!GcStart
  <2>5. QED
    BY <1>1, <2>3, <2>4 DEF BesideEffect
<1>3. CASE Beside!GcSelect
  <2>1. PICK batch \in {{}, FindGarbage(other.cutoff, other.offset)} :
          other' = IF batch = {} THEN GcIdle
                   ELSE [other EXCEPT !.pc = "unlink", !.batch = batch]
    BY <1>3 DEF Beside!GcSelect
  <2>2. /\ UNCHANGED <<links, files, issued, uploads, nextLink, request, deletions, now, faults>>
        /\ History /\ other.pc # "idle"
    BY <1>3 DEF Beside!GcSelect
  <2>3. \A v \in batch : v.link \in Garbage(other.cutoff) /\ v.key = links[v.link].file
    <3>1. SUFFICES ASSUME NEW v \in FindGarbage(other.cutoff, other.offset)
                   PROVE  v.link \in Garbage(other.cutoff) /\ v.key = links[v.link].file
      BY <2>1
    <3>2. v = [link |-> v.link, key |-> links[v.link].file]
      BY FindGarbageVictims
    <3>3. v.key = links[v.link].file
      BY <3>2
    <3>4. QED
      BY <3>3, FindGarbageVictims
  <2>4. CASE batch = {}
    <3>1. other' \in GcRun /\ other'.pc = "idle" /\ Victims(other') = {}
      BY <2>1, <2>4, IdleType DEF GcIdle
    <3>2. QED
      BY <1>1, <2>2, <3>1 DEF BesideEffect
  <2>5. CASE batch # {}
    <3>1. /\ other' = [other EXCEPT !.pc = "unlink", !.batch = batch]
          /\ batch \subseteq Victim
      BY <2>1, <2>5, FindGarbageType
    <3>2. /\ other' \in GcRun /\ other'.cutoff = other.cutoff
          /\ Victims(other') \subseteq batch \cup Victims(other)
      BY <3>1 DEF GcRun
    <3>3. QED
      BY <1>1, <2>2, <2>3, <3>2 DEF BesideEffect
  <2>6. QED
    BY <2>4, <2>5
<1>4. CASE Beside!GcQueryFails
  <2>1. other' \in GcRun /\ other'.pc = "idle" /\ Victims(other') = {}
    BY <1>4, IdleType DEF Beside!GcQueryFails, GcIdle
  <2>2. /\ UNCHANGED <<links, files, issued, uploads, nextLink, request, deletions, now>>
        /\ History /\ Spend("db")
    BY <1>4 DEF Beside!GcQueryFails
  <2>3. QED
    BY <1>1, <2>1, <2>2, SpendType DEF BesideEffect
<1>5. CASE Beside!GcDeleteRows
  <2>1. /\ links' = [l \in LinkIds |-> IF l \in {v.link : v \in other.batch}
                                       THEN NoRow ELSE links[l]]
        /\ UNCHANGED <<files, issued, uploads, nextLink, request, deletions, now, faults>>
        /\ History /\ other.pc # "idle" /\ other' = Beside!GcNextBatch
    BY <1>5 DEF Beside!GcDeleteRows
  <2>2. QED
    BY <1>1, <2>1, BesideNextBatch DEF BesideEffect
<1>6. CASE Beside!GcDeleteRowsFails
  <2>1. /\ other' = [other EXCEPT !.pc = "fallback"] /\ other.pc # "idle"
        /\ UNCHANGED <<links, files, issued, uploads, nextLink, request, deletions, now>>
        /\ History /\ Spend("db")
    BY <1>6 DEF Beside!GcDeleteRowsFails
  <2>2. other' \in GcRun /\ other'.cutoff = other.cutoff /\ Victims(other') = Victims(other)
    BY <2>1 DEF GcRun
  <2>3. QED
    BY <1>1, <2>1, <2>2, SpendType DEF BesideEffect
<1>7. ASSUME NEW v \in Victim, Beside!GcUnlink(v)
      PROVE  BesideEffect
  <2>1. /\ other' = [other EXCEPT !.done = @ \cup {v}] /\ v \in other.batch /\ other.pc # "idle"
        /\ UNCHANGED <<links, issued, uploads, nextLink, request, deletions, now>>
        /\ History /\ DeleteFile(v.key)
    BY <1>7 DEF Beside!GcUnlink
  <2>2. other' \in GcRun /\ other'.cutoff = other.cutoff /\ Victims(other') = Victims(other)
    BY <2>1 DEF GcRun
  <2>3. QED
    BY <1>1, <2>1, <2>2, DeleteFileType DEF BesideEffect
<1>8. ASSUME NEW v \in Victim, Beside!GcDeleteRow(v)
      PROVE  BesideEffect
  <2>1. /\ other' = [other EXCEPT !.done = @ \ {v}] /\ v \in other.done /\ other.pc # "idle"
        /\ links' = [links EXCEPT ![v.link] = NoRow]
        /\ UNCHANGED <<files, issued, uploads, nextLink, request, deletions, now, faults>>
        /\ History
    BY <1>8 DEF Beside!GcDeleteRow
  <2>2. other' \in GcRun /\ other'.cutoff = other.cutoff /\ Victims(other') \subseteq Victims(other)
    BY <2>1 DEF GcRun
  <2>3. QED
    BY <1>1, <2>1, <2>2 DEF BesideEffect
<1>9. ASSUME NEW v \in Victim, Beside!GcDeleteRowFails(v)
      PROVE  BesideEffect
  <2>1. /\ other' = [other EXCEPT !.done = @ \ {v}, !.failed = @ \cup {v}]
        /\ v \in other.done /\ other.pc # "idle"
        /\ UNCHANGED <<links, files, issued, uploads, nextLink, request, deletions, now>>
        /\ History /\ Spend("db")
    BY <1>9 DEF Beside!GcDeleteRowFails
  <2>2. other' \in GcRun /\ other'.cutoff = other.cutoff /\ Victims(other') \subseteq Victims(other)
    BY <2>1 DEF GcRun
  <2>3. QED
    BY <1>1, <2>1, <2>2, SpendType DEF BesideEffect
<1>10. CASE Beside!GcQueueRetries
  <2>1. /\ deletions' = deletions \cup {v.key : v \in other.failed}
        /\ UNCHANGED <<links, files, issued, uploads, nextLink, request, now, faults>>
        /\ History /\ other.pc # "idle" /\ other' = Beside!GcNextBatch
    BY <1>10 DEF Beside!GcQueueRetries
  <2>2. QED
    BY <1>1, <2>1, BesideNextBatch DEF BesideEffect
<1>11. QED
  BY <1>2, <1>3, <1>4, <1>5, <1>6, <1>7, <1>8, <1>9, <1>10
  DEF BesideStep, StartBeside, Beside!GcStep

\* Nothing that such a step removes was anybody else's: whatever it does to the table
\* and to storage it does to doomed links.
LEMMA BesideRemovesDoomed ==
  ASSUME BothRunsDeleteDoomed, BesideEffect
  PROVE  /\ \A m \in LinkIds : links'[m] = links[m] \/ (links'[m] = NoRow /\ m \in doomed)
         /\ \A k \in files : k \in files' \/ Forfeit(k)
         /\ \A k \in deletions' : Forfeit(k)
<1>1. Dooms(other) /\ \A k \in deletions : Forfeit(k)
  BY BothDoom DEF BothRunsDeleteDoomed
<1>2. \A v \in Victims(other) : v.link \in doomed /\ Forfeit(v.key)
  BY <1>1 DEF Dooms, Forfeit, OnlyOf
<1>3. QED
  BY <1>1, <1>2 DEF BesideEffect

\* The invariant of one run survives the steps of the other.
LEMMA BesideKeeps ==
  ASSUME BothRunsDeleteDoomed, BesideEffect
  PROVE  BothRunsDeleteDoomed'
<1> USE DEF BothRunsDeleteDoomed, IInv
<1>1. /\ UNCHANGED <<issued, uploads, nextLink, request, gc, now>>
      /\ History /\ doomed \subseteq doomed'
      /\ files' \subseteq files
      /\ \A m \in LinkIds : links'[m] = links[m] \/ (links'[m] = NoRow /\ m \in doomed)
      /\ \A k \in files : k \in files' \/ Forfeit(k)
      /\ \A k \in deletions' : Forfeit(k)
  BY BesideRemovesDoomed DEF BesideEffect, History
<1>2. /\ \A k : Settled(k)' <=> Settled(k)
      /\ \A k, l : OnlyOf(k, l) => OnlyOf(k, l)'
      /\ \A m \in LinkIds : Exists(m)' => Exists(m) /\ links'[m] = links[m]
      /\ \A k : Forfeit(k) => Forfeit(k)'
  BY <1>1 DEF Settled, OnlyOf, Exists, Carries, Forfeit
<1>3. TypeOK'
  <2>1. deletions' \subseteq Keys
    BY <1>1 DEF TypeOK, ProgramTypeOK, Forfeit, Settled
  <2>2. ProgramTypeOK'
    BY <1>1, <2>1 DEF TypeOK, ProgramTypeOK, BesideEffect
  <2>3. QED
    BY <1>1, <2>2, HistoryType
<1>4. UploadsComplete'
  <2>1. ASSUME NEW k \in files, k \in uploads \/ \E c \in Clients : Carries(c, k)
        PROVE  k \in files'
    BY <1>1, <2>1 DEF Forfeit, Settled
  <2>2. QED
    BY <1>1, <2>1 DEF UploadsComplete, Carries
<1>5. NewKeysHaveOneHolder'
  BY <1>1 DEF NewKeysHaveOneHolder, Carries
<1>6. RowsOwnTheirFiles'
  BY <1>2 DEF RowsOwnTheirFiles
<1>7. CallsDeleteTheirOwn'
  <2> SUFFICES ASSUME NEW c \in Clients, NEW call, call = request[c]
               PROVE  /\ call.pc = "update" => Settled(call.old)' /\ OnlyOf(call.old, call.link)'
                      /\ call.pc = "unlink_old" =>
                           /\ Settled(call.old)'
                           /\ \A m \in LinkIds : Exists(m)' => links'[m].file # call.old
                      /\ call.pc = "purge_file" =>
                           Settled(call.old)' /\ OnlyOf(call.old, call.link)'
                      /\ call.pc \in {"purge_file", "purge_row"} => call.link \in doomed'
    BY <1>1 DEF CallsDeleteTheirOwn, Settled, OnlyOf, Exists, Carries
  <2>1. QED
    BY <1>1, <1>2 DEF CallsDeleteTheirOwn
<1>8. Dooms(gc)' /\ Dooms(other)' /\ \A k \in deletions' : Forfeit(k)'
  <2>1. ASSUME NEW v, Settled(v.key), OnlyOf(v.key, v.link), v.link \in doomed
        PROVE  Settled(v.key)' /\ OnlyOf(v.key, v.link)' /\ v.link \in doomed'
    BY <1>1, <1>2, <2>1
  <2>2. Dooms(gc) /\ Dooms(other)
    BY BothDoom
  <2>3. Dooms(gc)'
    BY <1>1, <2>1, <2>2 DEF Dooms, Victims
  <2>4. ASSUME NEW v \in Victims(other')
        PROVE  Settled(v.key) /\ OnlyOf(v.key, v.link) /\ v.link \in doomed
    <3>1. CASE v \in Victims(other)
      BY <2>2, <3>1 DEF Dooms
    <3>2. CASE /\ other.pc # "idle"
               /\ v.link \in Garbage(other.cutoff) /\ v.key = links[v.link].file
      <4>1. v.link \in LinkIds /\ Exists(v.link)
        BY <3>2 DEF Garbage
      <4>2. /\ links[v.link].expires \in Int /\ links[v.link].deleted \in Int
            /\ other.cutoff \in Int /\ now \in Int /\ other.cutoff <= now - Retention
        BY <2>2, <3>2, <4>1 DEF Dooms, TypeOK, ProgramTypeOK, GcRun, Time, Stamp, Row, Exists
      <4>3. Due(v.link)
        BY <3>2, <4>1, <4>2, BoundsAssumption DEF Due, Garbage, ExpiredRow, PastRetention
      <4>4. QED
        BY <3>2, <4>1, <4>3 DEF DueIsDoomed, RowsOwnTheirFiles
    <3>3. QED
      BY <3>1, <3>2 DEF BesideEffect
  <2>5. other'.pc # "idle" => other'.cutoff <= now - Retention
    <3>1. now - Retention \in Int /\ other'.cutoff \in Int
      BY BoundsAssumption DEF TypeOK, ProgramTypeOK, Time, BesideEffect, GcRun
    <3>2. QED
      BY <2>2, <3>1 DEF Dooms, BesideEffect
  <2>6. Dooms(other)'
    BY <1>1, <2>1, <2>4, <2>5 DEF Dooms, Victims
  <2>7. QED
    BY <1>1, <1>2, <2>3, <2>6
<1>9. CollectorDeletesDoomed' /\ Beside!CollectorDeletesDoomed'
  BY <1>8, BothDoomNext
<1>10. DueIsDoomed'
  BY <1>1 DEF History, Reasons, DueIsDoomed
<1>11. NewLinksAreNew'
  <2>1. \A l \in doomed' : l \in doomed \/ (l \in LinkIds /\ Exists(l)')
    <3>1. \A l \in Reasons' : l \in doomed \/ (l \in LinkIds /\ Exists(l)')
      BY <1>1 DEF Reasons, Due, CallsDeleteTheirOwn, Exists
    <3>2. QED
      BY <1>1, <3>1 DEF History
  <2>2. \A l \in LinkIds : (Exists(l)' \/ l \in doomed') => l < nextLink
    BY <1>2, <2>1 DEF NewLinksAreNew
  <2>3. \A c \in Clients : request[c].pc \in {"create", "create_cleanup"} =>
          request[c].link \notin doomed' /\ ~Exists(request[c].link)'
    BY <1>1, <1>2, <2>1 DEF NewLinksAreNew, TypeOK, ProgramTypeOK
  <2>4. QED
    BY <1>1, <2>2, <2>3 DEF NewLinksAreNew, Exists
<1>12. FileLostForAReason'
  BY <1>1, <1>2, <1>3 DEF FileLostForAReason, Forfeit, Exists, TypeOK, ProgramTypeOK
<1>13. other' \in GcRun
  BY DEF BesideEffect
<1>14. QED
  BY <1>3, <1>4, <1>5, <1>6, <1>7, <1>9, <1>10, <1>11, <1>12, <1>13

\* And so do the steps of everyone else, who leave the second run alone.
LEMMA OthersKeep ==
  ASSUME BothRunsDeleteDoomed, [Next]_vars, other' = other
  PROVE  BothRunsDeleteDoomed'
<1> USE DEF BothRunsDeleteDoomed
<1>1. IInv'
  BY StepInductive
<1>2. Dooms(other)'
  <2>1. Dooms(other) /\ TypeOK
    BY BothDoom DEF IInv
  <2>2. doomed \subseteq doomed' /\ now' >= now
    <3>1. History \/ UNCHANGED vars
      BY <2>1, UploadsShape
    <3>2. now' = now \/ now' = now + 1
      BY <2>1, CollectorShape, BoundsAssumption
    <3>3. QED
      BY <2>1, <3>1, <3>2 DEF History, vars, TypeOK, ProgramTypeOK, Time
  <2>3. other.cutoff \in Int /\ now \in Int /\ now' \in Int
    BY <1>1, <2>1 DEF IInv, TypeOK, ProgramTypeOK, Time, GcRun
  <2>4. \A v \in Victims(other) : Settled(v.key)' /\ OnlyOf(v.key, v.link)' /\ v.link \in doomed'
    <3> SUFFICES ASSUME NEW v \in Victims(other), NEW k, k = v.key, NEW l, l = v.link
                 PROVE  Settled(k)' /\ OnlyOf(k, l)' /\ l \in doomed'
      OBVIOUS
    <3>1. Settled(k) /\ OnlyOf(k, l) /\ l \in doomed /\ k \in Keys
      BY <2>1 DEF Dooms, Settled, TypeOK, ProgramTypeOK
    <3>2. QED
      BY <2>1, <2>2, <3>1, SettledStable, OnlyOfStable
  <2>5. QED
    BY <2>1, <2>2, <2>3, <2>4, BoundsAssumption DEF Dooms, Victims
<1>3. Beside!CollectorDeletesDoomed'
  BY <1>1, <1>2, BothDoomNext DEF IInv
<1>4. QED
  BY <1>1, <1>3

\* A step of the two runs and of everyone else.
LEMMA OverlapStep ==
  ASSUME BothRunsDeleteDoomed, [OverlapNext]_overlapVars
  PROVE  BothRunsDeleteDoomed'
<1>1. BesideStep \/ ([Next]_vars /\ other' = other)
  BY DEF OverlapNext, overlapVars, Next
<1>2. QED
  BY <1>1, BesideShape, BesideKeeps, OthersKeep DEF BothRunsDeleteDoomed, IInv

\* One run and an empty table to begin with.
LEMMA OverlapInitSafe == OverlapInit => BothRunsDeleteDoomed
<1> SUFFICES ASSUME OverlapInit PROVE BothRunsDeleteDoomed
  OBVIOUS
<1>1. IInv /\ other \in GcRun
  BY InitInductive, IdleType DEF OverlapInit
<1>2. Dooms(other)
  BY DEF OverlapInit, Dooms, Victims, GcIdle
<1>3. QED
  BY <1>1, <1>2, BothDoom DEF BothRunsDeleteDoomed, IInv

\* Two cleanup runs at the same time, each with its own offset into rows that the
\* other removes, delete nothing but doomed links, and keep all that one run keeps.
THEOREM TwoRunsAreSafe == OverlapSpec => []BothRunsDeleteDoomed
<1>1. OverlapInit => BothRunsDeleteDoomed
  BY OverlapInitSafe
<1>2. BothRunsDeleteDoomed /\ [OverlapNext]_overlapVars => BothRunsDeleteDoomed'
  BY OverlapStep
<1>3. QED
  BY <1>1, <1>2, PTL DEF OverlapSpec

\* No row of a link that nobody had a reason to remove is removed by either run, or
\* by a call.
THEOREM NoRunIsTooEager == OverlapSpec => NoRunRemovesALiveLink
<1>1. BothRunsDeleteDoomed /\ [OverlapNext]_overlapVars =>
        [\A l \in LinkIds : Exists(l) /\ links'[l] = NoRow => l \in doomed]_overlapVars
  <2> SUFFICES ASSUME BothRunsDeleteDoomed, OverlapNext, NEW l \in LinkIds,
                      Exists(l), links'[l] = NoRow
               PROVE  l \in doomed
    OBVIOUS
  <2>1. CASE BesideStep
    <3>1. BesideEffect
      BY <2>1, BesideShape DEF BothRunsDeleteDoomed, IInv
    <3>2. QED
      BY <3>1, BesideRemovesDoomed DEF Exists
  <2>2. CASE ~BesideStep
    BY <2>2, RowRemovedStep DEF OverlapNext, Next, BothRunsDeleteDoomed
  <2>3. QED
    BY <2>1, <2>2
<1>2. QED
  BY <1>1, TwoRunsAreSafe, PTL DEF OverlapSpec, NoRunRemovesALiveLink

-----------------------------------------------------------------------------
(* Rows and files while nothing has failed: what a step can do to them, and  *)
(* then that OverlapInv is preserved.                                        *)

\* The step is not one of the failures.
Calm == \A kind \in {"storage", "db", "crash"} : ~Spend(kind)

\* The file of the row of m comes from a call that was about to write it.
Written(m) ==
  \E c \in Clients :
    /\ request[c].pc \in {"create", "update"}
    /\ request[c].pc = "update" => Exists(m)
    /\ request[c].link = m
    /\ request[c].new # NoKey
    /\ request[c].new = links'[m].file

\* What a step does to the rows: a row keeps its file, or a call gives it one, or it is
\* removed by whoever has dealt with its file before.
RowsMove ==
  /\ \A m \in LinkIds : links'[m] # NoRow =>
       Written(m) \/ (Exists(m) /\ links'[m].file = links[m].file)
  /\ \A m \in LinkIds : Exists(m) /\ links'[m] = NoRow =>
       /\ m \in doomed
       /\ BeingRemoved(m) \/ \E v \in other.done : v.link = m
  /\ \A m \in doomed : ~Exists(m) => links'[m] = NoRow

\* A file comes with an upload, and goes at the hand of a call or of a run.
FilesMove ==
  /\ issued \subseteq issued'
  /\ \A k \in uploads' : k \in uploads \/ k \notin issued
  /\ \A k \in files' : k \in files \/ (k \in uploads' /\ k \notin issued)
  /\ \A k \in files : k \notin files' =>
       \/ \E c \in Clients :
            \/ request[c].pc = "unlink_old" /\ request[c].old = k
            \/ request[c].pc = "create_cleanup" /\ request[c].new = k
            \/ /\ request[c].pc = "purge_file" /\ request[c].old = k
               /\ request'[c].pc = "purge_row" /\ request'[c].link = request[c].link
       \/ \E v \in gc.batch : v.key = k /\ v \in gc'.done
       \/ \E v \in other.batch : v.key = k /\ v \in other'.done

\* A call begins: it takes the upload it brings, and reads the row it is about.
CallBegins(c) ==
  /\ request[c] = Idle
  /\ request'[c].new \in uploads \cup {NoKey} /\ uploads' = uploads \ {request'[c].new}
  /\ request'[c].new # NoKey => request'[c].pc \in {"create", "update"}
  /\ request'[c].pc \in {"create", "update", "trash", "restore", "purge_file"}
  /\ request'[c].pc \in {"update", "purge_file"} =>
       /\ request'[c].link \in LinkIds /\ Exists(request'[c].link)
       /\ request'[c].old = links[request'[c].link].file
  /\ links' = links

\* A call ends: its new file is in a row or gone, the row it was to delete is gone.
CallEnds(c) ==
  /\ request'[c] = Idle
  /\ request[c].pc = "create" =>
       /\ links'[request[c].link] # NoRow
       /\ links'[request[c].link].file = request[c].new
  /\ request[c].pc = "create_cleanup" => request[c].new \notin files'
  /\ request[c].pc = "purge_row" => links'[request[c].link] = NoRow

\* A call goes on: a purge has deleted the file and comes to the row.
CallGoesOn(c) ==
  /\ request'[c].link = request[c].link
  /\ request'[c].old = request[c].old
  /\ request'[c].new = request[c].new
  /\ \/ request[c].pc = "update" /\ request'[c].pc = "unlink_old"
     \/ /\ request[c].pc = "purge_file" /\ request'[c].pc = "purge_row"
        /\ request[c].old \notin files'

CallsMove ==
  \A c \in Clients :
    request'[c] = request[c] \/ CallBegins(c) \/ CallEnds(c) \/ CallGoesOn(c)

\* A run goes on: it takes up rows with the files they have, and forgets a row only
\* when the row is deleted.
RunMoves(run, next) ==
  /\ next.pc # "fallback"
  /\ next.pc # "unlink" => next.batch = {} /\ next.done = {}
  /\ \A v \in next.batch :
       v \in run.batch \/ (links' = links /\ Exists(v.link) /\ v.key = links[v.link].file)
  /\ \A v \in next.done : v \in run.done \/ (v \in run.batch /\ v.key \notin files')
  /\ \A v \in run.done : v \in next.done \/ links'[v.link] = NoRow

HistoryGrows ==
  /\ doomed \subseteq doomed'
  /\ replaced \subseteq replaced'
  /\ Swapping' \cup Dropped \subseteq replaced'

\* A step of anybody while nothing fails.
CalmStep ==
  /\ RowsMove /\ FilesMove /\ CallsMove /\ HistoryGrows
  /\ RunMoves(gc, gc') /\ RunMoves(other, other')
  /\ deletions' = {}

\* What the lemmas below start from.
InHand == BothRunsDeleteDoomed /\ FilesAndRowsAreInHand /\ AllInHand /\ NothingFailed

LEMMA BesideBeingRemoved ==
  /\ \A l : Beside!BeingRemoved(l) <=>
       \/ \E c \in Clients : request[c].pc = "purge_row" /\ request[c].link = l
       \/ \E v \in other.done : v.link = l
  /\ \A l : BeingRemoved(l) <=>
       \/ \E c \in Clients : request[c].pc = "purge_row" /\ request[c].link = l
       \/ \E v \in gc.done : v.link = l
  BY DEF Beside!BeingRemoved, BeingRemoved

\* A row that stays has the file it had, or one that was replaced.
LEMMA FileStays ==
  ASSUME InHand, CalmStep, NEW l \in LinkIds, Exists(l), links'[l] # NoRow
  PROVE  links'[l].file = links[l].file \/ links'[l].file \in replaced
<1>1. CASE Written(l)
  <2>1. PICK c \in Clients :
          /\ request[c].pc \in {"create", "update"}
          /\ request[c].link = l /\ request[c].new # NoKey
          /\ request[c].new = links'[l].file
    BY <1>1 DEF Written
  <2>2. request[c].pc = "update"
    BY <2>1 DEF InHand, BothRunsDeleteDoomed, IInv, NewLinksAreNew
  <2>3. QED
    BY <2>1, <2>2 DEF InHand, AllInHand, CallsAreInHand
<1>2. QED
  BY <1>1 DEF CalmStep, RowsMove

\* What a purge or a run knows of the row of a doomed link stays true.
LEMMA StillHasStable ==
  ASSUME InHand, CalmStep, NEW l \in doomed, NEW k, StillHas(l, k)
  PROVE  StillHas(l, k)'
<1>1. l \in LinkIds
  BY DEF InHand, BothRunsDeleteDoomed, IInv, TypeOK
<1>2. SUFFICES ASSUME links'[l] # NoRow
               PROVE  links'[l].file \in replaced' \cup {k}
  BY DEF StillHas, Exists
<1>3. Exists(l)
  BY <1>2 DEF CalmStep, RowsMove
<1>4. QED
  BY <1>1, <1>2, <1>3, FileStays DEF StillHas, CalmStep, HistoryGrows

LEMMA NothingLostStable ==
  ASSUME InHand, CalmStep, NEW l \in doomed, NothingLostWith(l)
  PROVE  NothingLostWith(l)'
<1>1. l \in LinkIds
  BY DEF InHand, BothRunsDeleteDoomed, IInv, TypeOK
<1>2. SUFFICES ASSUME links'[l] # NoRow, links'[l].file \in files'
               PROVE  links'[l].file \in replaced'
  BY DEF NothingLostWith, Exists
<1>3. Exists(l)
  BY <1>2 DEF CalmStep, RowsMove
<1>4. links[l].file \in issued
  BY <1>1, <1>3 DEF InHand, BothRunsDeleteDoomed, IInv, RowsOwnTheirFiles, Settled
<1>5. CASE links'[l].file = links[l].file
  <2>1. links[l].file \in files
    BY <1>2, <1>4, <1>5 DEF CalmStep, FilesMove
  <2>2. QED
    BY <1>3, <1>5, <2>1 DEF NothingLostWith, CalmStep, HistoryGrows
<1>6. QED
  BY <1>1, <1>2, <1>3, <1>5, FileStays DEF CalmStep, HistoryGrows

\* When the file that the row of a doomed link still has is gone, nothing is lost
\* with the row.
LEMMA GoneIsNotLost ==
  ASSUME InHand, CalmStep, NEW l \in doomed, NEW k, StillHas(l, k), k \notin files'
  PROVE  NothingLostWith(l)'
  BY StillHasStable DEF StillHas, NothingLostWith

LEMMA FilesHaveAPlaceStep ==
  ASSUME InHand, CalmStep
  PROVE  FilesHaveAPlace'
<1> USE DEF InHand, AllInHand
<1>1. SUFFICES ASSUME NEW k \in files', k \notin uploads', k \notin replaced'
               PROVE  \/ \E l \in LinkIds : links'[l] # NoRow /\ links'[l].file = k
                      \/ \E c \in Clients : Carries(c, k)'
  BY DEF FilesHaveAPlace, Exists
<1>2. k \in files /\ k \notin replaced
  BY <1>1 DEF CalmStep, FilesMove, HistoryGrows
<1>3. k # NoKey
  BY <1>2, SentinelAssumption DEF BothRunsDeleteDoomed, IInv, TypeOK, ProgramTypeOK
<1>4. CASE k \in uploads
  <2>1. PICK c \in Clients : request'[c].new = k
    BY <1>1, <1>4 DEF CalmStep, HistoryGrows, Dropped
  <2>2. request[c].new # k
    BY <1>3, <1>4 DEF CallsAreInHand
  <2>3. CallBegins(c)
    BY <1>3, <2>1, <2>2 DEF CalmStep, CallsMove, CallEnds, CallGoesOn, Idle
  <2>4. QED
    BY <1>3, <2>1, <2>3 DEF CallBegins, Carries
<1>5. ASSUME NEW l \in LinkIds, Exists(l), links[l].file = k
      PROVE  links'[l] # NoRow /\ links'[l].file = k
  <2>1. CASE links'[l] = NoRow
    <3>1. BeingRemoved(l) \/ \E v \in other.done : v.link = l
      BY <1>5, <2>1 DEF CalmStep, RowsMove
    <3>2. NothingLostWith(l)
      BY <3>1, BesideBeingRemoved DEF CallsAreInHand, RunIsInHand
    <3>3. QED
      BY <1>2, <1>5, <3>2 DEF NothingLostWith
  <2>2. CASE links'[l] # NoRow /\ Written(l)
    <3>1. PICK c \in Clients :
            /\ request[c].pc \in {"create", "update"}
            /\ request[c].link = l /\ request[c].new # NoKey
      BY <2>2 DEF Written
    <3>2. request[c].pc = "update"
      BY <1>5, <3>1 DEF BothRunsDeleteDoomed, IInv, NewLinksAreNew
    <3>3. QED
      BY <1>2, <1>5, <3>1, <3>2 DEF CallsAreInHand
  <2>3. QED
    BY <1>5, <2>1, <2>2 DEF CalmStep, RowsMove
<1>6. ASSUME NEW c \in Clients, Carries(c, k)
      PROVE  \/ Carries(c, k)'
             \/ \E l \in LinkIds : links'[l] # NoRow /\ links'[l].file = k
  <2>1. request[c].new = k /\ request[c].pc \in {"create", "create_cleanup", "update"}
    BY <1>6 DEF Carries
  <2>2. request[c].pc # "update"
    BY <1>2, <1>3, <2>1 DEF CallsAreInHand
  <2>3. CASE request'[c] = request[c]
    BY <1>6, <2>3 DEF Carries
  <2>4. CASE CallEnds(c)
    <3>1. request[c].link \in LinkIds
      BY <2>1 DEF BothRunsDeleteDoomed, IInv, TypeOK, ProgramTypeOK
    <3>2. QED
      BY <1>1, <2>1, <2>2, <2>4, <3>1 DEF CallEnds
  <2>5. CASE CallBegins(c)
    BY <2>1, <2>5 DEF CallBegins, Idle
  <2>6. QED
    BY <2>1, <2>2, <2>3, <2>4, <2>5 DEF CalmStep, CallsMove, CallGoesOn
<1>7. QED
  BY <1>1, <1>2, <1>4, <1>5, <1>6 DEF FilesHaveAPlace

LEMMA CallsAreInHandStep ==
  ASSUME InHand, CalmStep
  PROVE  CallsAreInHand'
<1> USE DEF InHand, AllInHand
<1>1. SUFFICES ASSUME NEW c \in Clients
               PROVE  LET call == request'[c]
                      IN  /\ call.new \in (issued' \ uploads') \cup {NoKey}
                          /\ call.pc = "update" =>
                               /\ links'[call.link] # NoRow \/ call.link \in doomed'
                               /\ call.new # NoKey =>
                                    /\ call.new \in replaced' /\ call.old \in replaced'
                                    /\ links'[call.link] # NoRow => links'[call.link].file \in replaced'
                          /\ call.pc = "purge_file" /\ links'[call.link] # NoRow =>
                               links'[call.link].file \in replaced' \cup {call.old}
                          /\ /\ call.pc = "purge_row" /\ links'[call.link] # NoRow
                             /\ links'[call.link].file \in files'
                             => links'[call.link].file \in replaced'
  BY DEF CallsAreInHand, Exists, StillHas, NothingLostWith
<1>2. /\ request[c].new \in (issued \ uploads) \cup {NoKey}
      /\ request[c].pc = "update" =>
           /\ Exists(request[c].link) \/ request[c].link \in doomed
           /\ request[c].new # NoKey =>
                /\ request[c].new \in replaced /\ request[c].old \in replaced
                /\ Exists(request[c].link) => links[request[c].link].file \in replaced
      /\ request[c].pc = "purge_file" => StillHas(request[c].link, request[c].old)
      /\ request[c].pc = "purge_row" => NothingLostWith(request[c].link)
  BY DEF CallsAreInHand
<1>3. /\ request[c].pc # "idle" => request[c].link \in LinkIds
      /\ request[c].pc \in {"purge_file", "purge_row"} => request[c].link \in doomed
  BY DEF BothRunsDeleteDoomed, IInv, TypeOK, ProgramTypeOK, CallsDeleteTheirOwn
<1>4. (issued \ uploads) \subseteq issued' \ uploads' /\ doomed \subseteq doomed'
      /\ replaced \subseteq replaced' /\ Swapping' \subseteq replaced'
  BY DEF CalmStep, FilesMove, HistoryGrows
<1>5. CASE request'[c] = request[c]
  <2>1. CASE request[c].pc = "update"
    <3> DEFINE l == request[c].link
    <3>1. l \in LinkIds
      BY <1>3, <2>1
    <3>2. links'[l] # NoRow \/ l \in doomed'
      BY <1>2, <1>4, <2>1, <3>1 DEF CalmStep, RowsMove
    <3>3. CASE request[c].new # NoKey /\ links'[l] # NoRow
      <4>1. Exists(l)
        BY <1>2, <2>1, <3>3 DEF CalmStep, RowsMove
      <4>2. QED
        BY <1>2, <1>4, <1>5, <2>1, <3>1, <3>2, <3>3, <4>1, FileStays
    <3>4. QED
      BY <1>2, <1>4, <1>5, <2>1, <3>2, <3>3
  <2>2. CASE request[c].pc \in {"purge_file", "purge_row"}
    <3>1. PICK l \in doomed : l = request[c].link
      BY <1>3, <2>2
    <3>2. PICK k : k = request[c].old
      OBVIOUS
    <3>3. /\ request[c].pc = "purge_file" => StillHas(l, k)'
          /\ request[c].pc = "purge_row" => NothingLostWith(l)'
      BY <1>2, <3>1, <3>2, StillHasStable, NothingLostStable
    <3>4. QED
      BY <1>2, <1>4, <1>5, <2>2, <3>1, <3>2, <3>3 DEF StillHas, NothingLostWith, Exists
  <2>3. QED
    BY <1>2, <1>4, <1>5, <2>1, <2>2
<1>6. CASE CallBegins(c)
  <2>1. request'[c].new \in (issued' \ uploads') \cup {NoKey}
    BY <1>4, <1>6 DEF CallBegins, BothRunsDeleteDoomed, IInv, TypeOK, ProgramTypeOK, CalmStep, FilesMove
  <2>2. CASE request'[c].pc = "update"
    <3>1. /\ links'[request'[c].link] # NoRow
          /\ links'[request'[c].link].file = request'[c].old
      BY <1>6, <2>2 DEF CallBegins, Exists
    <3>2. request'[c].new # NoKey => {request'[c].new, request'[c].old} \subseteq Swapping'
      BY <2>2 DEF Swapping
    <3>3. QED
      BY <1>4, <2>1, <2>2, <3>1, <3>2
  <2>3. CASE request'[c].pc = "purge_file"
    <3>1. links'[request'[c].link].file = request'[c].old
      BY <1>6, <2>3 DEF CallBegins
    <3>2. QED
      BY <2>1, <2>3, <3>1
  <2>4. QED
    BY <1>6, <2>1, <2>2, <2>3 DEF CallBegins
<1>7. CASE CallEnds(c)
  BY <1>7 DEF CallEnds, Idle
<1>8. CASE CallGoesOn(c)
  <2>1. CASE request[c].pc = "purge_file" /\ request'[c].pc = "purge_row"
             /\ request[c].old \notin files'
    <3>1. PICK l \in doomed : l = request[c].link
      BY <1>3, <2>1
    <3>2. NothingLostWith(l)'
      BY <1>2, <2>1, <3>1, GoneIsNotLost
    <3>3. QED
      BY <1>2, <1>4, <1>8, <2>1, <3>1, <3>2 DEF CallGoesOn, NothingLostWith, Exists
  <2>2. QED
    BY <1>2, <1>4, <1>8, <2>1 DEF CallGoesOn
<1>9. QED
  BY <1>5, <1>6, <1>7, <1>8 DEF CalmStep, CallsMove

\* What a run holds of doomed links it goes on to hold, and it lets nothing go.
LEMMA RunIsInHandStep ==
  ASSUME InHand, CalmStep, NEW run, NEW next, RunMoves(run, next), RunIsInHand(run),
         \A v \in run.batch \cup run.done : v.link \in doomed
  PROVE  /\ next.pc # "fallback"
         /\ next.pc # "unlink" => next.batch = {} /\ next.done = {}
         /\ \A v \in next.batch : StillHas(v.link, v.key)'
         /\ \A v \in next.done : NothingLostWith(v.link)'
<1>1. ASSUME NEW v \in run.batch, NEW l, l = v.link, NEW k, k = v.key
      PROVE  StillHas(l, k)' /\ (k \notin files' => NothingLostWith(l)')
  BY <1>1, StillHasStable, GoneIsNotLost DEF RunIsInHand
<1>2. ASSUME NEW v \in run.done, NEW l, l = v.link
      PROVE  NothingLostWith(l)'
  BY <1>2, NothingLostStable DEF RunIsInHand
<1>3. ASSUME NEW v \in next.batch
      PROVE  StillHas(v.link, v.key)'
  BY <1>1 DEF RunMoves, StillHas, Exists
<1>4. ASSUME NEW v \in next.done
      PROVE  NothingLostWith(v.link)'
  BY <1>1, <1>2 DEF RunMoves, NothingLostWith, Exists
<1>5. QED
  BY <1>3, <1>4 DEF RunMoves

\* A row whose file a step takes, or has taken before, is in the hands of whoever is
\* to delete the row.
LEMMA RowsAreInHandStep ==
  ASSUME InHand, CalmStep, NEW l \in LinkIds, links'[l] # NoRow, links'[l].file \notin files'
  PROVE  \/ \E c \in Clients : request'[c].pc = "purge_row" /\ request'[c].link = l
         \/ \E v \in gc'.done \cup other'.done : v.link = l
<1> USE DEF InHand, AllInHand
<1>1. CASE Written(l)
  <2>1. PICK c \in Clients : /\ request[c].pc \in {"create", "update"}
                             /\ request[c].new # NoKey
                             /\ request[c].new = links'[l].file
    BY <1>1 DEF Written
  <2> DEFINE k == request[c].new
  <2>2. k \in files /\ Carries(c, k)
    BY <2>1 DEF BothRunsDeleteDoomed, IInv, UploadsComplete, Carries
  <2>3. ~Settled(k)
    BY <2>2 DEF Settled
  <2>4. \A d \in Clients : Carries(d, k) => d = c
    BY <2>2 DEF BothRunsDeleteDoomed, IInv, NewKeysHaveOneHolder, TypeOK, ProgramTypeOK
  <2>5. \A d \in Clients : request[d].pc \in {"unlink_old", "purge_file"} => request[d].old # k
    BY <2>3 DEF BothRunsDeleteDoomed, IInv, CallsDeleteTheirOwn
  <2>6. \A d \in Clients : request[d].pc = "create_cleanup" => request[d].new # k
    BY <2>1, <2>4 DEF Carries
  <2>7. \A v \in gc.batch \cup other.batch : v.key # k
    BY <2>3, BothDoom DEF BothRunsDeleteDoomed, IInv, Dooms, Victims
  <2>8. QED
    BY <1>1, <2>1, <2>2, <2>5, <2>6, <2>7 DEF CalmStep, FilesMove
<1>2. CASE Exists(l) /\ links'[l].file = links[l].file
  <2> DEFINE k == links[l].file
  <2>1. Settled(k) /\ OnlyOf(k, l)
    BY <1>2 DEF BothRunsDeleteDoomed, IInv, RowsOwnTheirFiles
  <2>2. CASE k \notin files
    <3>1. BeingRemoved(l) \/ Beside!BeingRemoved(l)
      BY <1>2, <2>2 DEF FilesAndRowsAreInHand
    <3>2. ASSUME NEW c \in Clients, request[c].pc = "purge_row", request[c].link = l
          PROVE  request'[c] = request[c]
      BY <3>2 DEF CalmStep, CallsMove, CallBegins, CallEnds, CallGoesOn, Idle
    <3>3. \A v \in gc.done : v.link = l => v \in gc'.done
      BY DEF CalmStep, RunMoves
    <3>4. \A v \in other.done : v.link = l => v \in other'.done
      BY DEF CalmStep, RunMoves
    <3>5. QED
      BY <3>1, <3>2, <3>3, <3>4, BesideBeingRemoved
  <2>3. CASE k \in files
    <3>1. \A c \in Clients :
            /\ request[c].pc = "unlink_old" => request[c].old # k
            /\ request[c].pc = "create_cleanup" => request[c].new # k
            /\ request[c].pc = "purge_file" /\ request[c].old = k => request[c].link = l
      BY <1>2, <2>1 DEF BothRunsDeleteDoomed, IInv, CallsDeleteTheirOwn, OnlyOf, Settled, Carries
    <3>2. \A v \in gc.batch \cup other.batch : v.key = k => v.link = l
      BY <1>2, BothDoom DEF BothRunsDeleteDoomed, IInv, Dooms, Victims, OnlyOf
    <3>3. QED
      BY <1>2, <2>3, <3>1, <3>2 DEF CalmStep, FilesMove
  <2>4. QED
    BY <2>2, <2>3
<1>3. QED
  BY <1>1, <1>2 DEF CalmStep, RowsMove

\* Whoever can still reach a file, or a row without one, goes on to.
LEMMA InHandStep ==
  ASSUME InHand, CalmStep
  PROVE  AllInHand' /\ FilesAndRowsAreInHand'
<1>1. /\ \A v \in gc.batch \cup gc.done : v.link \in doomed
      /\ \A v \in other.batch \cup other.done : v.link \in doomed
  BY BothDoom DEF InHand, BothRunsDeleteDoomed, IInv, Dooms, Victims
<1>2. RunIsInHand(gc)' /\ RunIsInHand(other)'
  <2>1. RunIsInHand(gc) /\ RunIsInHand(other) /\ RunMoves(gc, gc') /\ RunMoves(other, other')
    BY DEF InHand, AllInHand, CalmStep
  <2>2. RunIsInHand(gc)'
    BY <1>1, <2>1, RunIsInHandStep DEF RunIsInHand
  <2>3. RunIsInHand(other)'
    BY <1>1, <2>1, RunIsInHandStep DEF RunIsInHand
  <2>4. QED
    BY <2>2, <2>3
<1>3. FilesHaveAPlace' /\ CallsAreInHand' /\ deletions' = {}
  BY FilesHaveAPlaceStep, CallsAreInHandStep DEF CalmStep
<1>4. \A l \in LinkIds : links'[l] # NoRow /\ links'[l].file \notin files' =>
        BeingRemoved(l)' \/ Beside!BeingRemoved(l)'
  BY RowsAreInHandStep DEF BeingRemoved, Beside!BeingRemoved
<1>5. \A k \in files' : Reachable(k)' \/ k \in replaced'
  BY <1>3 DEF FilesHaveAPlace, Reachable, Carries, Exists
<1>6. FilesAndRowsAreInHand'
  BY <1>4, <1>5 DEF FilesAndRowsAreInHand, Exists
<1>7. QED
  BY <1>2, <1>3, <1>6 DEF AllInHand

\* While nothing fails a file that is deleted is gone.
LEMMA CalmDelete ==
  ASSUME Calm, NEW k, DeleteFile(k)
  PROVE  files' = files \ {k} /\ UNCHANGED faults
  BY DEF Calm, DeleteFile

\* What the first step of a call takes and reads.
LEMMA CallBegun ==
  ASSUME TypeOK, NEW c \in Clients, ClientCall(c)
  PROVE  CallBegins(c)
<1>1. request'[c].new # NoKey => request'[c].pc \in {"create", "update"}
  <2>1. ASSUME NEW l \in LinkIds, TrashLink(c, l) \/ RestoreLink(c, l) \/ PurgeLink(c, l)
        PROVE  request'[c].new = NoKey
    BY <2>1 DEF TrashLink, RestoreLink, PurgeLink, Begin, OnLink, Idle, TypeOK, ProgramTypeOK
  <2>2. ASSUME NEW k \in Keys, NEW e \in Expiries, CreateLink(c, k, e)
        PROVE  request'[c].pc = "create"
    BY <2>2 DEF CreateLink, Begin, TypeOK, ProgramTypeOK
  <2>3. ASSUME NEW l \in LinkIds, NEW k \in Keys \cup {NoKey}, NEW e \in Expiries \cup {Keep},
               UpdateLink(c, l, k, e)
        PROVE  request'[c].pc = "update"
    BY <2>3 DEF UpdateLink, Begin, TypeOK, ProgramTypeOK
  <2>4. QED
    BY <2>1, <2>2, <2>3 DEF ClientCall
<1>2. QED
  BY <1>1, ClientCallShape DEF CallBegins

\* What a later step of a call leaves done.
LEMMA CallMoved ==
  ASSUME TypeOK, Calm, NEW c \in Clients, ClientStep(c)
  PROVE  CallEnds(c) \/ CallGoesOn(c)
<1> USE DEF TypeOK, ProgramTypeOK, Request, Finish, Goto
<1>1. CASE InsertLink(c)
  <2>1. /\ request'[c] = Idle /\ request[c].link \in LinkIds
        /\ links'[request[c].link] =
             [file |-> request[c].new, expires |-> request[c].exp, deleted |-> 0]
    BY <1>1 DEF InsertLink
  <2>2. links'[request[c].link] \in Row
    <3>1. request[c].new \in Keys /\ request[c].exp \in Stamp /\ 0 \in Stamp
      BY <1>1, BoundsAssumption DEF InsertLink, Stamp
    <3>2. QED
      BY <2>1, <3>1 DEF Row
  <2>3. links'[request[c].link] # NoRow /\ links'[request[c].link].file = request[c].new
    BY <2>1, <2>2, SentinelAssumption
  <2>4. QED
    BY <1>1, <2>1, <2>3 DEF CallEnds, InsertLink
<1>2. CASE CleanupUpload(c)
  BY <1>2, CalmDelete DEF CleanupUpload, CallEnds
<1>3. CASE WriteUpdate(c)
  BY <1>3 DEF WriteUpdate, CallEnds, CallGoesOn
<1>4. CASE UnlinkOld(c) \/ WriteTrash(c) \/ WriteRestore(c)
  BY <1>4 DEF UnlinkOld, WriteTrash, WriteRestore, CallEnds
<1>5. CASE PurgeFile(c)
  BY <1>5, CalmDelete DEF PurgeFile, CallGoesOn
<1>6. CASE PurgeRow(c)
  BY <1>6 DEF PurgeRow, CallEnds
<1>7. ~InsertFails(c) /\ ~TransactionFails(c)
  BY DEF Calm, InsertFails, TransactionFails
<1>8. QED
  BY <1>1, <1>2, <1>3, <1>4, <1>5, <1>6, <1>7 DEF ClientStep

\* What a step of a run leaves done, while nothing fails.
LEMMA RunMoved ==
  ASSUME TypeOK, Calm, RunIsInHand(gc), GcStep
  PROVE  /\ RunMoves(gc, gc')
         /\ \A k \in files : k \notin files' => \E v \in gc.batch : v.key = k /\ v \in gc'.done
         /\ files' \subseteq files /\ deletions' = deletions
<1> USE DEF TypeOK, ProgramTypeOK, RunIsInHand
<1>1. CASE GcStart
  BY <1>1 DEF GcStart, GcIdle, RunMoves
<1>2. CASE GcSelect
  <2>1. PICK batch \in {{}, FindGarbage(gc.cutoff, gc.offset)} :
          gc' = IF batch = {} THEN GcIdle
                ELSE [gc EXCEPT !.pc = "unlink", !.batch = batch]
    BY <1>2 DEF GcSelect
  <2>2. \A v \in batch : Exists(v.link) /\ v.key = links[v.link].file
    <3>1. SUFFICES ASSUME NEW v \in FindGarbage(gc.cutoff, gc.offset)
                   PROVE  Exists(v.link) /\ v.key = links[v.link].file
      BY <2>1
    <3>2. v = [link |-> v.link, key |-> links[v.link].file] /\ v.link \in Garbage(gc.cutoff)
      BY FindGarbageVictims
    <3>3. v.key = links[v.link].file
      BY <3>2
    <3>4. QED
      BY <3>2, <3>3 DEF Garbage
  <2>3. UNCHANGED <<links, files, deletions>> /\ gc.batch = {} /\ gc.done = {}
    BY <1>2 DEF GcSelect
  <2>4. CASE batch = {}
    BY <2>1, <2>3, <2>4 DEF GcIdle, RunMoves
  <2>5. CASE batch # {}
    <3>1. gc'.pc = "unlink" /\ gc'.batch = batch /\ gc'.done = gc.done
      BY <2>1, <2>5 DEF GcRun
    <3>2. QED
      BY <2>2, <2>3, <3>1 DEF RunMoves
  <2>6. QED
    BY <2>4, <2>5
<1>3. CASE GcDeleteRows
  <2>1. \A v \in gc.done : links'[v.link] = NoRow
    <3>1. SUFFICES ASSUME NEW v \in gc.batch
                   PROVE  links'[v.link] = NoRow
      BY <1>3 DEF GcDeleteRows
    <3>2. v.link \in LinkIds
      BY DEF GcRun, Victim
    <3>3. QED
      BY <1>3, <3>2 DEF GcDeleteRows
  <2>2. GcNextBatch.pc \in {"idle", "select"} /\ GcNextBatch.batch = {} /\ GcNextBatch.done = {}
    BY DEF GcNextBatch, GcIdle, GcRun
  <2>3. QED
    BY <1>3, <2>1, <2>2 DEF GcDeleteRows, RunMoves
<1>4. ASSUME NEW v \in Victim, GcUnlink(v)
      PROVE  /\ RunMoves(gc, gc')
             /\ \A k \in files : k \notin files' => \E u \in gc.batch : u.key = k /\ u \in gc'.done
             /\ files' \subseteq files /\ deletions' = deletions
  <2>1. /\ gc'.pc = "unlink" /\ gc'.batch = gc.batch /\ gc'.done = gc.done \cup {v}
        /\ v \in gc.batch /\ UNCHANGED deletions
    BY <1>4 DEF GcUnlink, GcRun
  <2>2. files' = files \ {v.key}
    BY <1>4, CalmDelete DEF GcUnlink
  <2>3. QED
    BY <2>1, <2>2 DEF RunMoves
<1>5. /\ ~GcQueryFails /\ ~GcDeleteRowsFails /\ ~GcQueueRetries
      /\ \A v \in Victim : ~GcDeleteRow(v) /\ ~GcDeleteRowFails(v)
  BY DEF Calm, GcQueryFails, GcDeleteRowsFails, GcQueueRetries, GcDeleteRow, GcDeleteRowFails
<1>6. QED
  BY <1>1, <1>2, <1>3, <1>4, <1>5 DEF GcStep

\* The same of the run that is beside.
LEMMA BesideMoved ==
  ASSUME TypeOK, other \in GcRun, Calm, RunIsInHand(other), BesideStep
  PROVE  /\ RunMoves(other, other')
         /\ \A k \in files : k \notin files' => \E v \in other.batch : v.key = k /\ v \in other'.done
         /\ \A m \in LinkIds : Exists(m) /\ links'[m] = NoRow => \E v \in other.done : v.link = m
         /\ deletions' = deletions
<1> USE SameHelpers, SameSelection DEF TypeOK, ProgramTypeOK, RunIsInHand
<1>1. CASE Beside!GcStart
  BY <1>1 DEF Beside!GcStart, GcIdle, RunMoves, Exists
<1>2. CASE Beside!GcSelect
  <2>1. PICK batch \in {{}, FindGarbage(other.cutoff, other.offset)} :
          other' = IF batch = {} THEN GcIdle
                   ELSE [other EXCEPT !.pc = "unlink", !.batch = batch]
    BY <1>2 DEF Beside!GcSelect
  <2>2. \A v \in batch : Exists(v.link) /\ v.key = links[v.link].file
    <3>1. SUFFICES ASSUME NEW v \in FindGarbage(other.cutoff, other.offset)
                   PROVE  Exists(v.link) /\ v.key = links[v.link].file
      BY <2>1
    <3>2. v = [link |-> v.link, key |-> links[v.link].file] /\ v.link \in Garbage(other.cutoff)
      BY FindGarbageVictims
    <3>3. v.key = links[v.link].file
      BY <3>2
    <3>4. QED
      BY <3>2, <3>3 DEF Garbage
  <2>3. UNCHANGED <<links, files, deletions>> /\ other.batch = {} /\ other.done = {}
    BY <1>2 DEF Beside!GcSelect
  <2>4. CASE batch = {}
    BY <2>1, <2>3, <2>4 DEF GcIdle, RunMoves, Exists
  <2>5. CASE batch # {}
    <3>1. other'.pc = "unlink" /\ other'.batch = batch /\ other'.done = other.done
      BY <2>1, <2>5 DEF GcRun
    <3>2. QED
      BY <2>2, <2>3, <3>1 DEF RunMoves, Exists
  <2>6. QED
    BY <2>4, <2>5
<1>3. CASE Beside!GcDeleteRows
  <2>1. /\ links' = [l \in LinkIds |-> IF l \in {v.link : v \in other.batch}
                                       THEN NoRow ELSE links[l]]
        /\ UNCHANGED <<files, deletions>>
        /\ other.done = other.batch /\ other' = Beside!GcNextBatch
    BY <1>3 DEF Beside!GcDeleteRows
  <2>2. \A v \in other.done : links'[v.link] = NoRow
    <3>1. SUFFICES ASSUME NEW v \in other.batch
                   PROVE  links'[v.link] = NoRow
      BY <2>1
    <3>2. v.link \in LinkIds
      BY DEF GcRun, Victim
    <3>3. QED
      BY <2>1, <3>2
  <2>3. other'.pc \in {"idle", "select"} /\ other'.batch = {} /\ other'.done = {}
    BY <2>1 DEF Beside!GcNextBatch, GcIdle, GcRun
  <2>4. \A m \in LinkIds : Exists(m) /\ links'[m] = NoRow => \E v \in other.done : v.link = m
    BY <2>1 DEF Exists
  <2>5. QED
    BY <2>1, <2>2, <2>3, <2>4 DEF RunMoves
<1>4. ASSUME NEW v \in Victim, Beside!GcUnlink(v)
      PROVE  /\ RunMoves(other, other')
             /\ \A k \in files : k \notin files' => \E u \in other.batch : u.key = k /\ u \in other'.done
             /\ links' = links /\ deletions' = deletions
  <2>1. /\ other'.pc = "unlink" /\ other'.batch = other.batch /\ other'.done = other.done \cup {v}
        /\ v \in other.batch /\ UNCHANGED <<links, deletions>> /\ DeleteFile(v.key)
    BY <1>4 DEF Beside!GcUnlink, GcRun
  <2>2. files' = files \ {v.key}
    BY <2>1, CalmDelete
  <2>3. QED
    BY <2>1, <2>2 DEF RunMoves
<1>5. /\ ~Beside!GcQueryFails /\ ~Beside!GcDeleteRowsFails /\ ~Beside!GcQueueRetries
      /\ \A v \in Victim : ~Beside!GcDeleteRow(v) /\ ~Beside!GcDeleteRowFails(v)
  BY DEF Calm, Beside!GcQueryFails, Beside!GcDeleteRowsFails, Beside!GcQueueRetries,
         Beside!GcDeleteRow, Beside!GcDeleteRowFails
<1>6. QED
  BY <1>1, <1>2, <1>3, <1>4, <1>5 DEF BesideStep, StartBeside, Beside!GcStep, Exists

\* Whose hand a file goes by, and where it comes from.
LEMMA FilesMoved ==
  ASSUME InHand, Calm, [Next]_vars
  PROVE  /\ \A k \in files' : k \in files \/ (k \in uploads' /\ k \notin issued)
         /\ \A k \in files : k \notin files' =>
              \/ \E c \in Clients :
                   \/ request[c].pc = "unlink_old" /\ request[c].old = k
                   \/ request[c].pc = "create_cleanup" /\ request[c].new = k
                   \/ /\ request[c].pc = "purge_file" /\ request[c].old = k
                      /\ request'[c].pc = "purge_row" /\ request'[c].link = request[c].link
              \/ \E v \in gc.batch : v.key = k /\ v \in gc'.done
<1> USE DEF InHand, AllInHand, BothRunsDeleteDoomed, IInv
<1>1. CASE \E c \in Clients : CleanupUpload(c) \/ UnlinkOld(c) \/ PurgeFile(c)
  <2>1. PICK c \in Clients : CleanupUpload(c) \/ UnlinkOld(c) \/ PurgeFile(c)
    BY <1>1
  <2>2. CASE CleanupUpload(c)
    BY <2>2, CalmDelete DEF CleanupUpload
  <2>3. CASE UnlinkOld(c)
    BY <2>3, CalmDelete DEF UnlinkOld
  <2>4. CASE PurgeFile(c)
    <3>1. request'[c].pc = "purge_row" /\ request'[c].link = request[c].link
      BY <2>4 DEF PurgeFile, Goto, TypeOK, ProgramTypeOK, Request
    <3>2. QED
      BY <2>4, <3>1, CalmDelete DEF PurgeFile
  <2>5. QED
    BY <2>1, <2>2, <2>3, <2>4
<1>2. CASE GcStep
  BY <1>2, RunMoved
<1>3. CASE \E k \in Keys : Upload(k)
  BY <1>3 DEF Upload
<1>4. CASE \E k \in Keys : FileDeletionJob(k)
  BY <1>4 DEF FileDeletionJob
<1>5. CASE files' = files
  BY <1>5
<1>6. QED
  BY <1>1, <1>2, <1>3, <1>4, <1>5
  DEF vars, Next, ClientCall, ClientStep, UpdateNotFound, CreateLink, UpdateLink, TrashLink,
      RestoreLink, PurgeLink, InsertLink, InsertFails, WriteUpdate, WriteTrash, WriteRestore,
      PurgeRow, TransactionFails, Tick, Crash

\* A step of a call, of the first run or of the environment.
LEMMA NextIsCalm ==
  ASSUME InHand, Calm, [Next]_vars, UNCHANGED other
  PROVE  CalmStep
<1>a. IInv /\ TypeOK
  BY DEF InHand, BothRunsDeleteDoomed, IInv
<1>b. RunIsInHand(gc) /\ RunIsInHand(other) /\ deletions = {}
  BY DEF InHand, AllInHand
<1>1. RowsMove
  <2>1. \A m \in LinkIds : links'[m] # NoRow =>
          Written(m) \/ (Exists(m) /\ links'[m].file = links[m].file)
    BY <1>a, RowsShape DEF Written
  <2>2. \A m \in LinkIds : Exists(m) /\ links'[m] = NoRow => m \in doomed /\ BeingRemoved(m)
    BY <1>a, RowRemovedStep, RemovedByItsHolder
  <2>3. \A m \in doomed : ~Exists(m) => links'[m] = NoRow
    BY <1>a, ResurrectionStep DEF Exists
  <2>4. QED
    BY <2>1, <2>2, <2>3 DEF RowsMove
<1>2. FilesMove
  <2>1. issued \subseteq issued' /\ \A k \in uploads' : k \in uploads \/ k \notin issued
    BY <1>a, UploadsShape
  <2>2. QED
    BY <2>1, FilesMoved DEF FilesMove
<1>3. ASSUME NEW c \in Clients
      PROVE  request'[c] = request[c] \/ CallBegins(c) \/ CallEnds(c) \/ CallGoesOn(c)
  <2>1. CASE ClientCall(c)
    BY <1>a, <2>1, CallBegun
  <2>2. CASE ClientStep(c)
    BY <1>a, <2>2, CallMoved
  <2>3. ASSUME NEW d \in Clients, ClientCall(d) \/ ClientStep(d), d # c
        PROVE  request'[c] = request[c]
    BY <1>a, <2>3, ClientCallShape, ClientStepShape
  <2>4. CASE GcStep
    BY <1>a, <2>4, GcShape
  <2>5. QED
    BY <2>1, <2>2, <2>3, <2>4 DEF Next, Upload, FileDeletionJob, UpdateNotFound, Tick, Crash, Calm, vars
<1>4. RunMoves(gc, gc') /\ deletions' = {}
  <2>1. CASE GcStep
    BY <1>a, <1>b, <2>1, RunMoved
  <2>2. CASE \E c \in Clients : ClientCall(c) \/ ClientStep(c)
    <3>1. UNCHANGED <<gc, deletions>>
      BY <1>a, <2>2, ClientCallShape, ClientStepShape
    <3>2. QED
      BY <1>b, <3>1 DEF RunMoves, RunIsInHand
  <2>3. CASE ~GcStep /\ \A c \in Clients : ~ClientCall(c) /\ ~ClientStep(c)
    <3>1. UNCHANGED <<gc, deletions>>
      BY <1>b, <2>3 DEF Next, Upload, FileDeletionJob, UpdateNotFound, Tick, Crash, Calm, vars
    <3>2. QED
      BY <1>b, <3>1 DEF RunMoves, RunIsInHand
  <2>4. QED
    BY <2>1, <2>2, <2>3
<1>5. RunMoves(other, other')
  BY <1>b DEF RunMoves, RunIsInHand
<1>6. HistoryGrows
  <2>1. CASE History
    BY <2>1 DEF History, HistoryGrows
  <2>2. CASE UNCHANGED vars
    <3>1. Swapping' = Swapping /\ Dropped = {}
      BY <2>2 DEF vars, Swapping, Dropped
    <3>2. Swapping \subseteq replaced
      BY DEF InHand, AllInHand, CallsAreInHand, Swapping
    <3>3. QED
      BY <2>2, <3>1, <3>2 DEF vars, HistoryGrows
  <2>3. QED
    BY <1>a, <2>1, <2>2, UploadsShape
<1>7. QED
  BY <1>1, <1>2, <1>3, <1>4, <1>5, <1>6 DEF CalmStep, CallsMove

\* A step of the second run.
LEMMA BesideIsCalm ==
  ASSUME InHand, Calm, BesideStep
  PROVE  CalmStep
<1>a. TypeOK /\ other \in GcRun /\ BothRunsDeleteDoomed
  BY DEF InHand, BothRunsDeleteDoomed, IInv
<1>b. RunIsInHand(gc) /\ RunIsInHand(other) /\ deletions = {}
  BY DEF InHand, AllInHand
<1>c. BesideEffect
  BY <1>a, BesideShape
<1>1. RowsMove
  <2>1. \A m \in LinkIds : links'[m] = links[m] \/ (links'[m] = NoRow /\ m \in doomed)
    BY <1>a, <1>c, BesideRemovesDoomed
  <2>2. \A m \in LinkIds : Exists(m) /\ links'[m] = NoRow => \E v \in other.done : v.link = m
    BY <1>a, <1>b, BesideMoved
  <2>3. doomed \subseteq LinkIds
    BY <1>a DEF TypeOK
  <2>4. QED
    BY <2>1, <2>2, <2>3 DEF RowsMove, Exists
<1>2. FilesMove
  BY <1>a, <1>b, <1>c, BesideMoved DEF FilesMove, BesideEffect
<1>3. CallsMove
  BY <1>c DEF BesideEffect, CallsMove
<1>4. RunMoves(gc, gc')
  BY <1>b, <1>c DEF RunMoves, RunIsInHand, BesideEffect
<1>5. RunMoves(other, other') /\ deletions' = {}
  BY <1>a, <1>b, BesideMoved
<1>6. HistoryGrows
  BY <1>c DEF BesideEffect, History, HistoryGrows
<1>7. QED
  BY <1>1, <1>2, <1>3, <1>4, <1>5, <1>6 DEF CalmStep

\* The faults that may still happen only get fewer, and only by a fault.
LEMMA FaultsMove ==
  ASSUME TypeOK, [OverlapNext]_overlapVars
  PROVE  UNCHANGED faults \/ \E kind \in {"storage", "db", "crash"} : Spend(kind)
<1>1. ASSUME NEW k, DeleteFile(k)
      PROVE  UNCHANGED faults \/ Spend("storage")
  BY <1>1 DEF DeleteFile
<1>2. CASE \E c \in Clients : ClientCall(c) \/ ClientStep(c)
  BY <1>1, <1>2
  DEF ClientCall, ClientStep, CreateLink, UpdateLink, TrashLink, RestoreLink, PurgeLink,
      InsertLink, InsertFails, CleanupUpload, WriteUpdate, UnlinkOld, WriteTrash, WriteRestore,
      PurgeFile, PurgeRow, TransactionFails
<1>3. CASE GcStep
  BY <1>1, <1>3
  DEF GcStep, GcStart, GcSelect, GcQueryFails, GcDeleteRows, GcDeleteRowsFails, GcUnlink,
      GcDeleteRow, GcDeleteRowFails, GcQueueRetries
<1>4. CASE BesideStep
  BY <1>1, <1>4, SameHelpers
  DEF BesideStep, StartBeside, Beside!GcStep, Beside!GcStart, Beside!GcSelect,
      Beside!GcQueryFails, Beside!GcDeleteRows, Beside!GcDeleteRowsFails, Beside!GcUnlink,
      Beside!GcDeleteRow, Beside!GcDeleteRowFails, Beside!GcQueueRetries
<1>5. CASE \/ \E k \in Keys : Upload(k) \/ FileDeletionJob(k)
           \/ \E l \in LinkIds, k \in Keys : UpdateNotFound(l, k)
           \/ Tick \/ UNCHANGED overlapVars
  BY <1>1, <1>5 DEF Upload, FileDeletionJob, UpdateNotFound, Tick, overlapVars, vars
<1>6. QED
  BY <1>2, <1>3, <1>4, <1>5 DEF OverlapNext

\* When nothing has failed after a step, nothing had before it, and the step was no
\* failure.
LEMMA NothingFailedBefore ==
  ASSUME TypeOK, FaultsOnlyFall, [OverlapNext]_overlapVars
  PROVE  FaultsOnlyFall' /\ (NothingFailed' => NothingFailed /\ Calm)
<1> USE DEF TypeOK, ProgramTypeOK, FaultsOnlyFall
<1>1. ASSUME NEW kind \in {"storage", "db", "crash"}, Spend(kind)
      PROVE  FaultsOnlyFall' /\ ~NothingFailed'
  <2>1. /\ faults' = [faults EXCEPT ![kind] = @ - 1]
        /\ faults.storage \in Nat /\ faults.db \in Nat /\ faults.crash \in Nat
    BY <1>1 DEF Spend
  <2>2. FaultsOnlyFall'
    BY <2>1, BoundsAssumption
  <2>3. ~NothingFailed'
    BY <2>1, BoundsAssumption DEF NothingFailed
  <2>4. QED
    BY <2>2, <2>3
<1>2. CASE UNCHANGED faults
  BY <1>1, <1>2 DEF Calm, NothingFailed
<1>3. QED
  BY <1>1, <1>2, FaultsMove

\* Every step preserves the invariant of the two runs.
LEMMA OverlapInvStep ==
  ASSUME OverlapInv, [OverlapNext]_overlapVars
  PROVE  OverlapInv'
<1>1. BothRunsDeleteDoomed' /\ TypeOK
  BY OverlapStep DEF OverlapInv, BothRunsDeleteDoomed, IInv
<1>2. FaultsOnlyFall' /\ (NothingFailed' => NothingFailed /\ Calm)
  BY <1>1, NothingFailedBefore DEF OverlapInv
<1>3. CASE NothingFailed'
  <2>1. InHand /\ Calm
    BY <1>2, <1>3 DEF OverlapInv, InHand
  <2>2. BesideStep \/ ([Next]_vars /\ UNCHANGED other)
    BY DEF OverlapNext, overlapVars, Next
  <2>3. AllInHand' /\ FilesAndRowsAreInHand'
    BY <2>1, <2>2, NextIsCalm, BesideIsCalm, InHandStep
  <2>4. QED
    BY <1>1, <1>2, <2>3 DEF OverlapInv
<1>4. CASE ~NothingFailed'
  BY <1>1, <1>2, <1>4 DEF OverlapInv, FilesAndRowsAreInHand, AllInHand
<1>5. QED
  BY <1>3, <1>4

LEMMA OverlapInvInit == OverlapInit => OverlapInv
<1> SUFFICES ASSUME OverlapInit PROVE OverlapInv
  OBVIOUS
<1>1. BothRunsDeleteDoomed
  BY OverlapInitSafe
<1>2. /\ files = {} /\ deletions = {}
      /\ \A c \in Clients : request[c] = Idle
      /\ \A l \in LinkIds : ~Exists(l)
      /\ gc = GcIdle /\ other = GcIdle
      /\ faults = [storage |-> MaxStorageFaults, db |-> MaxDbFaults, crash |-> MaxCrashes]
  BY DEF OverlapInit, Init, Exists
<1>3. FilesAndRowsAreInHand
  BY <1>2 DEF FilesAndRowsAreInHand
<1>4. FaultsOnlyFall
  BY <1>2, BoundsAssumption DEF FaultsOnlyFall
<1>5. CallsAreInHand
  BY <1>2 DEF CallsAreInHand, Idle
<1>6. RunIsInHand(gc) /\ RunIsInHand(other)
  BY <1>2 DEF RunIsInHand, GcIdle
<1>7. QED
  BY <1>1, <1>2, <1>3, <1>4, <1>5, <1>6 DEF OverlapInv, AllInHand, FilesHaveAPlace

\* While nothing has failed, a row without a file is about to be deleted by whoever
\* deleted the file, and a file without a row can be reached or was left behind by a
\* replacement: two runs that meet on a row leave neither behind.
THEOREM NothingIsForgotten == OverlapSpec => []FilesAndRowsAreInHand
<1>1. OverlapInv /\ [OverlapNext]_overlapVars => OverlapInv'
  BY OverlapInvStep
<1>2. OverlapInv => FilesAndRowsAreInHand
  BY DEF OverlapInv
<1>3. QED
  BY OverlapInvInit, <1>1, <1>2, PTL DEF OverlapSpec


-----------------------------------------------------------------------------
(* The promise to the owners of links.                                       *)

\* What a step may do to the rows, the files and the uploads, whoever takes it.
OwnersStep ==
  /\ issued \subseteq issued'
  /\ \A k \in Keys : Settled(k) => Settled(k)'
  /\ \A k \in issued' \ issued : ~Settled(k)'
  /\ \A k \in files' \ files : k \notin issued
  /\ \A l \in LinkIds : Exists(l)' =>
       \/ Exists(l) /\ links'[l].file = links[l].file
       \/ /\ Exists(l) \/ l \notin doomed
          /\ links'[l].file \in issued \cap files'
          /\ ~Settled(links'[l].file)
  /\ \A l \in LinkIds : Exists(l) /\ ~Exists(l)' => l \in doomed
  /\ \A k \in files \ files', l \in LinkIds : Exists(l) /\ links[l].file = k => l \in doomed
  /\ doomed \subseteq doomed'
  /\ \A l \in doomed' \ doomed : l \in Reasons' /\ l \in LinkIds /\ Exists(l)'

\* Uploads move on, from the browser to a link.
LEMMA UploadsMoveOn ==
  ASSUME OwnersStep, NEW k \in Keys
  PROVE  \/ UploadStage(k)' = UploadStage(k)
         \/ UploadStage(k) = "none" /\ UploadStage(k)' = "waiting"
         \/ UploadStage(k) = "waiting" /\ UploadStage(k)' = "spent"
<1>1. /\ UploadStage(k) = IF k \notin issued THEN "none"
                          ELSE IF Settled(k) THEN "spent" ELSE "waiting"
      /\ UploadStage(k)' = IF k \notin issued' THEN "none"
                           ELSE IF Settled(k)' THEN "spent" ELSE "waiting"
  BY DEF UploadStage
<1>2. k \in issued => k \in issued'
  BY DEF OwnersStep
<1>3. k \in issued' /\ k \notin issued => ~Settled(k)'
  BY DEF OwnersStep
<1>4. Settled(k) => Settled(k)'
  BY DEF OwnersStep
<1>5. QED
  BY <1>1, <1>2, <1>3, <1>4

\* Whoever has its file in a row has it settled.
LEMMA RowIsSettled ==
  ASSUME IInv, NEW l \in LinkIds, Exists(l)
  PROVE  Settled(links[l].file) /\ OnlyOf(links[l].file, l) /\ links[l].file \in Keys
<1>1. TypeOK /\ RowsOwnTheirFiles
  BY DEF IInv
<1>2. QED
  BY <1>1 DEF TypeOK, ProgramTypeOK, Exists, Row, RowsOwnTheirFiles

\* A link that is written with another file is given that file.
LEMMA NewFileIsGiven ==
  ASSUME IInv', OwnersStep, NEW l \in LinkIds, Exists(l)', NEW k, k = links'[l].file,
         k \in issued \cap files', ~Settled(k)
  PROVE  /\ k \in Keys
         /\ UploadStage(k) = "waiting"
         /\ UploadStage(k)' = "spent"
         /\ Content(l)' = k
<1>1. k \in Keys /\ Settled(k)'
  <2>1. TypeOK' /\ RowsOwnTheirFiles'
    BY DEF IInv
  <2>2. QED
    BY <2>1 DEF TypeOK, ProgramTypeOK, Exists, Row, RowsOwnTheirFiles, Settled, Carries
<1>2. k \in issued /\ k \in issued' /\ k \in files'
  BY DEF OwnersStep
<1>3. Content(l)' = k
  BY <1>2 DEF Content, Exists
<1>4. UploadStage(k) = "waiting"
  BY <1>2 DEF UploadStage
<1>5. UploadStage(k)' = "spent"
  BY <1>1, <1>2 DEF UploadStage
<1>6. QED
  BY <1>1, <1>3, <1>4, <1>5

\* The link is given a file, in the terms of the promise.
IsGiven(l) ==
  \E k \in Keys : /\ UploadStage(k) = "waiting" /\ UploadStage(k)' = "spent"
                  /\ Content(l)' = k

\* A link makes the moves that its owner may expect.
LEMMA LinkMoves ==
  ASSUME IInv, IInv', OwnersStep, NEW l \in LinkIds
  PROVE  \/ Phase(l)' = Phase(l) /\ Content(l)' = Content(l)
         \/ /\ Phase(l) \in {"new", "kept"} /\ IsGiven(l)
            /\ Phase(l)' = "kept" \/ (Phase(l)' = "condemned" /\ l \in Reasons')
         \/ Phase(l) = "condemned" /\ Phase(l)' = "condemned" /\ IsGiven(l)
         \/ /\ Phase(l) = "kept" /\ Content(l)' = Content(l)
            /\ Phase(l)' = "kept" \/ (Phase(l)' = "condemned" /\ l \in Reasons')
         \/ Phase(l) = "condemned" /\ Phase(l)' = "condemned" /\ Content(l)' = NoKey
         \/ Phase(l) = "condemned" /\ Phase(l)' = "gone" /\ Content(l)' = NoKey
<1>1. /\ Phase(l) = IF Exists(l) THEN IF l \in doomed THEN "condemned" ELSE "kept"
                    ELSE IF l \in doomed THEN "gone" ELSE "new"
      /\ Phase(l)' = IF Exists(l)' THEN IF l \in doomed' THEN "condemned" ELSE "kept"
                     ELSE IF l \in doomed' THEN "gone" ELSE "new"
  BY DEF Phase
<1>2. /\ l \in doomed => l \in doomed'
      /\ l \in doomed' /\ l \notin doomed => l \in Reasons' /\ Exists(l)'
      /\ Exists(l) /\ ~Exists(l)' => l \in doomed
  BY DEF OwnersStep
<1>3. CASE ~Exists(l)'
  <2>1. Content(l)' = NoKey
    BY <1>3 DEF Content
  <2>2. ~Exists(l) => Content(l) = NoKey
    BY DEF Content
  <2>3. QED
    BY <1>1, <1>2, <1>3, <2>1, <2>2
<1>4. CASE Exists(l)' /\ Exists(l) /\ links'[l].file = links[l].file
  <2> DEFINE k == links[l].file
  <2>1. Settled(k)
    BY <1>4, RowIsSettled
  <2>2. Content(l) = (IF k \in files THEN k ELSE NoKey)
        /\ Content(l)' = IF k \in files' THEN k ELSE NoKey
    BY <1>4 DEF Content, Exists
  <2>3. k \in issued
    BY <2>1 DEF Settled
  <2>4. k \notin files => k \notin files'
    BY <2>3 DEF OwnersStep
  <2>5. k \in files /\ k \notin files' => l \in doomed
    BY <1>4 DEF OwnersStep
  <2> HIDE DEF k
  <2>6. CASE Content(l)' = Content(l)
    BY <1>1, <1>2, <1>4, <2>6
  <2>7. CASE Content(l)' = NoKey /\ l \in doomed
    BY <1>1, <1>2, <1>4, <2>7
  <2>8. QED
    BY <2>2, <2>4, <2>5, <2>6, <2>7
<1>5. CASE /\ Exists(l)' /\ (Exists(l) \/ l \notin doomed)
           /\ links'[l].file \in issued \cap files' /\ ~Settled(links'[l].file)
  <2>1. IsGiven(l)
    BY <1>5, NewFileIsGiven DEF IsGiven
  <2>2. QED
    BY <1>1, <1>2, <1>5, <2>1
<1>6. QED
  BY <1>3, <1>4, <1>5 DEF OwnersStep

\* Such a step is one that the promise allows.
LEMMA OwnersStepIsPromised ==
  ASSUME IInv, IInv', OwnersStep
  PROVE  Promised!PromiseNext
<1> DEFINE phase == [l \in LinkIds |-> Phase(l)]
           content == [l \in LinkIds |-> Content(l)]
           upload == [k \in Keys |-> UploadStage(k)]
<1>1. \A k \in Keys : upload[k] = UploadStage(k) /\ upload'[k] = UploadStage(k)'
  OBVIOUS
<1>2. \A l \in LinkIds : /\ phase[l] = Phase(l) /\ phase'[l] = Phase(l)'
                         /\ content[l] = Content(l) /\ content'[l] = Content(l)'
  OBVIOUS
<1>3. \A k \in Keys : Promised!UploadStep(k)
  BY <1>1, UploadsMoveOn DEF Promised!UploadStep
<1>4. ASSUME NEW l \in LinkIds
      PROVE  Promised!LinkStep(l)
  <2>1. IsGiven(l) => Promised!Given(l)
    BY <1>1, <1>2 DEF IsGiven, Promised!Given
  <2>2. QED
    BY <1>2, <2>1, LinkMoves
    DEF Promised!LinkStep, Promised!Stay, Promised!Publish, Promised!Replace,
        Promised!Condemn, Promised!LoseFile, Promised!Remove, Promised!InPlace
<1>5. Promised!Apart
  <2>1. \A l \in LinkIds : Content(l)' # NoKey => Exists(l)' /\ Content(l)' = links'[l].file
    BY DEF Content, Exists
  <2>2. \A l, m \in LinkIds : Exists(l)' /\ Exists(m)' /\ links'[l].file = links'[m].file => l = m
    BY DEF IInv, RowsOwnTheirFiles, OnlyOf, Exists
  <2>3. QED
    BY <1>2, <2>1, <2>2 DEF Promised!Apart
<1>6. QED
  BY <1>3, <1>4, <1>5 DEF Promised!PromiseNext

\* Uploads are the only new files, under keys that nobody has had.
LEMMA NewFilesShape ==
  ASSUME TypeOK, [Next]_vars
  PROVE  /\ \A k \in issued' \ issued : k \in uploads'
         /\ \A k \in files' \ files : k \notin issued
<1>1. CASE \E c \in Clients : ClientCall(c)
  BY <1>1, ClientCallShape
<1>2. ASSUME NEW k, DeleteFile(k)
      PROVE  files' \subseteq files
  BY <1>2 DEF DeleteFile
<1>3. ASSUME NEW c \in Clients, ClientStep(c)
      PROVE  issued' = issued /\ files' \subseteq files
  BY <1>2, <1>3
  DEF ClientStep, InsertLink, InsertFails, CleanupUpload, WriteUpdate, UnlinkOld,
      WriteTrash, WriteRestore, PurgeFile, PurgeRow, TransactionFails
<1>4. CASE GcStep
  <2>1. issued' = issued /\ files' \subseteq files
    BY <1>2, <1>4
    DEF GcStep, GcStart, GcSelect, GcQueryFails, GcDeleteRows, GcDeleteRowsFails,
        GcUnlink, GcDeleteRow, GcDeleteRowFails, GcQueueRetries
  <2>2. QED
    BY <2>1
<1>5. ASSUME NEW k \in Keys, Upload(k)
      PROVE  /\ \A j \in issued' \ issued : j \in uploads'
             /\ \A j \in files' \ files : j \notin issued
  BY <1>5 DEF Upload
<1>6. ASSUME NEW k \in Keys, FileDeletionJob(k)
      PROVE  issued' = issued /\ files' \subseteq files
  BY <1>2, <1>6 DEF FileDeletionJob
<1>7. CASE \/ \E l \in LinkIds, k \in Keys : UpdateNotFound(l, k)
           \/ Tick \/ Crash \/ UNCHANGED vars
  BY <1>7 DEF UpdateNotFound, Tick, Crash, vars
<1>8. QED
  BY <1>1, <1>3, <1>4, <1>5, <1>6, <1>7 DEF Next

\* What a step newly dooms is due, or has just been asked to be purged: it has a row.
LEMMA DoomedHasRow ==
  ASSUME IInv, [Next]_vars, NEW l \in doomed' \ doomed
  PROVE  l \in Reasons' /\ l \in LinkIds /\ Exists(l)'
<1>1. TypeOK /\ CallsDeleteTheirOwn /\ TypeOK'
  BY StepInductive DEF IInv
<1>2. History
  BY <1>1, UploadsShape DEF vars
<1>3. l \in Reasons' /\ l \in LinkIds
  BY <1>1, <1>2 DEF History, TypeOK
<1>4. CASE Due(l)'
  BY <1>3, <1>4 DEF Due
<1>5. ASSUME NEW c \in Clients, request'[c].pc = "purge_file", request'[c].link = l
      PROVE  Exists(l)'
  <2>1. request'[c] # request[c]
    BY <1>1, <1>5 DEF CallsDeleteTheirOwn
  <2>2. ClientCall(c)
    BY <1>1, <1>5, <2>1, CallsShape DEF Idle
  <2>3. Exists(l) /\ links' = links
    BY <1>1, <1>5, <2>2, ClientCallShape
  <2>4. QED
    BY <2>3 DEF Exists
<1>6. QED
  BY <1>3, <1>4, <1>5 DEF Reasons

\* Calls, jobs, the first run and restarts do to links what their owners expect.
LEMMA NextIsOwnersStep ==
  ASSUME IInv, [Next]_vars
  PROVE  OwnersStep
<1>1. TypeOK /\ UploadsComplete /\ NewKeysHaveOneHolder /\ NewLinksAreNew
  BY DEF IInv
<1>2. issued \subseteq issued' /\ \A k \in Keys : Settled(k) => Settled(k)'
  BY <1>1, SettledStable, UploadsShape
<1>3. /\ \A k \in issued' \ issued : ~Settled(k)'
      /\ \A k \in files' \ files : k \notin issued
  BY <1>1, NewFilesShape DEF Settled
<1>4. ASSUME NEW l \in LinkIds, Exists(l)'
      PROVE  \/ Exists(l) /\ links'[l].file = links[l].file
             \/ /\ Exists(l) \/ l \notin doomed
                /\ links'[l].file \in issued \cap files'
                /\ ~Settled(links'[l].file)
  <2>1. SUFFICES ASSUME ~(Exists(l) /\ links'[l].file = links[l].file)
                 PROVE  /\ Exists(l) \/ l \notin doomed
                        /\ links'[l].file \in issued \cap files'
                        /\ ~Settled(links'[l].file)
    OBVIOUS
  <2>2. files' = files
    BY <1>1, <1>4, <2>1, RowsShape DEF Exists
  <2>3. PICK c \in Clients :
          /\ request[c].pc \in {"create", "update"}
          /\ request[c].pc = "update" => Exists(l)
          /\ request[c].link = l
          /\ request[c].new # NoKey
          /\ request[c].new = links'[l].file
    BY <1>1, <1>4, <2>1, RowsShape DEF Exists
  <2>4. request[c].new \in Keys
    BY <1>1, <2>3 DEF TypeOK, ProgramTypeOK, Request
  <2>5. Carries(c, links'[l].file)
    BY <2>3 DEF Carries
  <2>6. links'[l].file \in files /\ links'[l].file \in issued
    BY <1>1, <2>3, <2>4, <2>5 DEF UploadsComplete, NewKeysHaveOneHolder
  <2>7. ~Settled(links'[l].file)
    BY <2>5 DEF Settled
  <2>8. Exists(l) \/ l \notin doomed
    BY <1>1, <2>3 DEF NewLinksAreNew
  <2>9. QED
    BY <2>2, <2>6, <2>7, <2>8
<1>5. \A l \in LinkIds : Exists(l) /\ ~Exists(l)' => l \in doomed
  BY RowRemovedStep DEF Exists
<1>6. ASSUME NEW k \in files \ files', NEW l \in LinkIds, Exists(l), links[l].file = k
      PROVE  l \in doomed
  <2>1. \A c \in Clients : ~Carries(c, k)
    BY <1>6, RowIsSettled DEF Settled
  <2>2. QED
    BY <1>6, <2>1, DeletedFiles
<1>7. doomed \subseteq doomed'
  BY <1>1, UploadsShape DEF History, vars
<1>8. \A l \in doomed' \ doomed : l \in Reasons' /\ l \in LinkIds /\ Exists(l)'
  BY DoomedHasRow
<1>9. QED
  BY <1>2, <1>3, <1>4, <1>5, <1>6, <1>7, <1>8 DEF OwnersStep

\* And so does a run that began beside another.
LEMMA BesideIsOwnersStep ==
  ASSUME BothRunsDeleteDoomed, BesideEffect
  PROVE  OwnersStep
<1>1. /\ UNCHANGED <<issued, uploads, nextLink, request, gc, now>>
      /\ History /\ doomed \subseteq doomed'
      /\ files' \subseteq files
      /\ \A m \in LinkIds : links'[m] = links[m] \/ (links'[m] = NoRow /\ m \in doomed)
      /\ \A k \in files : k \in files' \/ Forfeit(k)
  BY BesideRemovesDoomed DEF BesideEffect, History
<1>2. \A k : Settled(k) <=> Settled(k)'
  BY <1>1 DEF Settled, Carries
<1>3. \A l \in doomed' \ doomed : l \in Reasons' /\ l \in LinkIds /\ Exists(l)'
  BY <1>1 DEF History, Reasons, Due, CallsDeleteTheirOwn, Exists,
              BothRunsDeleteDoomed, IInv
<1>4. QED
  BY <1>1, <1>2, <1>3 DEF OwnersStep, Exists, Forfeit

\* An empty table is what the promise begins with.
LEMMA PromiseBegins == Init => Promised!PromiseInit
<1> SUFFICES ASSUME Init
             PROVE  Promised!PromiseInit
  OBVIOUS
<1>1. \A l \in LinkIds : ~Exists(l) /\ l \notin doomed
  BY DEF Init, Exists
<1>2. \A l \in LinkIds : Phase(l) = "new" /\ Content(l) = NoKey
  BY <1>1 DEF Phase, Content
<1>3. \A k \in Keys : UploadStage(k) = "none"
  BY DEF Init, UploadStage
<1>4. Reasons = {}
  BY <1>1 DEF Init, Reasons, Due, Idle
<1>5. QED
  BY <1>2, <1>3, <1>4 DEF Promised!PromiseInit

\* The link service implements LinkPromise: whatever calls, cleanup runs, jobs,
\* failures and restarts interleave, a link is served until there is a reason to
\* remove it, a link that is gone stays gone, and an upload is given to one link.
THEOREM LinksAreKept == Spec => KeepsLinkPromise
<1>1. IInv /\ [Next]_vars => [Promised!PromiseNext]_(Promised!promiseVars)
  BY StepInductive, NextIsOwnersStep, OwnersStepIsPromised
<1>2. QED
  BY Inductive, PromiseBegins, <1>1, PTL DEF Spec, KeepsLinkPromise, Promised!Promise

\* It does so with two cleanup runs at work at the same time, too.
THEOREM TwoRunsKeepThePromise == OverlapSpec => KeepsLinkPromise
<1>1. BothRunsDeleteDoomed /\ [OverlapNext]_overlapVars =>
        [Promised!PromiseNext]_(Promised!promiseVars)
  <2> SUFFICES ASSUME BothRunsDeleteDoomed, [OverlapNext]_overlapVars
               PROVE  Promised!PromiseNext
    OBVIOUS
  <2>1. IInv /\ IInv'
    BY OverlapStep DEF BothRunsDeleteDoomed
  <2>2. OwnersStep
    <3>1. CASE BesideStep
      BY <2>1, <3>1, BesideShape, BesideIsOwnersStep DEF BothRunsDeleteDoomed, IInv
    <3>2. CASE ~BesideStep
      <4>1. [Next]_vars
        BY <3>2 DEF OverlapNext, overlapVars, Next
      <4>2. QED
        BY <2>1, <4>1, NextIsOwnersStep
    <3>3. QED
      BY <3>1, <3>2
  <2>3. QED
    BY <2>1, <2>2, OwnersStepIsPromised
<1>2. OverlapInit => Promised!PromiseInit
  BY PromiseBegins DEF OverlapInit
<1>3. QED
  BY TwoRunsAreSafe, <1>1, <1>2, PTL DEF OverlapSpec, KeepsLinkPromise, Promised!Promise

-----------------------------------------------------------------------------
(* Files that are left in storage: what a step can do to the rows, the       *)
(* files, the calls and the run, failures included, and then LeftInv.        *)

\* The file is gone, or the record says why it is not.
Tried(k) == k \notin files' \/ k \in left'

\* The record keeps what it has, and takes note of what this step leaves.
LeftGrows == left \cup Refused \cup CutOff \cup Unwritten \cup Overtaken \subseteq left'

\* An update gives the row of l another file.
SwappedNow(l) ==
  \E c \in Clients : /\ request[c].pc = "update" /\ request[c].link = l
                     /\ request'[c].pc = "unlink_old"

\* What a step does to a row, and whose file may newly appear.
TableMoves ==
  /\ \A m \in LinkIds : Exists(m) /\ links'[m] = NoRow => RemovedNow(m)
  /\ \A m \in LinkIds : Exists(m) /\ links'[m] # NoRow =>
       links'[m].file = links[m].file \/ SwappedNow(m)
  /\ issued \subseteq issued' /\ \A k \in uploads' : k \in uploads \/ k \notin issued
  /\ \A k \in files' : k \in files \/ (k \in uploads' /\ k \notin issued)
  /\ \A k \in uploads \ uploads' :
       request' = request \/ \E c \in Clients : request'[c].new = k

\* The row of a call has the file that the call brings.
RowHasNew(c) ==
  links'[request[c].link] # NoRow /\ links'[request[c].link].file = request[c].new

\* A call ends, also by an error or a restart: what it had in hand is in a row, or it
\* has tried to delete it, or the record has it.
CallIsOver(c) ==
  /\ request'[c] = Idle
  /\ request[c].pc = "create" => RowHasNew(c) \/ request[c].new \in left'
  /\ request[c].pc = "create_cleanup" => Tried(request[c].new)
  /\ request[c].pc = "update" => request[c].new = NoKey \/ request[c].new \in left'
  /\ request[c].pc = "unlink_old" => Tried(request[c].old)

\* A call goes on: to its cleanup, to the file it has taken out of a row, or to the row
\* whose file it has tried to delete.
CallMovesOn(c) ==
  /\ request'[c].link = request[c].link
  /\ request'[c].old = request[c].old
  /\ request'[c].new = request[c].new
  /\ \/ request[c].pc = "create" /\ request'[c].pc = "create_cleanup"
     \/ /\ request[c].pc = "update" /\ request'[c].pc = "unlink_old"
        /\ RowHasNew(c) \/ request[c].new \in left'
     \/ /\ request[c].pc = "purge_file" /\ request'[c].pc = "purge_row"
        /\ Tried(request[c].old)

CallsAreTold ==
  \A c \in Clients :
    request'[c] = request[c] \/ CallBegins(c) \/ CallIsOver(c) \/ CallMovesOn(c)

\* The run tries to delete the files of the rows it has taken up.
RunIsTold ==
  /\ gc'.pc \in {"idle", "select"} => gc'.batch = {} /\ gc'.done = {}
  /\ \A v \in gc'.done : v \in gc.done \/ (v \in gc.batch /\ Tried(v.key))

ToldStep == LeftGrows /\ TableMoves /\ CallsAreTold /\ RunIsTold

\* The record of a step that is more than a stutter.
Recorded == left' = left \cup Refused \cup CutOff \cup Unwritten \cup Overtaken

\* A deletion leaves a file only if storage spends a fault on it.
LEMMA DeleteIsTried ==
  ASSUME TypeOK, NEW k \in Keys, DeleteFile(k)
  PROVE  k \notin files' \/ faults'.storage # faults.storage
  BY DEF DeleteFile, Spend, TypeOK, ProgramTypeOK

\* A call that deletes its file and moves has tried to.
LEMMA CallTries ==
  ASSUME TypeOK, Recorded, NEW c \in Clients, NEW k, DeleteFile(k),
         k \in Deleting(request[c]), request'[c] # request[c]
  PROVE  Tried(k)
<1>1. CASE k \in Keys
  BY <1>1, DeleteIsTried DEF Recorded, Refused, Tried
<1>2. CASE k \notin Keys
  BY <1>2 DEF DeleteFile, Tried, TypeOK, ProgramTypeOK
<1>3. QED
  BY <1>1, <1>2

\* An update puts the file it brings into the row, if that is still there.
LEMMA UpdateIsTold ==
  ASSUME TypeOK, Recorded, NEW c \in Clients, WriteUpdate(c)
  PROVE  CallIsOver(c) \/ CallMovesOn(c)
<1> USE DEF TypeOK, ProgramTypeOK
<1> DEFINE call == request[c]
<1>1. /\ call \in Request /\ call.pc = "update" /\ call.link \in LinkIds
      /\ call.new \in Keys \cup {NoKey}
  BY DEF WriteUpdate, Request
<1>2. CASE call.new = NoKey
  BY <1>1, <1>2 DEF WriteUpdate, Finish, CallIsOver
<1>3. CASE call.new # NoKey
  <2>1. request' = [request EXCEPT ![c].pc = "unlink_old"]
    BY <1>3 DEF WriteUpdate, Goto
  <2>2. /\ request'[c].pc = "unlink_old" /\ request'[c].link = call.link
        /\ request'[c].old = call.old /\ request'[c].new = call.new
    BY <1>1, <2>1 DEF Request
  <2>3. CASE Exists(call.link)
    <3>1. links'[call.link] = Updated(links[call.link], call)
      BY <1>1, <2>3 DEF WriteUpdate
    <3>2. links[call.link] \in Row /\ call.exp \in Stamp \cup {Keep} /\ call.new \in Keys
      BY <1>1, <1>3, <2>3, BoundsAssumption DEF Exists, Request, Stamp, Keep
    <3>3. Updated(links[call.link], call) \in Row /\ Updated(links[call.link], call).file = call.new
      BY <1>3, <3>2 DEF Updated, Row
    <3>4. RowHasNew(c)
      BY <3>1, <3>3, SentinelAssumption DEF RowHasNew
    <3>5. QED
      BY <1>1, <2>2, <3>4 DEF CallMovesOn
  <2>4. CASE ~Exists(call.link)
    <3>1. request'[c] # request[c] /\ call.new \in Keys
      BY <1>1, <1>3, <2>2
    <3>2. call.new \in Unwritten
      BY <1>1, <2>4, <3>1 DEF Unwritten
    <3>3. QED
      BY <1>1, <2>2, <3>2 DEF CallMovesOn, Recorded
  <2>5. QED
    BY <2>3, <2>4
<1>4. QED
  BY <1>2, <1>3

\* What a later step of a call leaves, whether it succeeds or fails.
LEMMA CallIsTold ==
  ASSUME TypeOK, Recorded, NEW c \in Clients, ClientStep(c)
  PROVE  CallIsOver(c) \/ CallMovesOn(c)
<1> USE DEF TypeOK, ProgramTypeOK, Request, Finish, Goto
<1>1. CASE InsertLink(c)
  <2>1. /\ request'[c] = Idle /\ request[c].link \in LinkIds
        /\ links'[request[c].link] =
             [file |-> request[c].new, expires |-> request[c].exp, deleted |-> 0]
    BY <1>1 DEF InsertLink
  <2>2. links'[request[c].link] \in Row
    <3>1. request[c].new \in Keys /\ request[c].exp \in Stamp /\ 0 \in Stamp
      BY <1>1, BoundsAssumption DEF InsertLink, Stamp
    <3>2. QED
      BY <2>1, <3>1 DEF Row
  <2>3. RowHasNew(c)
    BY <2>1, <2>2, SentinelAssumption DEF RowHasNew
  <2>4. QED
    BY <1>1, <2>1, <2>3 DEF CallIsOver, InsertLink
<1>2. CASE InsertFails(c)
  BY <1>2 DEF InsertFails, CallMovesOn
<1>3. CASE CleanupUpload(c)
  <2>1. request'[c] = Idle /\ request[c].pc = "create_cleanup"
    BY <1>3 DEF CleanupUpload
  <2>2. request'[c] # request[c] /\ request[c].new \in Deleting(request[c])
    BY <2>1 DEF Idle, Deleting
  <2>3. Tried(request[c].new)
    BY <1>3, <2>2, CallTries DEF CleanupUpload
  <2>4. QED
    BY <2>1, <2>3 DEF CallIsOver
<1>4. CASE WriteUpdate(c)
  BY <1>4, UpdateIsTold
<1>5. CASE UnlinkOld(c)
  <2>1. request'[c] = Idle /\ request[c].pc = "unlink_old"
    BY <1>5 DEF UnlinkOld
  <2>2. request'[c] # request[c] /\ request[c].old \in Deleting(request[c])
    BY <2>1 DEF Idle, Deleting
  <2>3. Tried(request[c].old)
    BY <1>5, <2>2, CallTries DEF UnlinkOld
  <2>4. QED
    BY <2>1, <2>3 DEF CallIsOver
<1>6. CASE WriteTrash(c) \/ WriteRestore(c) \/ PurgeRow(c)
  BY <1>6 DEF WriteTrash, WriteRestore, PurgeRow, CallIsOver
<1>7. CASE TransactionFails(c)
  <2>1. /\ request'[c] = Idle /\ faults'.db # faults.db
        /\ request[c].pc \in {"update", "trash", "restore", "purge_row"}
    BY <1>7 DEF TransactionFails, Spend
  <2>2. ASSUME request[c].pc = "update", request[c].new # NoKey
        PROVE  request[c].new \in left'
    <3>1. request'[c] # request[c] /\ request[c].new \in Keys
      BY <2>1, <2>2 DEF Idle
    <3>2. request[c].new \in Unwritten
      BY <2>1, <2>2, <3>1 DEF Unwritten
    <3>3. QED
      BY <3>2 DEF Recorded
  <2>3. QED
    BY <2>1, <2>2 DEF CallIsOver
<1>8. CASE PurgeFile(c)
  <2>1. /\ request[c].pc = "purge_file" /\ request'[c].pc = "purge_row"
        /\ request'[c].link = request[c].link /\ request'[c].old = request[c].old
        /\ request'[c].new = request[c].new /\ DeleteFile(request[c].old)
    BY <1>8 DEF PurgeFile
  <2>2. request'[c] # request[c] /\ request[c].old \in Deleting(request[c])
    BY <2>1 DEF Deleting
  <2>3. Tried(request[c].old)
    BY <2>1, <2>2, CallTries
  <2>4. QED
    BY <2>1, <2>3 DEF CallMovesOn
<1>9. QED
  BY <1>1, <1>2, <1>3, <1>4, <1>5, <1>6, <1>7, <1>8 DEF ClientStep

\* A restart ends every call, and the record has what the calls had in hand.
LEMMA RestartIsTold ==
  ASSUME TypeOK, Recorded, Crash, NEW c \in Clients
  PROVE  CallIsOver(c)
<1>1. request'[c] = Idle /\ faults'.crash # faults.crash
  BY DEF Crash, Spend, TypeOK, ProgramTypeOK
<1>2. ASSUME NEW k \in Keys, Brings(c, k) \/ TakesAway(c, k)
      PROVE  k \in left'
  BY <1>1, <1>2 DEF Recorded, CutOff
<1>3. request[c].new \in Keys \cup {NoKey} /\ request[c].old \in Keys \cup {NoKey}
  BY DEF TypeOK, ProgramTypeOK, Request
<1>4. request[c].pc \in {"create", "create_cleanup"} => request[c].new \in Keys
  BY DEF TypeOK, ProgramTypeOK
<1>5. request[c].pc \in {"create", "create_cleanup"} => request[c].new \in left'
  BY <1>2, <1>4 DEF Brings
<1>6. request[c].pc = "update" /\ request[c].new # NoKey => request[c].new \in left'
  BY <1>2, <1>3 DEF Brings
<1>7. request[c].pc = "unlink_old" => Tried(request[c].old)
  <2>1. request[c].old \in Keys => (request[c].pc = "unlink_old" => request[c].old \in left')
    BY <1>2 DEF TakesAway
  <2>2. files' \subseteq Keys
    BY DEF Crash, TypeOK, ProgramTypeOK
  <2>3. QED
    BY <2>1, <2>2 DEF Tried
<1>8. QED
  BY <1>1, <1>5, <1>6, <1>7 DEF CallIsOver, Tried

\* What a step of the run leaves.
LEMMA RunTells ==
  ASSUME TypeOK, Recorded, RunIsExplained, GcStep
  PROVE  RunIsTold
<1> USE DEF TypeOK, ProgramTypeOK, RunIsExplained
<1>1. CASE GcStart \/ GcQueryFails
  <2>1. GcStart => gc'.batch = {} /\ gc'.done = {}
    BY DEF GcStart, GcIdle
  <2>2. GcQueryFails => gc'.batch = {} /\ gc'.done = {}
    BY DEF GcQueryFails, GcIdle
  <2>3. QED
    BY <1>1, <2>1, <2>2 DEF RunIsTold
<1>2. CASE GcSelect
  <2>1. PICK batch \in {{}, FindGarbage(gc.cutoff, gc.offset)} :
          gc' = IF batch = {} THEN GcIdle
                ELSE [gc EXCEPT !.pc = "unlink", !.batch = batch]
    BY <1>2 DEF GcSelect
  <2>2. gc.done = {}
    BY <1>2 DEF GcSelect
  <2>3. CASE batch = {}
    BY <2>1, <2>3 DEF GcIdle, RunIsTold
  <2>4. CASE batch # {}
    <3>1. gc'.pc = "unlink" /\ gc'.done = gc.done
      BY <2>1, <2>4 DEF GcRun
    <3>2. QED
      BY <2>2, <3>1 DEF RunIsTold
  <2>5. QED
    BY <2>3, <2>4
<1>3. CASE GcDeleteRows \/ GcQueueRetries
  <2>1. GcNextBatch.pc \in {"idle", "select"} /\ GcNextBatch.batch = {} /\ GcNextBatch.done = {}
    BY DEF GcNextBatch, GcIdle, GcRun
  <2>2. QED
    BY <1>3, <2>1 DEF GcDeleteRows, GcQueueRetries, RunIsTold
<1>4. CASE GcDeleteRowsFails
  BY <1>4 DEF GcDeleteRowsFails, GcRun, RunIsTold
<1>5. ASSUME NEW v \in Victim, GcDeleteRow(v) \/ GcDeleteRowFails(v)
      PROVE  RunIsTold
  <2>1. gc'.pc = "fallback" /\ gc'.done \subseteq gc.done
    BY <1>5 DEF GcDeleteRow, GcDeleteRowFails, GcRun
  <2>2. QED
    BY <2>1 DEF RunIsTold
<1>6. ASSUME NEW v \in Victim, GcUnlink(v)
      PROVE  RunIsTold
  <2>1. /\ gc'.pc = "unlink" /\ gc'.done = gc.done \cup {v}
        /\ v \in gc.batch /\ v \notin gc.done /\ DeleteFile(v.key)
    BY <1>6 DEF GcUnlink, GcRun
  <2>2. v.key \in Keys
    BY DEF Victim
  <2>3. v \in gc'.done \ gc.done
    BY <2>1
  <2>4. Tried(v.key)
    BY <2>1, <2>2, <2>3, DeleteIsTried DEF Recorded, Refused, Tried
  <2>5. QED
    BY <2>1, <2>4 DEF RunIsTold
<1>7. QED
  BY <1>1, <1>2, <1>3, <1>4, <1>5, <1>6 DEF GcStep

\* An upload leaves its form for a call, or for an update that finds no link.
LEMMA UploadIsTaken ==
  ASSUME TypeOK, [Next]_vars, NEW k \in uploads, k \notin uploads'
  PROVE  request' = request \/ \E c \in Clients : request'[c].new = k
<1>1. CASE \E c \in Clients : ClientCall(c)
  BY <1>1, ClientCallShape
<1>2. CASE \E c \in Clients : ClientStep(c)
  BY <1>2, ClientStepShape
<1>3. CASE GcStep
  BY <1>3, GcShape
<1>4. CASE \E m \in Keys : Upload(m) \/ FileDeletionJob(m)
  BY <1>4 DEF Upload, FileDeletionJob
<1>5. CASE \E l \in LinkIds, m \in Keys : UpdateNotFound(l, m)
  BY <1>5 DEF UpdateNotFound
<1>6. CASE Tick \/ Crash \/ UNCHANGED vars
  BY <1>6 DEF Tick, Crash, vars
<1>7. QED
  BY <1>1, <1>2, <1>3, <1>4, <1>5, <1>6 DEF Next

\* Every step, a failure or not, is one that the record tells of.
LEMMA EveryStepIsTold ==
  ASSUME LeftInv, [LeftNext]_leftVars
  PROVE  ToldStep
<1>1. IInv /\ TypeOK /\ RunIsExplained
  BY DEF LeftInv, IInv
<1>2. [Next]_vars
  BY DEF LeftNext, leftVars
<1>3. LeftGrows
  <2>1. CASE LeftNext
    BY <2>1 DEF LeftNext, LeftGrows
  <2>2. CASE UNCHANGED leftVars
    <3>1. links' = links /\ uploads' = uploads /\ request' = request /\ faults' = faults
      BY <2>2 DEF leftVars, vars
    <3>2. Refused = {} /\ CutOff = {}
      BY <3>1 DEF Refused, CutOff
    <3>3. Unwritten = {}
      BY <3>1 DEF Unwritten
    <3>4. Overtaken = {}
      BY <3>1 DEF Overtaken, Exists
    <3>5. QED
      BY <2>2, <3>2, <3>3, <3>4 DEF leftVars, LeftGrows
  <2>3. QED
    BY <2>1, <2>2
<1>4. TableMoves
  <2>1. ASSUME NEW m \in LinkIds, Exists(m), links'[m] # NoRow
        PROVE  links'[m].file = links[m].file \/ SwappedNow(m)
    BY <1>1, <1>2, <2>1, RowsShape DEF SwappedNow, IInv, NewLinksAreNew
  <2>2. \A m \in LinkIds : Exists(m) /\ links'[m] = NoRow => RemovedNow(m)
    BY <1>1, <1>2, RemovedByItsHolder
  <2>3. issued \subseteq issued' /\ \A k \in uploads' : k \in uploads \/ k \notin issued
    BY <1>1, <1>2, UploadsShape
  <2>4. \A k \in files' \ files : k \notin issued /\ k \in uploads'
    <3>1. files' \subseteq issued'
      BY <1>1, <1>2, StepInductive DEF IInv, TypeOK, ProgramTypeOK
    <3>2. QED
      BY <1>1, <1>2, <3>1, NewFilesShape
  <2>5. \A k \in uploads \ uploads' :
          request' = request \/ \E c \in Clients : request'[c].new = k
    BY <1>1, <1>2, UploadIsTaken
  <2>6. QED
    BY <2>1, <2>2, <2>3, <2>4, <2>5 DEF TableMoves
<1>5. CASE UNCHANGED leftVars
  <2>1. CallsAreTold /\ RunIsTold
    BY <1>1, <1>5 DEF leftVars, vars, CallsAreTold, RunIsTold, RunIsExplained
  <2>2. QED
    BY <1>3, <1>4, <2>1 DEF ToldStep
<1>6. CASE LeftNext
  <2>1. Recorded /\ Next
    BY <1>6 DEF LeftNext, Recorded
  <2>2. ASSUME NEW c \in Clients
        PROVE  \/ request'[c] = request[c]
               \/ CallBegins(c) \/ CallIsOver(c) \/ CallMovesOn(c)
    <3>1. CASE ClientCall(c)
      BY <1>1, <3>1, CallBegun
    <3>2. CASE ClientStep(c)
      BY <1>1, <2>1, <3>2, CallIsTold
    <3>3. ASSUME NEW d \in Clients, ClientCall(d) \/ ClientStep(d), d # c
          PROVE  request'[c] = request[c]
      BY <1>1, <3>3, ClientCallShape, ClientStepShape
    <3>4. CASE GcStep
      BY <1>1, <3>4, GcShape
    <3>5. CASE Crash
      BY <1>1, <2>1, <3>5, RestartIsTold
    <3>6. QED
      BY <2>1, <3>1, <3>2, <3>3, <3>4, <3>5
      DEF Next, Upload, FileDeletionJob, UpdateNotFound, Tick
  <2>3. RunIsTold
    <3>1. CASE GcStep
      BY <1>1, <2>1, <3>1, RunTells
    <3>2. CASE Crash
      BY <3>2 DEF Crash, GcIdle, RunIsTold
    <3>3. CASE ~GcStep /\ ~Crash
      <4>1. gc' = gc
        BY <1>1, <2>1, <3>3, ClientCallShape, ClientStepShape
        DEF Next, Upload, FileDeletionJob, UpdateNotFound, Tick
      <4>2. QED
        BY <1>1, <4>1 DEF RunIsTold, RunIsExplained
    <3>4. QED
      BY <3>1, <3>2, <3>3
  <2>4. QED
    BY <1>3, <1>4, <2>2, <2>3 DEF ToldStep, CallsAreTold
<1>7. QED
  BY <1>5, <1>6

\* What has been dealt with stays so: nobody uploads under its key again.
LEMMA DealtStays ==
  ASSUME ToldStep, NEW k, Dealt(k)
  PROVE  Dealt(k)'
  BY DEF Dealt, ToldStep, TableMoves, LeftGrows

LEMMA TriedIsDealt ==
  ASSUME ToldStep, NEW k \in issued \ uploads, Tried(k)
  PROVE  Dealt(k)'
  BY DEF Dealt, Tried, ToldStep, TableMoves

\* A row loses its file to somebody who knows it and has it in hand, or the record has it.
LEMMA RowLosesFile ==
  ASSUME LeftInv, ToldStep, NEW l \in LinkIds, Exists(l), NEW k, k = links[l].file,
         k \in files', links'[l] = NoRow \/ links'[l].file # k
  PROVE  k \in left' \/ \E c \in Clients : TakesAway(c, k)'
<1>1. ReadBefore(l) => k \in left'
  <2>1. ReadBefore(l) => k \in Overtaken
    BY DEF Overtaken
  <2>2. QED
    BY <2>1 DEF ToldStep, LeftGrows
<1>2. Dealt(k) => k \in left'
  BY DEF Dealt, ToldStep, TableMoves, LeftGrows
<1>3. CASE links'[l] = NoRow
  <2>1. RemovedNow(l)
    BY <1>3 DEF ToldStep, TableMoves
  <2>2. ASSUME NEW c \in Clients, request[c].pc = "purge_row", request[c].link = l,
               request'[c] # request[c]
        PROVE  k \in left'
    <3>1. Dealt(request[c].old)
      BY <2>2 DEF LeftInv, CallsAreExplained
    <3>2. request[c].old # k => ReadBefore(l)
      BY <2>2 DEF ReadBefore
    <3>3. QED
      BY <1>1, <1>2, <3>1, <3>2
  <2>3. ASSUME NEW v \in gc.done, v.link = l, gc' # gc
        PROVE  k \in left'
    <3>1. Dealt(v.key)
      BY DEF LeftInv, RunIsExplained
    <3>2. v.key # k => ReadBefore(l)
      BY <2>3 DEF ReadBefore
    <3>3. QED
      BY <1>1, <1>2, <3>1, <3>2
  <2>4. QED
    BY <2>1, <2>2, <2>3 DEF RemovedNow
<1>4. CASE links'[l] # NoRow
  <2>1. SwappedNow(l)
    BY <1>4 DEF ToldStep, TableMoves
  <2>2. PICK c \in Clients : /\ request[c].pc = "update" /\ request[c].link = l
                             /\ request'[c].pc = "unlink_old"
    BY <2>1 DEF SwappedNow
  <2>3. request'[c].old = request[c].old /\ request'[c] # request[c]
    BY <2>2 DEF ToldStep, CallsAreTold, CallBegins, CallIsOver, CallMovesOn, Idle
  <2>4. request[c].old # k => ReadBefore(l)
    BY <2>2, <2>3 DEF ReadBefore
  <2>5. request[c].old = k => TakesAway(c, k)'
    BY <2>2, <2>3 DEF TakesAway
  <2>6. QED
    BY <1>1, <2>4, <2>5
<1>5. QED
  BY <1>3, <1>4

\* Nothing joins the files left behind unless the record explains it.
LEMMA LeftForAReasonStep ==
  ASSUME LeftInv, ToldStep
  PROVE  LeftForAReason'
<1>1. SUFFICES ASSUME NEW k \in files', k \notin uploads', k \notin left'
               PROVE  \/ \E l \in LinkIds : links'[l] # NoRow /\ links'[l].file = k
                      \/ \E c \in Clients : Brings(c, k)' \/ TakesAway(c, k)'
  BY DEF LeftForAReason, Exists
<1>2. k \in files /\ k \notin left
  BY <1>1 DEF ToldStep, TableMoves, LeftGrows
<1>3. k # NoKey /\ k \in Keys
  BY <1>2, SentinelAssumption DEF LeftInv, IInv, TypeOK, ProgramTypeOK
<1>4. CASE k \in uploads
  <2>1. request' # request
    BY <1>1, <1>3, <1>4 DEF ToldStep, LeftGrows, Unwritten
  <2>2. PICK c \in Clients : request'[c].new = k
    BY <1>1, <1>4, <2>1 DEF ToldStep, TableMoves
  <2>3. request[c].new # k
    BY <1>3, <1>4 DEF LeftInv, CallsAreExplained
  <2>4. CallBegins(c)
    BY <1>3, <2>2, <2>3 DEF ToldStep, CallsAreTold, CallIsOver, CallMovesOn, Idle
  <2>5. QED
    BY <1>3, <2>2, <2>4 DEF CallBegins, Brings
<1>5. ASSUME NEW l \in LinkIds, Exists(l), links[l].file = k
      PROVE  \/ links'[l] # NoRow /\ links'[l].file = k
             \/ \E c \in Clients : TakesAway(c, k)'
  BY <1>1, <1>5, RowLosesFile
<1>6. ASSUME NEW c \in Clients, Brings(c, k)
      PROVE  \/ Brings(c, k)'
             \/ \E l \in LinkIds : links'[l] # NoRow /\ links'[l].file = k
  <2>1. request[c].link \in LinkIds
    BY <1>6 DEF Brings, LeftInv, IInv, TypeOK, ProgramTypeOK
  <2>2. CASE request'[c] = request[c]
    BY <1>6, <2>2 DEF Brings
  <2>3. CASE CallIsOver(c)
    BY <1>1, <1>3, <1>6, <2>1, <2>3 DEF CallIsOver, Brings, Tried, RowHasNew
  <2>4. CASE CallBegins(c)
    BY <1>6, <2>4 DEF CallBegins, Brings, Idle
  <2>5. CASE CallMovesOn(c)
    BY <1>1, <1>6, <2>1, <2>5 DEF CallMovesOn, Brings, RowHasNew
  <2>6. QED
    BY <2>2, <2>3, <2>4, <2>5 DEF ToldStep, CallsAreTold
<1>7. ASSUME NEW c \in Clients, TakesAway(c, k)
      PROVE  TakesAway(c, k)'
  BY <1>1, <1>7 DEF TakesAway, ToldStep, CallsAreTold, CallBegins, CallIsOver, CallMovesOn,
                    Idle, Tried
<1>8. QED
  BY <1>1, <1>2, <1>4, <1>5, <1>6, <1>7 DEF LeftInv, LeftForAReason

LEMMA CallsAreExplainedStep ==
  ASSUME LeftInv, ToldStep
  PROVE  CallsAreExplained'
<1>1. ASSUME NEW c \in Clients
      PROVE  /\ request'[c].new \in (issued' \ uploads') \cup {NoKey}
             /\ request'[c].pc = "purge_row" => Dealt(request[c].old)'
                                             /\ request'[c].old = request[c].old
  <2>1. /\ request[c].new \in (issued \ uploads) \cup {NoKey}
        /\ request[c].pc = "purge_row" => Dealt(request[c].old)
        /\ request[c].pc = "purge_file" => request[c].old \in issued \ uploads
    BY DEF LeftInv, CallsAreExplained, IInv, CallsDeleteTheirOwn, Settled
  <2>2. issued \ uploads \subseteq issued' \ uploads'
    BY DEF ToldStep, TableMoves
  <2>3. ASSUME NEW k, k = request[c].old
        PROVE  /\ Dealt(k) => Dealt(k)'
               /\ k \in issued \ uploads /\ Tried(k) => Dealt(k)'
    BY DealtStays, TriedIsDealt
  <2>4. CASE request'[c] = request[c]
    BY <2>1, <2>2, <2>3, <2>4
  <2>5. CASE CallBegins(c)
    BY <2>2, <2>5 DEF CallBegins, LeftInv, IInv, TypeOK, ProgramTypeOK, ToldStep, TableMoves
  <2>6. CASE CallIsOver(c)
    BY <2>6 DEF CallIsOver, Idle
  <2>7. CASE CallMovesOn(c)
    BY <2>1, <2>2, <2>3, <2>7 DEF CallMovesOn
  <2>8. QED
    BY <2>4, <2>5, <2>6, <2>7 DEF ToldStep, CallsAreTold
<1>2. QED
  BY <1>1 DEF CallsAreExplained, Dealt

LEMMA RunIsExplainedStep ==
  ASSUME LeftInv, ToldStep
  PROVE  RunIsExplained'
<1>1. /\ \A v \in gc.batch : v.key \in issued \ uploads
      /\ \A v \in gc.done : Dealt(v.key)
  BY DEF LeftInv, IInv, CollectorDeletesDoomed, Settled, RunIsExplained
<1>2. ASSUME NEW v \in gc'.done, NEW k, k = v.key
      PROVE  Dealt(k)'
  BY <1>1, <1>2, DealtStays, TriedIsDealt DEF ToldStep, RunIsTold
<1>3. gc'.pc \in {"idle", "select"} => gc'.batch = {} /\ gc'.done = {}
  BY DEF ToldStep, RunIsTold
<1>4. QED
  BY <1>2, <1>3 DEF RunIsExplained, Dealt

\* An empty storage has nothing left behind.
LEMMA NothingIsLeftAtFirst == LeftInit => LeftInv
<1> SUFFICES ASSUME LeftInit PROVE LeftInv
  OBVIOUS
<1>1. IInv
  BY InitInductive DEF LeftInit
<1>2. files = {} /\ left = {} /\ gc = GcIdle /\ \A c \in Clients : request[c] = Idle
  BY DEF LeftInit, Init
<1>3. CallsAreExplained
  BY <1>2 DEF CallsAreExplained, Idle
<1>4. RunIsExplained
  BY <1>2 DEF RunIsExplained, GcIdle
<1>5. QED
  BY <1>1, <1>2, <1>3, <1>4 DEF LeftInv, LeftForAReason

LEMMA LeftInvStep ==
  ASSUME LeftInv, [LeftNext]_leftVars
  PROVE  LeftInv'
<1>1. ToldStep
  BY EveryStepIsTold
<1>2. IInv'
  BY StepInductive DEF LeftInv, LeftNext, leftVars
<1>3. (left \subseteq Keys)'
  <2>1. \A l \in LinkIds : Exists(l) => links[l].file \in Keys
    BY DEF LeftInv, IInv, TypeOK, ProgramTypeOK, Exists, Row
  <2>2. Overtaken \subseteq Keys
    BY <2>1 DEF Overtaken
  <2>3. QED
    BY <2>2 DEF LeftInv, LeftNext, leftVars, Refused, CutOff, Unwritten
<1>4. QED
  BY <1>1, <1>2, <1>3, LeftForAReasonStep, CallsAreExplainedStep, RunIsExplainedStep
  DEF LeftInv

\* Taking notes changes nothing: what is proved of Spec holds of LeftSpec.
LEMMA RecordChangesNothing == LeftSpec => Spec
<1>1. LeftInit => Init
  BY DEF LeftInit
<1>2. [LeftNext]_leftVars => [Next]_vars
  BY DEF LeftNext, leftVars
<1>3. QED
  BY <1>1, <1>2, PTL DEF LeftSpec, Spec

\* A file without a row, a form or a call was refused by the storage that was to delete
\* it, cut off by a restart, brought by an update that did not write it, or had come into
\* its row after somebody read the row who has changed or deleted it since: whatever
\* overlaps and whichever transactions fail, nothing else leaves one behind.
THEOREM FilesAreLeftForAReason == LeftSpec => []LeftForAReason
<1>1. LeftInv /\ [LeftNext]_leftVars => LeftInv'
  BY LeftInvStep
<1>2. LeftInv => LeftForAReason
  BY DEF LeftInv
<1>3. QED
  BY NothingIsLeftAtFirst, <1>1, <1>2, PTL DEF LeftSpec
=============================================================================
