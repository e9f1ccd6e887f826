--------------------------- MODULE LinkLifecycle ---------------------------
(***************************************************************************)
(* The life of a download link: a row of the links table and a file in     *)
(* storage that no transaction ties together.                              *)
(*                                                                         *)
(* Node runs one callback at a time, so a service function is atomic only  *)
(* between two awaits.  Every function of services/linkService.js that     *)
(* changes the table or the storage is therefore split here at its awaits: *)
(* an action that reads the row, and one for each later effect.  A client  *)
(* is one such call under way, on behalf of an HTTP request, of a batch    *)
(* job or of a burn job; the collector is the cleanup cron.                *)
(*                                                                         *)
(* Time is Date.now() in coarse ticks.  0 stands for null in a timestamp   *)
(* column.  Keys and link ids are uuids and are never issued twice; links  *)
(* are numbered in the order of created_at.                                *)
(***************************************************************************)
EXTENDS Integers, FiniteSets

CONSTANTS
  Keys,              \* storage keys that uploads may be given
  NoKey,             \* "no new file" in an update
  NoRow,             \* a link id without a row in the table
  Clients,           \* calls of the link service under way at the same time
  MaxLinks,          \* bound: links created in a behaviour
  MaxTime,           \* bound: last tick of the clock
  Expiries,          \* expiry stamps that forms ask for (0: never)
  Retention,         \* config.trashRetentionDays, in ticks
  BatchSize,         \* BATCH_SIZE of processCleanup
  MaxItems,          \* MAX_ITEMS_PER_RUN of processCleanup
  MaxStorageFaults,  \* bound: storage deletions that fail
  MaxDbFaults,       \* bound: transactions that fail
  MaxCrashes         \* bound: restarts of the server

LinkIds == 1..MaxLinks
Time == 1..MaxTime
Stamp == 0..MaxTime
Keep == MaxTime + 1  \* an expiry that the request leaves undefined
Row == [file : Keys, expires : Stamp, deleted : Stamp]

ASSUME BoundsAssumption ==
  /\ MaxLinks \in Nat
  /\ MaxTime \in Nat \ {0}
  /\ Expiries \subseteq Stamp
  /\ Retention \in Nat
  /\ BatchSize \in Nat \ {0}
  /\ MaxItems \in Nat \ {0}
  /\ MaxStorageFaults \in Nat
  /\ MaxDbFaults \in Nat
  /\ MaxCrashes \in Nat

ASSUME SentinelAssumption == NoKey \notin Keys /\ NoRow \notin Row

VARIABLES
  links,      \* the links table: LinkIds -> Row or NoRow
  files,      \* keys that storage holds
  issued,     \* keys generateStorageKey has returned
  uploads,    \* keys a browser has uploaded and not yet submitted
  nextLink,   \* the id the next created link will get
  request,    \* Clients -> the service call under way
  gc,         \* the run of processCleanup under way
  deletions,  \* keys of the file_deletion jobs in the memory queue
  now,        \* Date.now()
  faults,     \* faults that may still happen
  doomed,     \* history: links somebody has had a reason to remove
  replaced    \* history: keys that have taken part in a replacement

vars == <<links, files, issued, uploads, nextLink, request, gc, deletions,
          now, faults, doomed, replaced>>

Victim == [link : LinkIds, key : Keys]

Pcs == {"idle", "create", "create_cleanup", "update", "unlink_old", "trash",
        "restore", "purge_file", "purge_row"}

Request == [pc : Pcs, link : LinkIds \cup {0}, old : Keys \cup {NoKey},
            new : Keys \cup {NoKey}, exp : 0..(MaxTime + 1)]

GcRun == [pc : {"idle", "select", "unlink", "fallback"}, cutoff : Int,
          total : Nat, offset : Nat, batch : SUBSET Victim,
          done : SUBSET Victim, failed : SUBSET Victim]

Idle == [pc |-> "idle", link |-> 0, old |-> NoKey, new |-> NoKey, exp |-> 0]

GcIdle == [pc |-> "idle", cutoff |-> 0, total |-> 0, offset |-> 0,
           batch |-> {}, done |-> {}, failed |-> {}]

-----------------------------------------------------------------------------
(* The table *)

\* findByIdIncludingDeleted and findById: the row is there (and not trashed).
Exists(l) == links[l] # NoRow
IsActive(l) == Exists(l) /\ links[l].deleted = 0

ExpiredRow(row) == row.expires # 0 /\ row.expires < now
PastRetention(row, cutoff) == row.deleted # 0 /\ row.deleted < cutoff

\* Mutant: a null expiry compares as a date in the past.
MutGarbageNullExpiry(cutoff) ==
  {l \in LinkIds : Exists(l) /\ \/ links[l].expires < now
                                \/ PastRetention(links[l], cutoff)}

\* Mutant: the two criteria are joined with AND.
MutGarbageBoth(cutoff) ==
  {l \in LinkIds : Exists(l) /\ ExpiredRow(links[l])
                             /\ PastRetention(links[l], cutoff)}

\* The rows findGarbage and countGarbage select.
Garbage(cutoff) ==
  {l \in LinkIds : Exists(l) /\ \/ ExpiredRow(links[l])
                                \/ PastRetention(links[l], cutoff)}

\* ORDER BY created_at LIMIT BatchSize OFFSET offset, as {link, filename}.
FindGarbage(cutoff, offset) ==
  LET older(l) == Cardinality({m \in Garbage(cutoff) : m < l})
  IN  {[link |-> l, key |-> links[l].file] :
         l \in {m \in Garbage(cutoff) : /\ offset <= older(m)
                                        /\ older(m) < offset + BatchSize}}

Spend(kind) == faults[kind] > 0 /\ faults' = [faults EXCEPT ![kind] = @ - 1]

\* storageService.delete: it answers false and does not throw when the
\* provider fails, and no caller looks at the answer.
DeleteFile(k) ==
  \/ files' = files \ {k} /\ UNCHANGED faults
  \/ k \in files /\ Spend("storage") /\ UNCHANGED files

Begin(c, call) == request[c] = Idle /\ request' = [request EXCEPT ![c] = call]
Goto(c, pc) == request' = [request EXCEPT ![c].pc = pc]
Finish(c) == request' = [request EXCEPT ![c] = Idle]

-----------------------------------------------------------------------------
(* History: what the properties remember *)

\* What a link owner is told: a link goes when it has expired or has been in
\* the trash for longer than the retention period.
Due(l) ==
  /\ Exists(l)
  /\ \/ links[l].expires # 0 /\ links[l].expires < now
     \/ links[l].deleted # 0 /\ links[l].deleted < now - Retention

\* Who has a reason to remove a link: it is due, or its permanent deletion
\* has been asked for.
Reasons ==
  {l \in LinkIds : Due(l)} \cup
  {request[c].link : c \in {d \in Clients : request[d].pc = "purge_file"}}

\* The keys of a replacement under way: the file it brings, the file it saw.
Swapping ==
  UNION {{request[c].new, request[c].old} :
           c \in {d \in Clients : request[d].pc = "update" /\
                                 request[d].new # NoKey}}

\* The uploads that a rejected replacement has dropped.
Dropped ==
  {k \in uploads \ uploads' : \A c \in Clients : request'[c].new # k}

History ==
  /\ doomed' = doomed \cup Reasons'
  /\ replaced' = replaced \cup Swapping' \cup Dropped

-----------------------------------------------------------------------------
(* Uploads and createLink *)

\* The browser asks for an upload and sends the bytes; the file is complete
\* in storage before the form is submitted with its key.
Upload(k) ==
  /\ k \in Keys \ issued
  /\ issued' = issued \cup {k}
  /\ files' = files \cup {k}
  /\ uploads' = uploads \cup {k}
  /\ UNCHANGED <<links, nextLink, request, gc, deletions, now, faults>>
  /\ History

\* Mutant: a form that was submitted can be submitted again with its key.
MutCreateLinkTwice(c, k, e) ==
  /\ nextLink <= MaxLinks
  /\ k \in uploads
  /\ Begin(c, [pc |-> "create", link |-> nextLink, old |-> NoKey,
               new |-> k, exp |-> e])
  /\ nextLink' = nextLink + 1
  /\ UNCHANGED <<links, files, issued, uploads, gc, deletions, now, faults>>
  /\ History

\* The form is submitted with the key of its upload; a key is submitted once.
CreateLink(c, k, e) ==
  /\ nextLink <= MaxLinks
  /\ k \in uploads
  /\ Begin(c, [pc |-> "create", link |-> nextLink, old |-> NoKey,
               new |-> k, exp |-> e])
  /\ uploads' = uploads \ {k}
  /\ nextLink' = nextLink + 1
  /\ UNCHANGED <<links, files, issued, gc, deletions, now, faults>>
  /\ History

InsertLink(c) ==
  /\ request[c].pc = "create"
  /\ links' = [links EXCEPT ![request[c].link] =
                 [file |-> request[c].new, expires |-> request[c].exp,
                  deleted |-> 0]]
  /\ Finish(c)
  /\ UNCHANGED <<files, issued, uploads, nextLink, gc, deletions, now, faults>>
  /\ History

\* Mutant: createLink rethrows without deleting the file.
MutInsertFailsForgets(c) ==
  /\ request[c].pc = "create"
  /\ Spend("db")
  /\ Finish(c)
  /\ UNCHANGED <<links, files, issued, uploads, nextLink, gc, deletions, now>>
  /\ History

InsertFails(c) ==
  /\ request[c].pc = "create"
  /\ Spend("db")
  /\ Goto(c, "create_cleanup")
  /\ UNCHANGED <<links, files, issued, uploads, nextLink, gc, deletions, now>>
  /\ History

\* The catch of createLink deletes the file before it rethrows.
CleanupUpload(c) ==
  /\ request[c].pc = "create_cleanup"
  /\ DeleteFile(request[c].new)
  /\ Finish(c)
  /\ UNCHANGED <<links, issued, uploads, nextLink, gc, deletions, now>>
  /\ History

-----------------------------------------------------------------------------
(* updateLink *)

UpdateLink(c, l, k, e) ==
  /\ k \in uploads \cup {NoKey}
  /\ IsActive(l)
  /\ Begin(c, [pc |-> "update", link |-> l, old |-> links[l].file,
               new |-> k, exp |-> e])
  /\ uploads' = uploads \ {k}
  /\ UNCHANGED <<links, files, issued, nextLink, gc, deletions, now, faults>>
  /\ History

\* The link is gone or trashed: 404, and the uploaded file stays behind.
UpdateNotFound(l, k) ==
  /\ k \in uploads
  /\ l < nextLink /\ ~IsActive(l)
  /\ uploads' = uploads \ {k}
  /\ UNCHANGED <<links, files, issued, nextLink, request, gc, deletions, now,
                 faults>>
  /\ History

\* The columns the transaction sets; it sets nothing when the row is gone.
Updated(row, call) ==
  [row EXCEPT !.file = IF call.new = NoKey THEN @ ELSE call.new,
              !.expires = IF call.exp = Keep THEN @ ELSE call.exp]

\* Mutant: the row is saved whole, and inserted when it is not there.
MutWriteUpdateUpserts(c) ==
  /\ request[c].pc = "update"
  /\ LET l == request[c].link
         row == IF Exists(l) THEN links[l]
                ELSE [file |-> request[c].old, expires |-> 0, deleted |-> 0]
     IN  links' = [links EXCEPT ![l] = Updated(row, request[c])]
  /\ IF request[c].new = NoKey THEN Finish(c) ELSE Goto(c, "unlink_old")
  /\ UNCHANGED <<files, issued, uploads, nextLink, gc, deletions, now, faults>>
  /\ History

WriteUpdate(c) ==
  /\ request[c].pc = "update"
  /\ links' = [l \in LinkIds |->
                 IF l = request[c].link /\ Exists(l)
                   THEN Updated(links[l], request[c]) ELSE links[l]]
  /\ IF request[c].new = NoKey THEN Finish(c) ELSE Goto(c, "unlink_old")
  /\ UNCHANGED <<files, issued, uploads, nextLink, gc, deletions, now, faults>>
  /\ History

\* Only after the transaction: the key read before it is deleted.
UnlinkOld(c) ==
  /\ request[c].pc = "unlink_old"
  /\ DeleteFile(request[c].old)
  /\ Finish(c)
  /\ UNCHANGED <<links, issued, uploads, nextLink, gc, deletions, now>>
  /\ History

-----------------------------------------------------------------------------
(* deleteLink, restoreLink, permanentlyDeleteLink *)

OnLink(pc, l) == [Idle EXCEPT !.pc = pc, !.link = l]

TrashLink(c, l) ==
  /\ IsActive(l)
  /\ Begin(c, OnLink("trash", l))
  /\ UNCHANGED <<links, files, issued, uploads, nextLink, gc, deletions, now,
                 faults>>
  /\ History

RestoreLink(c, l) ==
  /\ Exists(l)
  /\ Begin(c, OnLink("restore", l))
  /\ UNCHANGED <<links, files, issued, uploads, nextLink, gc, deletions, now,
                 faults>>
  /\ History

\* UPDATE links SET deleted_at WHERE id: no second look at the row.
SetDeleted(l, stamp) ==
  links' = [m \in LinkIds |-> IF m = l /\ Exists(m)
                                THEN [links[m] EXCEPT !.deleted = stamp]
                                ELSE links[m]]

WriteTrash(c) ==
  /\ request[c].pc = "trash"
  /\ SetDeleted(request[c].link, now)
  /\ Finish(c)
  /\ UNCHANGED <<files, issued, uploads, nextLink, gc, deletions, now, faults>>
  /\ History

WriteRestore(c) ==
  /\ request[c].pc = "restore"
  /\ SetDeleted(request[c].link, 0)
  /\ Finish(c)
  /\ UNCHANGED <<files, issued, uploads, nextLink, gc, deletions, now, faults>>
  /\ History

PurgeLink(c, l) ==
  /\ Exists(l)
  /\ Begin(c, [OnLink("purge_file", l) EXCEPT !.old = links[l].file])
  /\ UNCHANGED <<links, files, issued, uploads, nextLink, gc, deletions, now,
                 faults>>
  /\ History

PurgeFile(c) ==
  /\ request[c].pc = "purge_file"
  /\ DeleteFile(request[c].old)
  /\ Goto(c, "purge_row")
  /\ UNCHANGED <<links, issued, uploads, nextLink, gc, deletions, now>>
  /\ History

PurgeRow(c) ==
  /\ request[c].pc = "purge_row"
  /\ links' = [links EXCEPT ![request[c].link] = NoRow]
  /\ Finish(c)
  /\ UNCHANGED <<files, issued, uploads, nextLink, gc, deletions, now, faults>>
  /\ History

\* Mutant: the old file is deleted in a finally.
MutTransactionFailsUnlinks(c) ==
  /\ request[c].pc \in {"update", "trash", "restore", "purge_row"}
  /\ Spend("db")
  /\ IF request[c].pc = "update" /\ request[c].new # NoKey
       THEN Goto(c, "unlink_old") ELSE Finish(c)
  /\ UNCHANGED <<links, files, issued, uploads, nextLink, gc, deletions, now>>
  /\ History

\* The transaction of an update, trash, restore or purge fails: the error
\* leaves the service, with no compensation.
TransactionFails(c) ==
  /\ request[c].pc \in {"update", "trash", "restore", "purge_row"}
  /\ Spend("db")
  /\ Finish(c)
  /\ UNCHANGED <<links, files, issued, uploads, nextLink, gc, deletions, now>>
  /\ History

-----------------------------------------------------------------------------
(* processCleanup *)

GcStart ==
  /\ gc = GcIdle
  /\ Garbage(now - Retention) # {}
  /\ gc' = [GcIdle EXCEPT !.pc = "select", !.cutoff = now - Retention,
                          !.total = Cardinality(Garbage(now - Retention))]
  /\ UNCHANGED <<links, files, issued, uploads, nextLink, request, deletions,
                 now, faults>>
  /\ History

GcSelect ==
  /\ gc.pc = "select"
  /\ LET batch == IF gc.offset < MaxItems /\ gc.offset < gc.total
                    THEN FindGarbage(gc.cutoff, gc.offset) ELSE {}
     IN  gc' = IF batch = {} THEN GcIdle
               ELSE [gc EXCEPT !.pc = "unlink", !.batch = batch]
  /\ UNCHANGED <<links, files, issued, uploads, nextLink, request, deletions,
                 now, faults>>
  /\ History

\* A query of the run throws; the cron callback logs it and waits its turn.
GcQueryFails ==
  /\ gc.pc = "select"
  /\ Spend("db")
  /\ gc' = GcIdle
  /\ UNCHANGED <<links, files, issued, uploads, nextLink, request, deletions,
                 now>>
  /\ History

\* The deletions of a chunk run in parallel; each one settles.
GcUnlink(v) ==
  /\ gc.pc = "unlink"
  /\ v \in gc.batch \ gc.done
  /\ DeleteFile(v.key)
  /\ gc' = [gc EXCEPT !.done = @ \cup {v}]
  /\ UNCHANGED <<links, issued, uploads, nextLink, request, deletions, now>>
  /\ History

\* offset += BATCH_SIZE; a short batch was the last one.
GcNextBatch ==
  IF Cardinality(gc.batch) < BatchSize THEN GcIdle
  ELSE [gc EXCEPT !.pc = "select", !.offset = @ + BatchSize,
                  !.batch = {}, !.done = {}, !.failed = {}]

\* Mutant: the rows are deleted without waiting for the files.
MutGcDeleteRowsEarly ==
  /\ gc.pc = "unlink"
  /\ links' = [l \in LinkIds |-> IF l \in {v.link : v \in gc.batch}
                                   THEN NoRow ELSE links[l]]
  /\ gc' = GcNextBatch
  /\ UNCHANGED <<files, issued, uploads, nextLink, request, deletions, now,
                 faults>>
  /\ History

\* DELETE ... WHERE id IN the batch: nothing else is asked of the rows.
GcDeleteRows ==
  /\ gc.pc = "unlink"
  /\ gc.done = gc.batch
  /\ links' = [l \in LinkIds |-> IF l \in {v.link : v \in gc.batch}
                                   THEN NoRow ELSE links[l]]
  /\ gc' = GcNextBatch
  /\ UNCHANGED <<files, issued, uploads, nextLink, request, deletions, now,
                 faults>>
  /\ History

GcDeleteRowsFails ==
  /\ gc.pc = "unlink"
  /\ gc.done = gc.batch
  /\ Spend("db")
  /\ gc' = [gc EXCEPT !.pc = "fallback"]
  /\ UNCHANGED <<links, files, issued, uploads, nextLink, request, deletions,
                 now>>
  /\ History

\* One by one after the batch delete failed; done holds the rows to do.
GcDeleteRow(v) ==
  /\ gc.pc = "fallback"
  /\ v \in gc.done
  /\ gc' = [gc EXCEPT !.done = @ \ {v}]
  /\ links' = [links EXCEPT ![v.link] = NoRow]
  /\ UNCHANGED <<files, issued, uploads, nextLink, request, deletions, now,
                 faults>>
  /\ History

GcDeleteRowFails(v) ==
  /\ gc.pc = "fallback"
  /\ v \in gc.done
  /\ Spend("db")
  /\ gc' = [gc EXCEPT !.done = @ \ {v}, !.failed = @ \cup {v}]
  /\ UNCHANGED <<links, files, issued, uploads, nextLink, request, deletions,
                 now>>
  /\ History

\* What failed becomes a file_deletion job for the key, which does not
\* touch the row.
GcQueueRetries ==
  /\ gc.pc = "fallback"
  /\ gc.done = {}
  /\ deletions' = deletions \cup {v.key : v \in gc.failed}
  /\ gc' = GcNextBatch
  /\ UNCHANGED <<links, files, issued, uploads, nextLink, request, now, faults>>
  /\ History

FileDeletionJob(k) ==
  /\ k \in deletions
  /\ DeleteFile(k)
  /\ deletions' = deletions \ {k}
  /\ UNCHANGED <<links, issued, uploads, nextLink, request, gc, now>>
  /\ History

-----------------------------------------------------------------------------
(* The environment *)

Tick ==
  /\ now < MaxTime
  /\ now' = now + 1
  /\ UNCHANGED <<links, files, issued, uploads, nextLink, request, gc,
                 deletions, faults>>
  /\ History

\* The process dies and starts again: the table and the storage survive, the
\* calls under way, the cleanup run and the memory queue do not.
Crash ==
  /\ Spend("crash")
  /\ request' = [c \in Clients |-> Idle]
  /\ gc' = GcIdle
  /\ deletions' = {}
  /\ UNCHANGED <<links, files, issued, uploads, nextLink, now>>
  /\ History

-----------------------------------------------------------------------------
(* Specification *)

Init ==
  /\ links = [l \in LinkIds |-> NoRow]
  /\ files = {}
  /\ issued = {}
  /\ uploads = {}
  /\ nextLink = 1
  /\ request = [c \in Clients |-> Idle]
  /\ gc = GcIdle
  /\ deletions = {}
  /\ now = 1
  /\ faults = [storage |-> MaxStorageFaults, db |-> MaxDbFaults,
               crash |-> MaxCrashes]
  /\ doomed = {}
  /\ replaced = {}

ClientStep(c) ==
  \/ InsertLink(c) \/ InsertFails(c) \/ CleanupUpload(c)
  \/ WriteUpdate(c) \/ UnlinkOld(c)
  \/ WriteTrash(c) \/ WriteRestore(c)
  \/ PurgeFile(c) \/ PurgeRow(c)
  \/ TransactionFails(c)

ClientCall(c) ==
  \/ \E k \in Keys, e \in Expiries : CreateLink(c, k, e)
  \/ \E l \in LinkIds, k \in Keys \cup {NoKey}, e \in Expiries \cup {Keep} :
       UpdateLink(c, l, k, e)
  \/ \E l \in LinkIds : TrashLink(c, l) \/ RestoreLink(c, l) \/ PurgeLink(c, l)

GcStep ==
  \/ GcStart \/ GcSelect \/ GcQueryFails \/ GcDeleteRows
  \/ GcDeleteRowsFails
  \/ \E v \in Victim : GcUnlink(v) \/ GcDeleteRow(v) \/ GcDeleteRowFails(v)
  \/ GcQueueRetries

Next ==
  \/ \E k \in Keys : Upload(k) \/ FileDeletionJob(k)
  \/ \E l \in LinkIds, k \in Keys : UpdateNotFound(l, k)
  \/ \E c \in Clients : ClientCall(c) \/ ClientStep(c)
  \/ GcStep
  \/ Tick
  \/ Crash

Spec == Init /\ [][Next]_vars

\* The event loop finishes what it has begun, and the cleanup cron fires
\* again and again for as long as the process is up.
Fairness ==
  /\ \A c \in Clients : WF_vars(ClientStep(c))
  /\ WF_vars(GcStep)

FairSpec == Spec /\ Fairness

-----------------------------------------------------------------------------
(* Properties *)

\* The type of the program's own state, with what a call under way holds.
ProgramTypeOK ==
  /\ links \in [LinkIds -> Row \cup {NoRow}]
  /\ files \subseteq issued
  /\ issued \subseteq Keys
  /\ uploads \subseteq issued
  /\ nextLink \in 1..(MaxLinks + 1)
  /\ request \in [Clients -> Request]
  /\ \A c \in Clients :
       /\ request[c].pc # "idle" => request[c].link \in LinkIds
       /\ request[c].pc \in {"create", "create_cleanup"} =>
            request[c].new \in Keys /\ request[c].exp \in Stamp
       /\ request[c].pc = "update" => request[c].old \in Keys
  /\ gc \in GcRun
  /\ deletions \subseteq Keys
  /\ now \in Time
  /\ faults \in [{"storage", "db", "crash"} -> Nat]

\* Every variable has its type, and a call under way names the row and the keys
\* its next step needs.
TypeOK ==
  /\ ProgramTypeOK
  /\ doomed \subseteq LinkIds
  /\ replaced \subseteq Keys

\* A link that has never been due for removal and that nobody has asked to
\* purge can be served: its file is in storage, whatever updates,
\* cleanup runs, failures and restarts have come between.
FileLostForAReason ==
  \A l \in LinkIds : Exists(l) /\ l \notin doomed => links[l].file \in files

\* No step of any actor removes the row of a link that has never been due for
\* removal and that nobody has asked to purge.
RowRemovedForAReason ==
  [][\A l \in LinkIds : Exists(l) /\ links'[l] = NoRow => l \in doomed]_vars

\* A removed link is gone for good: a call that read the row before it was
\* removed does not bring it back when it writes.
NeverResurrected ==
  [][\A l \in doomed : links[l] = NoRow => links'[l] = NoRow]_vars

\* Some call or cleanup run has deleted the file of l and still has to delete
\* its row.
BeingRemoved(l) ==
  \/ \E c \in Clients : request[c].pc = "purge_row" /\ request[c].link = l
  \/ l \in {v.link : v \in gc.done}

\* Somebody can still reach the file: a browser that will submit it, a row, a
\* call or a cleanup run that is going to delete it.
Reachable(k) ==
  \/ k \in uploads
  \/ \E l \in LinkIds : Exists(l) /\ links[l].file = k
  \/ \E c \in Clients : k \in {request[c].new, request[c].old}
  \/ \E v \in gc.batch \ gc.done : v.key = k

\* updateLink "handles storage cleanup for replaced files"
\* (services/linkService.js:224): a step that gives a row another file leaves
\* a call behind that is going to delete the file the row had.
ReplacedFileIsCleanedUp ==
  [][\A l \in LinkIds :
       Exists(l) /\ links'[l] # NoRow /\ links'[l] # links[l]
       /\ links'[l].file # links[l].file =>
         \E c \in Clients : /\ request'[c].pc = "unlink_old"
                            /\ request'[c].old = links[l].file]_vars

\* Cleanup removes "links that are Expired OR Soft-Deleted past the retention
\* period" (services/linkService.js:426): a row the collector deletes is due
\* when it is deleted, not only when the run selected it.
CollectorRemovesWhatIsDue ==
  [][\A l \in LinkIds : gc' # gc /\ Exists(l) /\ links'[l] = NoRow => Due(l)]_vars

\* findGarbage: "Process oldest first for fairness"
\* (repositories/linkRepository.js:256): the collector takes up no link while an
\* older one that is garbage at that moment is left waiting.
OldestFirst ==
  [][gc.pc = "select" /\ gc'.pc = "unlink" =>
       \A v \in gc'.batch, m \in Garbage(gc.cutoff) :
         m < v.link => m \in {u.link : u \in gc'.batch}]_vars

\* "Automatic retry mechanism for failed file deletions" (readme.md:31): after
\* a deletion that storage refused, a file_deletion job is queued.  The other
\* place a retry could be noted, failed_file_deletions, has its only insert
\* in the catch of a call that does not throw.
FailedDeletionIsRetried ==
  faults.storage < MaxStorageFaults ~> deletions # {}

\* Every link that is due is removed, or made undue by its owner: it is never
\* left in the table for ever, although a run pages past rows it did not see.
GarbageIsCollected == \A l \in LinkIds : []<>~Due(l)

-----------------------------------------------------------------------------
(* The inductive invariant behind the safety properties: at every moment a   *)
(* key has one holder, and whoever is going to delete a file holds a key     *)
(* that no kept link can come to own.                                        *)

\* A call holds the new file k and has not yet put it in a row.
Carries(c, k) ==
  request[c].pc \in {"create", "create_cleanup", "update"} /\ request[c].new = k

\* k has left the browser and every call that carried it: no row gets it again.
Settled(k) == k \in issued /\ k \notin uploads /\ \A c \in Clients : ~Carries(c, k)

\* No row but that of l has the file k.
OnlyOf(k, l) == \A m \in LinkIds : Exists(m) /\ links[m].file = k => m = l

\* A file that a form, a create or an update has yet to use is in storage.
UploadsComplete ==
  /\ uploads \subseteq files
  /\ \A c \in Clients :
       request[c].pc \in {"create", "update"} /\ request[c].new # NoKey =>
         request[c].new \in files

\* A new file is carried by at most one call, and by no browser any more.
NewKeysHaveOneHolder ==
  /\ \A c \in Clients : \A k \in Keys :
       Carries(c, k) => k \in issued \ uploads
  /\ \A c, d \in Clients : \A k \in Keys :
       Carries(c, k) /\ Carries(d, k) => c = d

\* No two rows have the same file, and nobody is about to write it again.
RowsOwnTheirFiles ==
  \A l \in LinkIds :
    Exists(l) => Settled(links[l].file) /\ OnlyOf(links[l].file, l)

\* A call deletes the file of its own row or one no row has any more, and a
\* purge works on a link whose removal has been asked for.
CallsDeleteTheirOwn ==
  \A c \in Clients :
    LET call == request[c]
    IN  /\ call.pc = "update" => Settled(call.old) /\ OnlyOf(call.old, call.link)
        /\ call.pc = "unlink_old" =>
             /\ Settled(call.old)
             /\ \A m \in LinkIds : Exists(m) => links[m].file # call.old
        /\ call.pc = "purge_file" =>
             Settled(call.old) /\ OnlyOf(call.old, call.link)
        /\ call.pc \in {"purge_file", "purge_row"} => call.link \in doomed

\* The collector and the retry jobs only delete files of doomed links.
CollectorDeletesDoomed ==
  /\ gc.pc # "idle" => gc.cutoff <= now - Retention
  /\ \A v \in gc.batch \cup gc.done \cup gc.failed :
       Settled(v.key) /\ OnlyOf(v.key, v.link) /\ v.link \in doomed
  /\ \A k \in deletions :
       /\ Settled(k)
       /\ \A m \in LinkIds : Exists(m) /\ links[m].file = k => m \in doomed

\* History misses no moment at which a link is due.
DueIsDoomed == \A l \in LinkIds : Due(l) => l \in doomed

\* A create works on an id without a row or a past, and on one of its own.
NewLinksAreNew ==
  /\ \A l \in LinkIds : Exists(l) \/ l \in doomed => l < nextLink
  /\ \A c \in Clients :
       request[c].pc \in {"create", "create_cleanup"} =>
         /\ request[c].link < nextLink
         /\ request[c].link \notin doomed
         /\ ~Exists(request[c].link)
  /\ \A c, d \in Clients :
       /\ request[c].pc \in {"create", "create_cleanup"}
       /\ request[d].pc \in {"create", "create_cleanup"}
       /\ request[c].link = request[d].link
       => c = d

\* The conjunction that every step preserves.
IInv ==
  /\ TypeOK
  /\ UploadsComplete
  /\ NewKeysHaveOneHolder
  /\ RowsOwnTheirFiles
  /\ CallsDeleteTheirOwn
  /\ CollectorDeletesDoomed
  /\ DueIsDoomed
  /\ NewLinksAreNew
  /\ FileLostForAReason

-----------------------------------------------------------------------------
(* What the owner of a link sees of all this.                                *)

\* Where the link is: without a row it has never had one, or is gone.
Phase(l) ==
  CASE Exists(l) /\ l \notin doomed -> "kept"
    [] Exists(l) /\ l \in doomed -> "condemned"
    [] ~Exists(l) /\ l \in doomed -> "gone"
    [] OTHER -> "new"

\* The file that the link's page can serve.
Content(l) ==
  IF Exists(l) /\ links[l].file \in files THEN links[l].file ELSE NoKey

UploadStage(k) ==
  CASE k \notin issued -> "none"
    [] k \in issued /\ Settled(k) -> "spent"
    [] OTHER -> "waiting"

Promised == INSTANCE LinkPromise WITH
  Links <- LinkIds,
  phase <- [l \in LinkIds |-> Phase(l)],
  content <- [l \in LinkIds |-> Content(l)],
  upload <- [k \in Keys |-> UploadStage(k)],
  reasons <- Reasons

\* The service keeps its promise to the owners of links: a link is served until
\* there is a reason to remove it and is not seen again after, and an upload is
\* given to one link only, in spite of stale reads, failures and restarts.
KeepsLinkPromise == Promised!Promise
=============================================================================
