-------------------------- MODULE BatchOperations --------------------------
(***************************************************************************)
(* Batch operations on links: the admin end points queue one job per link  *)
(* (services/batchService.js), the job handlers carry them out             *)
(* (jobs/batchJobHandlers.js), and the service offers the same work done   *)
(* synchronously.  The queue underneath is BullQueue: jobs run side by     *)
(* side, are tried again when they throw, and again when their process     *)
(* died.                                                                   *)
(*                                                                         *)
(* A call of linkService is its lookup, for a force delete the deletion of *)
(* the file, which the storage may refuse, and its transaction: a step     *)
(* each, between which other jobs and the synchronous call go on.          *)
(***************************************************************************)
EXTENDS BullQueue

\* A setting also bounds which batches are asked for: of the queue, and synchronously.
CONSTANTS
  Links,
  Owned,      \* links of the user whose session the requests have
  MaxBatch    \* MAX_BATCH_SIZE

ASSUME BatchAssumption ==
  /\ Owned \subseteq Links
  /\ MaxBatch \in Nat \ {0}
  /\ \A s \in Settings : s.syncs \subseteq SUBSET Links /\ s.batches \subseteq SUBSET Links
  /\ None \notin Links
  /\ IsFiniteSet(Links)
  /\ {c.type : c \in Calls} \subseteq BatchTypes

\* Where a handler is: its own lookup, the lookup of the service, the deletion of the
\* file, and the transaction.
HandlerSteps == {"idle", "fetch", "act", "unlink", "write", "done", "throw"}

\* A batch request and a synchronous call under way.
Request == [type : BatchTypes, rest : SUBSET Links, ids : SUBSET Jobs, asked : Nat]
Synchronous == [type : BatchTypes, rest : SUBSET Links, at : Links \cup {None},
                step : {"fetch", "act", "unlink", "write"},
                success : Nat, failed : Nat, asked : Nat]

ASSUME BatchNoneAssumption == None \notin Request \cup Synchronous

VARIABLES
  row,      \* the links: "active", "trashed" or "gone"
  file,     \* their files: "stored", "gone", or "left" by a deletion that failed
  request,  \* the batch request in progress
  link,     \* the link of a job
  step,     \* where the handler of a job is
  acted,    \* history: how often the job changed its link
  sync      \* the synchronous call in progress

batchVars == <<row, file, request, link, step, acted, sync>>
allVars == <<vars, batchVars>>

\* What a type does, and the rows its lookups find.
Effect(type) ==
  CASE type = "batch_soft_delete" -> "trashed"
    [] type = "batch_restore" -> "active"
    [] type = "batch_force_delete" -> "gone"

Exists(type, l) == row[l] \in
  (IF type = "batch_soft_delete" THEN {"active"} ELSE {"active", "trashed"})

\* Mutant: the session is not handed on to the lookup.
MutFinds(type, l) == Exists(type, l)

\* getLinkById and getLinkByIdIncludingDeleted, for the session of the job.
Finds(type, l) == Exists(type, l) /\ l \in Owned

-----------------------------------------------------------------------------
(* Queueing a batch *)

\* The end point, and again the service, refuse an empty or too large batch.
BatchRequest(type, links) ==
  /\ request = None
  /\ links # {} /\ Cardinality(links) <= MaxBatch
  /\ request' = [type |-> type, rest |-> links, ids |-> {},
                 asked |-> Cardinality(links)]
  /\ UNCHANGED <<vars, row, file, link, step, acted, sync>>

\* Each job is added with an await of its own.  addJob falls back and does not
\* throw, so a link is never reported as failed to queue, and the end point's
\* own fallback to the synchronous call is never taken.
QueueNext(j, l) ==
  /\ request # None /\ l \in request.rest
  /\ \E c \in Calls :
       /\ c.type = request.type
       /\ \/ AddToMemory(j, c) \/ AddToRedis(j, c)
          \/ \E stored \in BOOLEAN : AddFails(j, c, stored)
  /\ link' = [link EXCEPT ![j] = l]
  /\ request' = [request EXCEPT !.rest = @ \ {l}, !.ids = @ \cup {j}]
  /\ UNCHANGED <<row, file, step, acted, sync>>

RequestEnds ==
  /\ request # None /\ request.rest = {}
  /\ request' = None
  /\ UNCHANGED <<vars, row, file, link, step, acted, sync>>

-----------------------------------------------------------------------------
(* The handlers *)

JobStarts(j) ==
  /\ Start(j) \/ MemoryStart(j)
  /\ step' = [step EXCEPT ![j] = IF ran'[j] > ran[j] THEN "fetch" ELSE @]
  /\ UNCHANGED <<row, file, request, link, acted, sync>>

JobFetches(j) ==
  /\ step[j] = "fetch"
  /\ step' = [step EXCEPT ![j] =
                IF Finds(call[j].type, link[j]) THEN "act" ELSE "throw"]
  /\ UNCHANGED <<vars, row, file, request, link, acted, sync>>

\* What follows the lookup of the service.
AfterLookup(type) == IF type = "batch_force_delete" THEN "unlink" ELSE "write"

\* The service looks the link up once more.
JobLooksAgain(j) ==
  /\ step[j] = "act"
  /\ step' = [step EXCEPT ![j] =
                IF Exists(call[j].type, link[j]) THEN AfterLookup(call[j].type) ELSE "throw"]
  /\ UNCHANGED <<vars, row, file, request, link, acted, sync>>

\* permanentlyDeleteLink ignores the answer of the storage, and catches what it throws.
StorageDeletes(l) ==
  \/ file' = [file EXCEPT ![l] = "gone"] /\ UNCHANGED faults
  \/ /\ faults < setting.faults /\ faults' = faults + 1
     /\ file' = [file EXCEPT ![l] = IF @ = "gone" THEN @ ELSE "left"]

JobUnlinks(j) ==
  /\ step[j] = "unlink"
  /\ StorageDeletes(link[j])
  /\ step' = [step EXCEPT ![j] = "write"]
  /\ UNCHANGED <<redisVars, localVars, ran, crashes, row, request, link, acted, sync>>

\* Rows are written by id: what was purged since the lookup stays so.
Written(type, l) == IF row[l] = "gone" THEN row ELSE [row EXCEPT ![l] = Effect(type)]

\* Mutant: an audit entry that cannot be written fails the job.
MutJobWrites(j) ==
  /\ step[j] = "write"
  /\ row' = Written(call[j].type, link[j])
  /\ acted' = [acted EXCEPT ![j] = IF row[link[j]] = "gone" THEN @ ELSE @ + 1]
  /\ step' \in {[step EXCEPT ![j] = "done"], [step EXCEPT ![j] = "throw"]}
  /\ UNCHANGED <<vars, file, request, link, sync>>

\* The audit entry that follows the transaction never throws: AuditService.log logs
\* its failure and returns.
JobWrites(j) ==
  /\ step[j] = "write"
  /\ row' = Written(call[j].type, link[j])
  /\ acted' = [acted EXCEPT ![j] = IF row[link[j]] = "gone" THEN @ ELSE @ + 1]
  /\ step' = [step EXCEPT ![j] = "done"]
  /\ UNCHANGED <<vars, file, request, link, sync>>

\* A lookup or a transaction that throws.  The file of a force delete may be gone.
JobQueryFails(j) ==
  /\ step[j] \in {"fetch", "act", "write"}
  /\ faults < setting.faults /\ faults' = faults + 1
  /\ step' = [step EXCEPT ![j] = "throw"]
  /\ UNCHANGED <<redisVars, localVars, ran, crashes, row, file, request, link, acted, sync>>

JobEnds(j) ==
  /\ \/ step[j] = "done" /\ (Complete(j) \/ MemoryComplete(j))
     \/ step[j] = "throw" /\ (Fail(j) \/ MemoryFail(j))
  /\ step' = [step EXCEPT ![j] = "idle"]
  /\ UNCHANGED <<row, file, request, link, acted, sync>>

JobStalled(j) ==
  /\ Stall(j)
  /\ UNCHANGED batchVars

-----------------------------------------------------------------------------
(* The synchronous calls *)

SyncCall(type, links) ==
  /\ sync = None
  /\ links # {}
  /\ sync' = [type |-> type, rest |-> links, at |-> None, step |-> "fetch",
              success |-> 0, failed |-> 0, asked |-> Cardinality(links)]
  /\ UNCHANGED <<vars, row, file, request, link, step, acted>>

SyncFetches(l) ==
  /\ sync # None /\ sync.at = None /\ l \in sync.rest
  /\ sync' = [sync EXCEPT !.rest = @ \ {l},
                          !.at = IF Finds(sync.type, l) THEN l ELSE None,
                          !.step = IF Finds(sync.type, l) THEN "act" ELSE "fetch",
                          !.failed = IF Finds(sync.type, l) THEN @ ELSE @ + 1]
  /\ UNCHANGED <<vars, row, file, request, link, step, acted>>

\* A link that fails is counted, and the loop goes on.
SyncFailed == [sync EXCEPT !.at = None, !.step = "fetch", !.failed = @ + 1]

SyncLooksAgain ==
  /\ sync # None /\ sync.step = "act"
  /\ sync' = IF Exists(sync.type, sync.at)
               THEN [sync EXCEPT !.step = AfterLookup(sync.type)] ELSE SyncFailed
  /\ UNCHANGED <<vars, row, file, request, link, step, acted>>

SyncUnlinks ==
  /\ sync # None /\ sync.step = "unlink"
  /\ StorageDeletes(sync.at)
  /\ sync' = [sync EXCEPT !.step = "write"]
  /\ UNCHANGED <<redisVars, localVars, ran, crashes, row, request, link, step, acted>>

SyncWrites ==
  /\ sync # None /\ sync.step = "write"
  /\ row' = Written(sync.type, sync.at)
  /\ sync' = [sync EXCEPT !.at = None, !.step = "fetch", !.success = @ + 1]
  /\ UNCHANGED <<vars, file, request, link, step, acted>>

SyncQueryFails ==
  /\ sync # None /\ sync.step \in {"act", "write"}
  /\ faults < setting.faults /\ faults' = faults + 1
  /\ sync' = SyncFailed
  /\ UNCHANGED <<redisVars, localVars, ran, crashes, row, file, request, link, step, acted>>

SyncEnds ==
  /\ sync # None /\ sync.at = None /\ sync.rest = {}
  /\ sync' = None
  /\ UNCHANGED <<vars, row, file, request, link, step, acted>>

-----------------------------------------------------------------------------
(* Specification *)

\* Handlers and calls under way end with the process; the table stays.
BatchCrash ==
  /\ Crash
  /\ step' = [j \in Jobs |-> "idle"]
  /\ request' = None /\ sync' = None
  /\ UNCHANGED <<row, file, link, acted>>

BatchInit ==
  /\ Init
  /\ row \in [Links -> {"active", "trashed"}]
  /\ file = [l \in Links |-> "stored"]
  /\ request = None /\ sync = None
  /\ link = [j \in Jobs |-> None]
  /\ step = [j \in Jobs |-> "idle"]
  /\ acted = [j \in Jobs |-> 0]

CallTypes == {c.type : c \in Calls}

BatchNext ==
  \/ \E broken \in SUBSET QueueNames : Register(broken) /\ UNCHANGED batchVars
  \/ \E type \in CallTypes, links \in setting.batches : BatchRequest(type, links)
  \/ \E j \in Jobs, l \in Links : QueueNext(j, l)
  \/ RequestEnds
  \/ \E j \in Jobs :
       \/ JobStarts(j) \/ JobFetches(j) \/ JobLooksAgain(j) \/ JobUnlinks(j)
       \/ JobWrites(j) \/ JobQueryFails(j) \/ JobEnds(j) \/ JobStalled(j)
  \/ \E type \in CallTypes, links \in setting.syncs : SyncCall(type, links)
  \/ \E l \in Links : SyncFetches(l)
  \/ SyncLooksAgain \/ SyncUnlinks \/ SyncWrites \/ SyncQueryFails \/ SyncEnds
  \/ \E q \in QueueNames : CloseWorker(q) /\ UNCHANGED batchVars
  \/ (WorkerClosed \/ CloseQueues) /\ UNCHANGED batchVars
  \/ BatchCrash

BatchSpec == BatchInit /\ [][BatchNext]_allVars

-----------------------------------------------------------------------------
(* Properties *)

\* Every variable has its type.
BatchTypeOK ==
  /\ row \in [Links -> {"active", "trashed", "gone"}]
  /\ file \in [Links -> {"stored", "left", "gone"}]
  /\ request \in Request \cup {None} /\ sync \in Synchronous \cup {None}
  /\ link \in [Jobs -> Links \cup {None}]
  /\ step \in [Jobs -> HandlerSteps]
  /\ acted \in [Jobs -> Nat]

\* Whoever carries out a batch, now or in a later try, changes no link of another
\* user, and neither a late restore nor a repeated job brings back a purged one.
LinksChangeByRight ==
  [][\A l \in Links : row'[l] # row[l] => l \in Owned /\ row[l] # "gone"]_allVars

\* A job changes the row of its link once, and once more at most for every time its
\* process died under it: a try that threw has written nothing.  (A force delete that
\* threw may have deleted the file.)
WorkIsNotRepeated ==
  \A j \in Jobs : acted[j] <= 1 + (IF bull[j] = None THEN 0 ELSE bull[j].stalls)

Runs(copy) == copy # None /\ copy.state = "active"
HasEnded(copy) == copy # None /\ copy.state = "completed"

\* What is said of a job at its end is true of its link.  A job that is given up, after
\* all its tries and without its process having died, has written nothing, although a
\* force delete may have deleted the file.  A job that is done has written its row, or
\* the row was purged under it; and a force delete that is done leaves no row, nor a file
\* that the storage did not refuse to delete.
OutcomesAreTrue ==
  \A j \in Jobs :
    /\ bull[j] # None /\ bull[j].state = "failed" /\ bull[j].stalls = 0 => acted[j] = 0
    /\ HasEnded(bull[j]) \/ HasEnded(mem[j]) =>
         /\ acted[j] > 0 \/ row[link[j]] = "gone"
         /\ call[j].type = "batch_force_delete" =>
              row[link[j]] = "gone" /\ file[link[j]] # "stored"

\* Each link of a request has one job of its own by the time it is answered,
\* and each link of a synchronous call is counted once, whatever failed before.
EveryLinkIsAccountedFor ==
  /\ request # None => Cardinality(request.ids) + Cardinality(request.rest) = request.asked
  /\ sync # None => sync.success + sync.failed + Cardinality(sync.rest)
                    + (IF sync.at = None THEN 0 ELSE 1) = sync.asked

\* A handler is under way exactly while one of the queues runs the job, and past its
\* lookup only on a link of the user; so is a synchronous call.
HandlersAreOfJobs ==
  /\ \A j \in Jobs :
       /\ step[j] # "idle" <=> Runs(bull[j]) \/ Runs(mem[j])
       /\ call[j] = None <=> link[j] = None
       /\ step[j] \in {"act", "unlink", "write"} => link[j] \in Owned
  /\ sync # None => IF sync.at = None THEN sync.step = "fetch"
                    ELSE sync.step # "fetch" /\ sync.at \in Owned
  /\ request # None => \A j \in request.ids : call[j] # None

\* A row goes after its file: no purge of a batch, repeated, overtaken or given up in
\* between, leaves a file without a row unless the storage refused to delete it.
FilesGoFirst ==
  /\ \A l \in Links : row[l] = "gone" => file[l] # "stored"
  /\ \A j \in Jobs : step[j] = "write" /\ call[j].type = "batch_force_delete" =>
       file[link[j]] # "stored"
  /\ sync # None /\ sync.step = "write" /\ sync.type = "batch_force_delete" =>
       file[sync.at] # "stored"

\* A job that says it is done has written its row, or found it purged.
DoneIsWritten ==
  \A j \in Jobs : call[j] # None =>
    /\ step[j] = "unlink" => call[j].type = "batch_force_delete"
    /\ acted[j] > 0 /\ call[j].type = "batch_force_delete" => row[link[j]] = "gone"
    /\ step[j] = "done" \/ HasEnded(bull[j]) \/ HasEnded(mem[j]) =>
         acted[j] > 0 \/ row[link[j]] = "gone"

\* The last try of a job may have changed its link: it says so, or it was ended by the
\* death of the process or has ended well.
MayHaveActed(j) ==
  \/ step[j] = "done"
  \/ bull[j] # None /\ bull[j].state \in {"locked", "completed"}
  \/ bull[j] = None /\ mem[j] = None /\ call[j] # None
  \/ mem[j] # None /\ mem[j].state = "completed"

\* A try that was not the last has changed the link only if its process died under it.
ActsAreCounted ==
  \A j \in Jobs :
    acted[j] <= (IF bull[j] = None THEN 0 ELSE bull[j].stalls) + (IF MayHaveActed(j) THEN 1 ELSE 0)

\* What holds of the queue and of the batches on it at every moment.
BatchInv ==
  /\ BullInv /\ BatchTypeOK /\ WorkIsNotRepeated /\ EveryLinkIsAccountedFor
  /\ HandlersAreOfJobs /\ ActsAreCounted
  /\ FilesGoFirst /\ DoneIsWritten
=============================================================================
