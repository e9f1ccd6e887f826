----------------------------- MODULE BullQueue -----------------------------
(***************************************************************************)
(* The job queue the application calls, jobs/bullQueue.js: a queue in      *)
(* Redis, shared by all processes and kept over restarts, or the in-memory *)
(* queue of this process when BullMQ is disabled or has failed once.       *)
(*                                                                         *)
(* A job has a copy in Redis, in memory, or in both when an add was stored *)
(* and its answer lost.  What the in-memory queue does inside is JobQueue's*)
(* subject: here its jobs wait, run and end as JobPromise says.            *)
(***************************************************************************)
EXTENDS Naturals, FiniteSets

CONSTANTS
  Jobs,         \* ids of the jobs that callers may add
  Calls,        \* the addJob calls of the application that may happen
  Types,        \* the types that are registered
  Concurrency,  \* workerOptions.concurrency, and that of the batch handlers
  MaxStalled,   \* workerOptions.maxStalledCount
  None,         \* no job, or no copy of it
  Settings      \* config.enabled, with bounds: how often Redis or a client of it
                \* may fail, and the process die

\* A call of addJob with the priority as its caller writes it: a number or a
\* name.
AppCalls ==
  {[type |-> "burn_deletion", priority |-> "high", attempts |-> 3],
   [type |-> "file_deletion", priority |-> "high", attempts |-> 3],
   [type |-> "file_deletion", priority |-> "low", attempts |-> 3],
   [type |-> "batch_soft_delete", priority |-> "5", attempts |-> 3],
   [type |-> "batch_restore", priority |-> "5", attempts |-> 3],
   [type |-> "batch_force_delete", priority |-> "3", attempts |-> 2]}

BatchTypes == {"batch_soft_delete", "batch_restore", "batch_force_delete"}

\* options.queueName || jobType
QueueName(type) == IF type \in BatchTypes THEN "batch_operations" ELSE type
QueueNames == {QueueName(type) : type \in Types}

ASSUME BullAssumption ==
  /\ Calls \subseteq AppCalls
  /\ {c.type : c \in Calls} \subseteq Types
  /\ Types \subseteq {c.type : c \in AppCalls}
  /\ Concurrency \in Nat \ {0}
  /\ MaxStalled \in Nat
  /\ \A s \in Settings : s.enabled \in BOOLEAN /\ {s.faults, s.crashes} \subseteq Nat
  /\ IsFiniteSet(Jobs)
  /\ None \notin AppCalls

VARIABLES
  setting,      \* the setting of this behaviour
  jobHandlers,  \* types registered here
  workers,      \* queues that have a worker in this process
  queues,       \* queues this process has opened
  fallback,     \* fallbackQueue has been loaded
  memHandlers,  \* types registered with the in-memory queue
  call,         \* the call that added the job
  bull,         \* the job's copy in Redis
  mem,          \* its copy in memory
  ran,          \* history: how often a handler was started for the job
  closing,      \* shutdown: the worker that is being closed
  closed,       \* shutdown: workers that are closed, and "queues" at the end
  faults, crashes

redisVars == <<call, bull>>
localVars == <<setting, jobHandlers, workers, queues, fallback, memHandlers, mem,
               closing, closed>>
vars == <<redisVars, localVars, ran, faults, crashes>>

States == {"waiting", "active", "locked", "completed", "failed"}
Arrays == {"high", "normal", "low"}
Copy == [state : States, priority : Arrays \cup {"3", "5"}, made : Nat, stalls : Nat]

\* null is no job, no copy, no worker and no state that is reported.
ASSUME NoneAssumption == None \notin Copy \cup QueueNames \cup States

NewCopy(priority) ==
  [state |-> "waiting", priority |-> priority, made |-> 0, stalls |-> 0]

\* The copies of a queue that are in the given state.
InQueue(q, state) ==
  {j \in Jobs : /\ bull[j] # None
                /\ bull[j].state = state
                /\ QueueName(call[j].type) = q}

-----------------------------------------------------------------------------
(* Registration *)

\* Types that share a queue share the worker that the first of them created.
WorkersOf(q) == 1

\* Mutant: the handlers are registered with the in-memory queue in any case.
MutRegister(broken) ==
  /\ jobHandlers = {}
  /\ jobHandlers' = Types
  /\ faults + Cardinality(broken) <= setting.faults
  /\ faults' = faults + Cardinality(broken)
  /\ queues' = QueueNames
  /\ workers' = QueueNames \ broken
  /\ memHandlers' = Types
  /\ fallback' = (fallback \/ broken # {})
  /\ UNCHANGED <<redisVars, setting, mem, ran, closing, closed, crashes>>

\* initScheduler and registerBatchHandlers run without an await in between.  A
\* worker that cannot be created loads the fallback, which knows no handlers.
Register(broken) ==
  /\ jobHandlers = {}
  /\ jobHandlers' = Types
  /\ faults + Cardinality(broken) <= setting.faults
  /\ faults' = faults + Cardinality(broken)
  /\ IF setting.enabled
       THEN /\ queues' = QueueNames
            /\ workers' = QueueNames \ broken
            /\ fallback' = (fallback \/ broken # {})
            /\ UNCHANGED memHandlers
       ELSE /\ broken = {}
            /\ memHandlers' = Types
            /\ fallback' = TRUE
            /\ UNCHANGED <<queues, workers>>
  /\ UNCHANGED <<redisVars, setting, mem, ran, closing, closed, crashes>>

-----------------------------------------------------------------------------
(* addJob *)

\* priority === 1 ? 'high' : priority >= 5 ? 'low' : 'normal'.  A name is
\* neither 1 nor, as a number, 5 or more.
MemoryPriority(priority) == IF priority = "5" THEN "low" ELSE "normal"

\* What the in-memory queue makes of options that are passed on as they are.
RawPriority(priority) ==
  IF priority \in Arrays THEN priority ELSE "normal"

Adding(j, c) ==
  /\ call[j] = None
  /\ call' = [call EXCEPT ![j] = c]
  /\ UNCHANGED <<setting, jobHandlers, workers, memHandlers, ran, closing, closed, crashes>>

AddToMemory(j, c) ==
  /\ ~setting.enabled \/ fallback
  /\ Adding(j, c)
  /\ fallback' = TRUE
  /\ mem' = [mem EXCEPT ![j] = NewCopy(MemoryPriority(c.priority))]
  /\ UNCHANGED <<queues, bull, faults>>

AddToRedis(j, c) ==
  /\ setting.enabled /\ ~fallback /\ "queues" \notin closed
  /\ Adding(j, c)
  /\ queues' = queues \cup {QueueName(c.type)}
  /\ bull' = [bull EXCEPT ![j] = NewCopy(c.priority)]
  /\ UNCHANGED <<fallback, mem, faults>>

\* The queue cannot be opened, or queue.add throws, perhaps after Redis has
\* stored the job.  From here on the fallback is used for everything.
AddFails(j, c, stored) ==
  /\ setting.enabled /\ ~fallback
  /\ Adding(j, c)
  /\ IF "queues" \in closed
       THEN ~stored /\ UNCHANGED faults
       ELSE faults < setting.faults /\ faults' = faults + 1
  /\ fallback' = TRUE
  /\ mem' = [mem EXCEPT ![j] = NewCopy(RawPriority(c.priority))]
  /\ bull' = IF stored THEN [bull EXCEPT ![j] = NewCopy(c.priority)] ELSE bull
  /\ queues' \in {queues, queues \cup {QueueName(c.type)}}
  /\ stored => QueueName(c.type) \in queues'

-----------------------------------------------------------------------------
(* The workers in Redis *)

SetBull(j, copy) ==
  /\ bull' = [bull EXCEPT ![j] = copy]
  /\ UNCHANGED <<call, localVars, faults, crashes>>

\* A worker takes a job of its queue and looks the handler up by the job's name.
Start(j) ==
  /\ bull[j] # None /\ bull[j].state = "waiting"
  /\ LET q == QueueName(call[j].type)
     IN  /\ q \in workers \ (closed \cup {closing})
         /\ Cardinality(InQueue(q, "active")) < Concurrency * WorkersOf(q)
  /\ call[j].type \in jobHandlers
  /\ SetBull(j, [bull[j] EXCEPT !.state = "active"])
  /\ ran' = [ran EXCEPT ![j] = @ + 1]

Complete(j) ==
  /\ bull[j] # None /\ bull[j].state = "active"
  /\ SetBull(j, [bull[j] EXCEPT !.state = "completed", !.made = @ + 1])
  /\ UNCHANGED ran

\* Mutant: one attempt too many.
MutFail(j) ==
  /\ bull[j] # None /\ bull[j].state = "active"
  /\ SetBull(j, [bull[j] EXCEPT
                   !.state = IF bull[j].made < call[j].attempts THEN "waiting" ELSE "failed",
                   !.made = @ + 1])
  /\ UNCHANGED ran

\* The handler throws: attempts bounds how often that makes another try.
Fail(j) ==
  /\ bull[j] # None /\ bull[j].state = "active"
  /\ LET made == bull[j].made + 1
     IN  SetBull(j, [bull[j] EXCEPT
                       !.state = IF made < call[j].attempts THEN "waiting" ELSE "failed",
                       !.made = made])
  /\ UNCHANGED ran

\* The lock of a job whose process has died runs out, and a worker finds it.
Stall(j) ==
  /\ bull[j] # None /\ bull[j].state = "locked"
  /\ QueueName(call[j].type) \in workers \ closed
  /\ SetBull(j, [bull[j] EXCEPT
                   !.state = IF bull[j].stalls < MaxStalled THEN "waiting" ELSE "failed",
                   !.stalls = @ + 1])
  /\ UNCHANGED ran

-----------------------------------------------------------------------------
(* The in-memory queue *)

SetMem(j, copy) ==
  /\ mem' = [mem EXCEPT ![j] = copy]
  /\ UNCHANGED <<redisVars, setting, jobHandlers, workers, queues, fallback, memHandlers,
                 closing, closed, faults, crashes>>

\* A job whose type has no handler is a dead letter at once.
MemoryStart(j) ==
  /\ mem[j] # None /\ mem[j].state = "waiting"
  /\ IF call[j].type \in memHandlers
       THEN /\ SetMem(j, [mem[j] EXCEPT !.state = "active"])
            /\ ran' = [ran EXCEPT ![j] = @ + 1]
       ELSE SetMem(j, [mem[j] EXCEPT !.state = "failed"]) /\ UNCHANGED ran

MemoryComplete(j) ==
  /\ mem[j] # None /\ mem[j].state = "active"
  /\ SetMem(j, [mem[j] EXCEPT !.state = "completed", !.made = @ + 1])
  /\ UNCHANGED ran

MemoryFail(j) ==
  /\ mem[j] # None /\ mem[j].state = "active"
  /\ LET made == mem[j].made + 1
     IN  SetMem(j, [mem[j] EXCEPT
                      !.state = IF made < call[j].attempts THEN "waiting" ELSE "failed",
                      !.made = made])
  /\ UNCHANGED ran

-----------------------------------------------------------------------------
(* Shutdown and restart *)

\* shutdown closes one worker after the other: it takes no more jobs, and close
\* resolves when its last one has ended.
CloseWorker(q) ==
  /\ closing = None
  /\ q \in workers \ closed
  /\ closing' = q
  /\ UNCHANGED <<redisVars, setting, jobHandlers, workers, queues, fallback, memHandlers,
                 mem, closed, ran, faults, crashes>>

\* A close that rejects is logged, and shutdown goes on.
WorkerClosed ==
  /\ closing # None
  /\ IF InQueue(closing, "active") = {}
       THEN UNCHANGED faults
       ELSE faults < setting.faults /\ faults' = faults + 1
  /\ closed' = closed \cup {closing}
  /\ closing' = None
  /\ UNCHANGED <<redisVars, setting, jobHandlers, workers, queues, fallback, memHandlers,
                 mem, ran, crashes>>

\* The listeners and the queues are closed when no worker is left to close.
CloseQueues ==
  /\ jobHandlers # {} /\ "queues" \notin closed
  /\ closing = None /\ workers \subseteq closed
  /\ closed' = closed \cup {"queues"}
  /\ UNCHANGED <<redisVars, setting, jobHandlers, workers, queues, fallback, memHandlers,
                 mem, closing, ran, faults, crashes>>

\* The process dies and another starts: what is in Redis stays, a job that was
\* being run under its lock.
Crash ==
  /\ crashes < setting.crashes
  /\ crashes' = crashes + 1
  /\ bull' = [j \in Jobs |-> IF bull[j] # None /\ bull[j].state = "active"
                               THEN [bull[j] EXCEPT !.state = "locked"] ELSE bull[j]]
  /\ mem' = [j \in Jobs |-> None]
  /\ jobHandlers' = {} /\ memHandlers' = {}
  /\ workers' = {} /\ queues' = {}
  /\ fallback' = FALSE
  /\ closing' = None /\ closed' = {}
  /\ UNCHANGED <<setting, call, ran, faults>>

-----------------------------------------------------------------------------
(* Specification *)

Init ==
  /\ setting \in Settings
  /\ jobHandlers = {} /\ memHandlers = {}
  /\ workers = {} /\ queues = {}
  /\ fallback = FALSE
  /\ call = [j \in Jobs |-> None]
  /\ bull = [j \in Jobs |-> None]
  /\ mem = [j \in Jobs |-> None]
  /\ ran = [j \in Jobs |-> 0]
  /\ closing = None /\ closed = {}
  /\ faults = 0 /\ crashes = 0

Next ==
  \/ \E broken \in SUBSET QueueNames : Register(broken)
  \/ \E j \in Jobs, c \in Calls :
       \/ AddToMemory(j, c) \/ AddToRedis(j, c)
       \/ \E stored \in BOOLEAN : AddFails(j, c, stored)
  \/ \E j \in Jobs :
       \/ Start(j) \/ Complete(j) \/ Fail(j) \/ Stall(j)
       \/ MemoryStart(j) \/ MemoryComplete(j) \/ MemoryFail(j)
  \/ \E q \in QueueNames : CloseWorker(q)
  \/ WorkerClosed \/ CloseQueues
  \/ Crash

Spec == Init /\ [][Next]_vars

-----------------------------------------------------------------------------
(* Properties *)

\* Every variable has its type.
TypeOK ==
  /\ setting \in Settings
  /\ jobHandlers \subseteq Types /\ memHandlers \subseteq Types
  /\ workers \subseteq QueueNames /\ queues \subseteq QueueNames
  /\ fallback \in BOOLEAN
  /\ call \in [Jobs -> Calls \cup {None}]
  /\ bull \in [Jobs -> Copy \cup {None}]
  /\ mem \in [Jobs -> Copy \cup {None}]
  /\ \A j \in Jobs : mem[j] # None => mem[j].priority \in Arrays
  /\ ran \in [Jobs -> Nat]
  /\ closing \in workers \cup {None}
  /\ closed \subseteq workers \cup {"queues"}
  /\ faults \in 0..setting.faults /\ crashes \in 0..setting.crashes

\* A job that was stored in Redis although its add seemed to fail is in both
\* queues: its handler is run by one of them at most, whatever fails.
NoJobRunsInBothQueues ==
  \A j \in Jobs :
    ~ /\ bull[j] # None /\ bull[j].state # "waiting"
      /\ mem[j] # None /\ mem[j].made > 0

\* A handler is started once for every attempt that was recorded and every
\* time its process died under it, and never more often than that allows.
TriesBounded ==
  \A j \in Jobs : bull[j] # None =>
    /\ bull[j].made <= call[j].attempts
    /\ ran[j] <= bull[j].made + bull[j].stalls +
                 (IF bull[j].state \in {"active", "locked"} THEN 1 ELSE 0)

\* readme.md:69: five batch jobs at a time, although three job types are
\* registered for the one queue.
ConcurrencyLimit ==
  \A q \in QueueNames : Cardinality(InQueue(q, "active")) <= Concurrency

\* shutdown returns only after the jobs its workers had taken: an outcome is
\* never left to a connection that is closed.
DrainedBeforeClose ==
  "queues" \in closed /\ faults = 0 =>
    \A j \in Jobs : bull[j] # None => bull[j].state # "active"

\* A job has copies only once it was added, and one that still has to run has a
\* try left.
CopiesAreOfCalls ==
  \A j \in Jobs :
    /\ call[j] = None => bull[j] = None /\ mem[j] = None /\ ran[j] = 0
    /\ bull[j] # None /\ bull[j].state \in {"waiting", "active", "locked"} =>
         bull[j].made < call[j].attempts
    /\ mem[j] # None => mem[j].state # "locked"
    /\ mem[j] # None /\ mem[j].state \in {"waiting", "active"} =>
         mem[j].made < call[j].attempts

\* With BullMQ the in-memory queue has no handlers and runs nothing; without it
\* nothing is in Redis, and what has run in memory is of a type with a handler.
OneQueueRuns ==
  /\ memHandlers \in {{}, Types}
  /\ IF setting.enabled
     THEN memHandlers = {} /\ \A j \in Jobs : mem[j] # None =>
            mem[j].made = 0 /\ mem[j].state \in {"waiting", "failed"}
     ELSE \A j \in Jobs : bull[j] = None /\
            (mem[j] # None /\ (mem[j].made > 0 \/ mem[j].state = "active") => memHandlers = Types)

\* A job is locked by a process that died, and one that runs belongs to a worker of
\* this process, which is closed with such a job only if the close has failed.
WorkersRunTheirs ==
  /\ jobHandlers = {} => workers = {} /\ closed = {}
  /\ "queues" \in closed => workers \subseteq closed
  /\ \A j \in Jobs : bull[j] # None =>
       /\ crashes = 0 => bull[j].state # "locked"
       /\ bull[j].state = "active" =>
            /\ QueueName(call[j].type) \in workers
            /\ faults = 0 => QueueName(call[j].type) \notin closed

\* The inductive invariant of the queue.
BullInv ==
  /\ TypeOK /\ NoJobRunsInBothQueues /\ TriesBounded /\ ConcurrencyLimit
  /\ DrainedBeforeClose /\ CopiesAreOfCalls /\ OneQueueRuns /\ WorkersRunTheirs

\* A copy of a job as JobPromise sees it.
Phase(copy) ==
  IF copy = None THEN "new"
  ELSE CASE copy.state = "waiting" -> "waiting" [] copy.state = "active" -> "running"
         [] copy.state = "completed" -> "done" [] copy.state = "failed" -> "dead"
         [] OTHER -> "locked"

Tries(copy) ==
  IF copy = None THEN 0
  ELSE copy.made + (IF copy.state = "active" THEN 1 ELSE 0)

Limit(copy, j) == IF copy = None THEN 0 ELSE call[j].attempts

Redis == INSTANCE JobPromise WITH
  Limits <- {2, 3},
  phase <- [j \in Jobs |-> Phase(bull[j])],
  limit <- [j \in Jobs |-> Limit(bull[j], j)],
  tries <- [j \in Jobs |-> Tries(bull[j])]

Memory == INSTANCE JobPromise WITH
  Limits <- {2, 3},
  phase <- [j \in Jobs |-> Phase(mem[j])],
  limit <- [j \in Jobs |-> Limit(mem[j], j)],
  tries <- [j \in Jobs |-> Tries(mem[j])]

\* While the process lives, each of the two queues treats a job it was given as
\* addJob promises, although the two share nothing but the job's id.
QueuesKeepPromise ==
  /\ Redis!PromiseInit /\ Memory!PromiseInit
  /\ [][crashes' = 0 => Redis!PromiseNext /\ Memory!PromiseNext]_vars

\* bullQueue.js:64 "Fallback to in-memory queue if BullMQ/Redis not available":
\* a job that falls back is given up only after its handler was tried.
FallbackRunsJobs ==
  \A j \in Jobs : mem[j] # None /\ mem[j].state = "failed" => mem[j].made > 0

\* scheduler.js:18 "Handler for burn-on-read deletions (high priority)": the
\* priority a caller asks for by name is the one its job waits under.
NamedPriorityIsKept ==
  \A j \in Jobs : mem[j] # None /\ call[j].priority = "high" =>
    mem[j].priority = "high"
=============================================================================
