------------------------------ MODULE JobQueue ------------------------------
(***************************************************************************)
(* The in-memory job queue, jobs/jobQueue.js: three arrays by priority, a  *)
(* loop that starts jobs up to a limit and then sleeps, retries with a     *)
(* growing delay, a dead letter list, and a shutdown that waits for what   *)
(* is running.                                                             *)
(*                                                                         *)
(* Between two sleeps the loop runs without an await: it takes every job   *)
(* it is going to take in one step of the event loop.  An array is a set   *)
(* here, its order the order in which jobs were pushed: splice takes from  *)
(* anywhere and push adds at the end, so that order is all there is to it. *)
(* Time is what timers still have to wait, in ticks.                       *)
(***************************************************************************)
EXTENDS Integers, FiniteSets

CONSTANTS
  Jobs,               \* ids of the jobs that callers may add
  Types,              \* job types
  PriorityArgs,       \* priorities that callers pass
  Limits,             \* maxRetries that callers pass
  Delays,             \* delays that callers pass
  NoJob,              \* an id that addJob has not returned yet
  Concurrency,        \* config.concurrency
  PollInterval,       \* config.pollIntervalMs
  RetryDelay,         \* config.retryDelayMs
  BackoffMultiplier,  \* config.backoffMultiplier
  Patience            \* timeoutMs of shutdown

Priorities == {"high", "normal", "low"}
Rank == [p \in Priorities |->
           CASE p = "high" -> 1 [] p = "normal" -> 2 [] p = "low" -> 3]

\* The delay before the retry after the given failure.
Backoff(failures) == RetryDelay * BackoffMultiplier ^ (failures - 1)

Job == [type : Types, priority : PriorityArgs, max : Limits, retries : Nat,
        wait : Nat, pushed : Nat]

ASSUME QueueAssumption ==
  /\ Limits \subseteq Nat
  /\ Delays \subseteq Nat
  /\ NoJob \notin Job
  /\ Concurrency \in Nat \ {0}
  /\ PollInterval \in Nat \ {0}
  /\ Patience \in Nat
  /\ IsFiniteSet(Jobs)

ASSUME BackoffAssumption ==
  \A max \in Limits : \A n \in 1..max :
    RetryDelay * BackoffMultiplier ^ (n - 1) \in Nat

VARIABLES
  handlers,        \* types that have a handler
  job,             \* the job objects, by id
  queues,          \* the three arrays
  active,          \* activeJobs
  failedJobs,      \* the dead letter list
  completed,       \* history: jobs whose handler has succeeded
  tries,           \* history: how often a handler was started for the job
  pushes,          \* how many jobs have been pushed on an array
  isProcessing,
  isShuttingDown,
  sleep,           \* what the loop's timer still has to wait
  shutdown,        \* the call of shutdown: "no", "waiting", "clean", "timeout"
  patience         \* what is left of its timeout

vars == <<handlers, job, queues, active, failedJobs, completed, tries, pushes,
          isProcessing, isShuttingDown, sleep, shutdown, patience>>

Accepted == {j \in Jobs : job[j] # NoJob}
Queued(q) == UNION {q[p] : p \in Priorities}

-----------------------------------------------------------------------------
(* The processing loop *)

Push(q, priority, j) ==
  LET p == IF priority \in Priorities THEN priority ELSE "normal"
  IN  [q EXCEPT ![p] = @ \cup {j}]

\* i comes before j when getNextJob looks through the arrays.
Ahead(i, j, q, jb) ==
  \E p, r \in Priorities :
    /\ i \in q[p] /\ j \in q[r]
    /\ Rank[p] < Rank[r] \/ (p = r /\ jb[i].pushed < jb[j].pushed)

\* The jobs that getNextJob does not skip.
Due(q, jb) == {j \in Queued(q) : jb[j].wait = 0}

\* The due jobs that take a place before j does.  A job without a handler takes
\* no place.
Before(j, q, jb) ==
  {i \in Due(q, jb) : jb[i].type \in handlers /\ Ahead(i, j, q, jb)}

\* Mutant: a delayed job is not skipped but holds up what is behind it.
MutTakenHeldUp(q, jb) ==
  {j \in Due(q, jb) :
     /\ \A i \in Queued(q) : Ahead(i, j, q, jb) => jb[i].wait = 0
     /\ Cardinality(active) + Cardinality(Before(j, q, jb)) < Concurrency}

\* Mutant: the priorities are looked through without regard to their order.
MutTakenAnyOrder(q, jb) ==
  {j \in Due(q, jb) :
     LET after == {i \in Due(q, jb) : jb[i].type \in handlers /\ Ahead(j, i, q, jb)}
     IN  Cardinality(active) + Cardinality(after) < Concurrency}

\* The jobs the loop takes before it sleeps: the first due ones, for as long as
\* there is a free place.
Taken(q, jb) ==
  {j \in Due(q, jb) :
     Cardinality(active) + Cardinality(Before(j, q, jb)) < Concurrency}

\* The loop, from one sleep to the next: take jobs, start those that have a
\* handler, fail the others at once.
RunLoop(q, jb) ==
  LET taken == Taken(q, jb)
      started == {j \in taken : jb[j].type \in handlers}
  IN  /\ queues' = [p \in Priorities |-> q[p] \ taken]
      /\ active' = active \cup started
      /\ failedJobs' = failedJobs \cup (taken \ started)
      /\ tries' = [j \in Jobs |-> IF j \in started THEN tries[j] + 1 ELSE tries[j]]
      /\ sleep' = PollInterval

-----------------------------------------------------------------------------
(* The operations *)

RegisterJobHandler(type) ==
  /\ handlers' = handlers \cup {type}
  /\ UNCHANGED <<job, queues, active, failedJobs, completed, tries, pushes,
                 isProcessing, isShuttingDown, sleep, shutdown, patience>>

NewJob(type, priority, max, delay) ==
  [type |-> type, priority |-> priority, max |-> max, retries |-> 0,
   wait |-> delay, pushed |-> pushes]

\* addJob starts the loop if it does not run, and the loop's first round has
\* no await before it.
AddJob(j, type, priority, max, delay) ==
  LET jb == [job EXCEPT ![j] = NewJob(type, priority, max, delay)]
      q == Push(queues, priority, j)
  IN  /\ job[j] = NoJob
      /\ job' = jb
      /\ pushes' = pushes + 1
      /\ IF isProcessing \/ isShuttingDown
           THEN queues' = q /\ UNCHANGED <<active, failedJobs, tries, isProcessing, sleep>>
           ELSE isProcessing' = TRUE /\ RunLoop(q, jb)
      /\ UNCHANGED <<handlers, completed, isShuttingDown, shutdown, patience>>

\* Mutant: a loop that finds every place taken ends, and does not wait.
MutPollEndsWhenFull ==
  /\ isProcessing /\ ~isShuttingDown
  /\ sleep = 0
  /\ IF Cardinality(active) < Concurrency
       THEN RunLoop(queues, job) /\ UNCHANGED isProcessing
       ELSE /\ isProcessing' = FALSE
            /\ UNCHANGED <<queues, active, failedJobs, tries, sleep>>
  /\ UNCHANGED <<handlers, job, completed, pushes, isShuttingDown, shutdown,
                 patience>>

\* The loop's timer has fired.  Once shutdown has cleared the flag the loop
\* ends here instead, and nothing can start it again.
Poll ==
  /\ isProcessing /\ ~isShuttingDown
  /\ sleep = 0
  /\ RunLoop(queues, job)
  /\ UNCHANGED <<handlers, job, completed, pushes, isProcessing, isShuttingDown,
                 shutdown, patience>>

\* The handler's promise resolves.
Succeed(j) ==
  /\ j \in active
  /\ active' = active \ {j}
  /\ completed' = completed \cup {j}
  /\ UNCHANGED <<handlers, job, queues, failedJobs, tries, pushes, isProcessing,
                 isShuttingDown, sleep, shutdown, patience>>

\* Mutant: one retry too many.
MutFailRetriesOnceMore(j) ==
  LET n == job[j].retries + 1
      again == n <= job[j].max
      kept == again /\ job[j].priority \in Priorities
  IN  /\ j \in active
      /\ active' = active \ {j}
      /\ job' = [job EXCEPT ![j].retries = n,
                            ![j].wait = IF again THEN Backoff(n) ELSE @,
                            ![j].pushed = IF kept THEN pushes ELSE @]
      /\ queues' = IF kept THEN Push(queues, job[j].priority, j) ELSE queues
      /\ pushes' = IF kept THEN pushes + 1 ELSE pushes
      /\ failedJobs' = IF again THEN failedJobs ELSE failedJobs \cup {j}
      /\ UNCHANGED <<handlers, completed, tries, isProcessing, isShuttingDown,
                     sleep, shutdown, patience>>

\* The handler's promise rejects: a retry after a delay, or the dead letter
\* list.  A retry is pushed on queues[job.priority], which is undefined for a
\* priority that addJob did not know: the TypeError is logged, the job is gone.
Fail(j) ==
  LET n == job[j].retries + 1
      again == n < job[j].max
      kept == again /\ job[j].priority \in Priorities
  IN  /\ j \in active
      /\ active' = active \ {j}
      /\ job' = [job EXCEPT ![j].retries = n,
                            ![j].wait = IF again THEN Backoff(n) ELSE @,
                            ![j].pushed = IF kept THEN pushes ELSE @]
      /\ queues' = IF kept THEN Push(queues, job[j].priority, j) ELSE queues
      /\ pushes' = IF kept THEN pushes + 1 ELSE pushes
      /\ failedJobs' = IF again THEN failedJobs ELSE failedJobs \cup {j}
      /\ UNCHANGED <<handlers, completed, tries, isProcessing, isShuttingDown,
                     sleep, shutdown, patience>>

Shutdown ==
  /\ shutdown = "no"
  /\ isShuttingDown' = TRUE
  /\ isProcessing' = FALSE
  /\ shutdown' = "waiting"
  /\ patience' = Patience
  /\ UNCHANGED <<handlers, job, queues, active, failedJobs, completed, tries,
                 pushes, sleep>>

ShutdownReturns ==
  /\ shutdown = "waiting"
  /\ active = {} \/ patience = 0
  /\ shutdown' = IF active = {} THEN "clean" ELSE "timeout"
  /\ UNCHANGED <<handlers, job, queues, active, failedJobs, completed, tries,
                 pushes, isProcessing, isShuttingDown, sleep, patience>>

Less(n) == IF n = 0 THEN 0 ELSE n - 1

Tick ==
  /\ job' = [j \in Jobs |-> IF j \in Queued(queues)
                              THEN [job[j] EXCEPT !.wait = Less(@)] ELSE job[j]]
  /\ sleep' = Less(sleep)
  /\ patience' = Less(patience)
  /\ UNCHANGED <<handlers, queues, active, failedJobs, completed, tries, pushes,
                 isProcessing, isShuttingDown, shutdown>>

-----------------------------------------------------------------------------
(* Specification *)

Init ==
  /\ handlers = {}
  /\ job = [j \in Jobs |-> NoJob]
  /\ queues = [p \in Priorities |-> {}]
  /\ active = {}
  /\ failedJobs = {}
  /\ completed = {}
  /\ tries = [j \in Jobs |-> 0]
  /\ pushes = 0
  /\ isProcessing = FALSE
  /\ isShuttingDown = FALSE
  /\ sleep = 0
  /\ shutdown = "no"
  /\ patience = 0

Next ==
  \/ \E type \in Types : RegisterJobHandler(type)
  \/ \E j \in Jobs, type \in Types, priority \in PriorityArgs, max \in Limits,
        delay \in Delays : AddJob(j, type, priority, max, delay)
  \/ Poll
  \/ \E j \in Jobs : Succeed(j) \/ Fail(j)
  \/ Shutdown \/ ShutdownReturns
  \/ Tick

Spec == Init /\ [][Next]_vars

\* Timers fire, and a handler's promise settles: each one awaits the database
\* or the storage, which answer or throw.
Fairness ==
  /\ WF_vars(Tick)
  /\ WF_vars(Poll)
  /\ WF_vars(ShutdownReturns)
  /\ \A j \in Jobs : WF_vars(Succeed(j) \/ Fail(j))

FairSpec == Spec /\ Fairness

-----------------------------------------------------------------------------
(* Properties *)

\* Every variable has its type.
TypeOK ==
  /\ handlers \subseteq Types
  /\ job \in [Jobs -> Job \cup {NoJob}]
  /\ queues \in [Priorities -> SUBSET Jobs]
  /\ active \subseteq Jobs
  /\ failedJobs \subseteq Jobs
  /\ completed \subseteq Jobs
  /\ tries \in [Jobs -> Nat]
  /\ pushes \in Nat
  /\ isProcessing \in BOOLEAN
  /\ isShuttingDown \in BOOLEAN
  /\ sleep \in Nat
  /\ shutdown \in {"no", "waiting", "clean", "timeout"}
  /\ patience \in Nat

Places == Priorities \cup {"active", "completed", "failed"}

In(place) ==
  CASE place = "active" -> active
    [] place = "completed" -> completed
    [] place = "failed" -> failedJobs
    [] OTHER -> queues[place]

\* A job that was accepted is in one place, and in one only: an array, the
\* running jobs, the dead letters, or done.  No failure, retry or shutdown drops
\* it or makes two of it.
OnePlace ==
  \A j \in Accepted : \E place \in Places :
    \A other \in Places : j \in In(other) <=> other = place

\* Whatever mix of polls, retries and first rounds started by addJob, no more
\* handlers run at once than the configuration allows.
ConcurrencyLimit == Cardinality(active) <= Concurrency

\* The loop does not sleep on a job it could run: when it goes to sleep, every
\* place is taken or no job is due.  A delayed job does not hold up the others.
NoIdleCapacity ==
  [][sleep' > sleep =>
       \/ Cardinality(active') >= Concurrency
       \/ \A j \in Queued(queues') : job'[j].wait > 0]_vars

\* A job is not started while one that comes before it, by priority or by age
\* in its array, is due and left behind.
FirstThingsFirst ==
  [][\A j \in active' \ active, i \in Queued(queues) \cap Queued(queues') :
       j \in Queued(queues) /\ job[i].wait = 0 => ~Ahead(i, j, queues, job)]_vars

\* Once shutdown has returned with nothing running, no handler is started again,
\* neither by a job added later nor by a loop that was asleep.
CleanShutdownIsFinal == shutdown = "clean" => active = {}

\* While nobody shuts the queue down, a job that was accepted ends: it is
\* completed or a dead letter.  Retries of others do not starve it.
JobsEnd ==
  \A j \in Jobs :
    j \in Accepted ~> (j \in completed \cup failedJobs \/ isShuttingDown)

\* Where a caller of addJob would say the job is, and how often it may start.
Phase(j) ==
  CASE j \in Queued(queues) -> "waiting"
    [] j \in active -> "running"
    [] j \in completed -> "done"
    [] j \in failedJobs -> "dead"
    [] OTHER -> "new"

Limit(j) ==
  CASE job[j] = NoJob -> 0
    [] job[j] # NoJob /\ job[j].max = 0 -> 1
    [] OTHER -> job[j].max

Promised == INSTANCE JobPromise WITH
  phase <- [j \in Jobs |-> Phase(j)],
  limit <- [j \in Jobs |-> Limit(j)]

\* The queue keeps its promise to the callers of addJob: each job makes legal
\* moves only, and is given up after exactly maxRetries starts, or one.
KeepsPromise == Promised!Promise

\* Arithmetic of retries: what has been started and what has failed agree, and
\* a job that is queued or running has a try left.
TriesCounted ==
  /\ \A j \in Jobs : job[j] = NoJob => tries[j] = 0
  /\ \A j \in Accepted :
       /\ tries[j] > 0 => job[j].type \in handlers
       /\ j \in active => tries[j] = job[j].retries + 1
       /\ j \in Queued(queues) => tries[j] = job[j].retries
       /\ j \in active \cup Queued(queues) =>
            job[j].retries = 0 \/ job[j].retries < job[j].max

\* Jobs in an array are told apart by their place in it.
PushedApart ==
  /\ \A j \in Accepted : job[j].pushed < pushes
  /\ \A p \in Priorities : \A i, j \in queues[p] :
       job[i].pushed = job[j].pushed => i = j

\* Jobs are where they may be, and shutdown is where its flags say it is.
Flags ==
  /\ \A place \in Places : In(place) \subseteq Accepted
  /\ shutdown # "no" <=> isShuttingDown
  /\ isShuttingDown => ~isProcessing

\* The inductive invariant: what the queue is promised to keep, and the
\* bookkeeping that makes every step keep it.
IInv ==
  /\ TypeOK /\ OnePlace /\ ConcurrencyLimit /\ CleanShutdownIsFinal
  /\ TriesCounted /\ PushedApart /\ Flags

\* "Invalid priority, using 'normal'" (jobs/jobQueue.js:88): a job with a
\* priority addJob does not know is kept like any other.
InvalidPriorityIsNormal ==
  \A j \in Accepted : \E place \in Places : j \in In(place)

\* shutdown reports "All jobs completed successfully" (jobs/jobQueue.js:288):
\* when it does, no job that has been started is left waiting for a retry that
\* can no longer run.
StartedJobsAreDone ==
  shutdown = "clean" => \A j \in Queued(queues) : tries[j] = 0
=============================================================================
