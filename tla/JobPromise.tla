----------------------------- MODULE JobPromise -----------------------------
(***************************************************************************)
(* What a caller of addJob may rely on, whatever the queue does inside: a  *)
(* job waits, runs, and ends as done or dead; it is started at most as     *)
(* often as its caller asked for; and a job that has ended stays ended.    *)
(***************************************************************************)
EXTENDS Naturals

CONSTANTS
  Jobs,
  Limits   \* maxRetries that callers ask for

VARIABLES
  phase,  \* Jobs -> "new", "waiting", "running", "done" or "dead"
  limit,  \* Jobs -> how often it may be started (0: not asked for yet)
  tries   \* Jobs -> how often it has been started

promiseVars == <<phase, limit, tries>>

\* A job is tried once even if its caller asks for no retries.
TriesFor(max) == IF max = 0 THEN 1 ELSE max

PromiseInit ==
  /\ phase = [j \in Jobs |-> "new"]
  /\ limit = [j \in Jobs |-> 0]
  /\ tries = [j \in Jobs |-> 0]

\* What one step may do to a job.
Stay(j) ==
  phase'[j] = phase[j] /\ limit'[j] = limit[j] /\ tries'[j] = tries[j]

Accept(j) ==
  /\ phase[j] = "new"
  /\ phase'[j] \in {"waiting", "running", "dead"}
  /\ \E max \in Limits : limit'[j] = TriesFor(max)
  /\ tries'[j] = IF phase'[j] = "running" THEN 1 ELSE 0

Start(j) ==
  /\ phase[j] = "waiting" /\ phase'[j] = "running"
  /\ limit'[j] = limit[j]
  /\ tries[j] < limit[j] /\ tries'[j] = tries[j] + 1

\* Nobody knows how to run the job.
Refuse(j) ==
  /\ phase[j] = "waiting" /\ phase'[j] = "dead"
  /\ limit'[j] = limit[j]
  /\ tries[j] = 0 /\ tries'[j] = 0

\* A job is given up only after all its tries.
Finish(j) ==
  /\ phase[j] = "running"
  /\ \/ phase'[j] = "done"
     \/ phase'[j] = "waiting" /\ tries[j] < limit[j]
     \/ phase'[j] = "dead" /\ tries[j] = limit[j]
  /\ limit'[j] = limit[j] /\ tries'[j] = tries[j]

PromiseNext ==
  \A j \in Jobs : Stay(j) \/ Accept(j) \/ Start(j) \/ Refuse(j) \/ Finish(j)

Promise == PromiseInit /\ [][PromiseNext]_promiseVars
=============================================================================
