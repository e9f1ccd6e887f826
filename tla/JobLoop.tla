------------------------------- MODULE JobLoop -------------------------------
(***************************************************************************)
(* The loop of jobs/jobQueue.js as it is written, one turn at a time.      *)
(* JobQueue says which jobs the loop takes between two sleeps; here they   *)
(* are taken one by one, each from what the turns before have left.        *)
(***************************************************************************)
EXTENDS JobQueue

\* The first job of an array that is not delayed.
FirstDue(array, jb) ==
  {j \in array : /\ jb[j].wait = 0
                 /\ \A i \in array : jb[i].wait = 0 => jb[j].pushed <= jb[i].pushed}

\* getNextJob: the first job that is not delayed, of the first array that has one.
NextJob(q, jb) ==
  CASE FirstDue(q["high"], jb) # {} -> FirstDue(q["high"], jb)
    [] FirstDue(q["high"], jb) = {} /\ FirstDue(q["normal"], jb) # {} ->
         FirstDue(q["normal"], jb)
    [] OTHER -> FirstDue(q["low"], jb)

\* One turn of processLoop: splice the next job out of its array and start it, or
\* fail it for want of a handler.  With every place taken, or no next job, the
\* loop goes to sleep.
Turn(loop, jb) ==
  LET next == NextJob(loop.queues, jb)
      started == {j \in next : jb[j].type \in handlers}
  IN  IF Cardinality(loop.active) >= Concurrency \/ next = {} THEN loop
      ELSE [queues |-> [p \in Priorities |-> loop.queues[p] \ next],
            active |-> loop.active \cup started,
            failed |-> loop.failed \cup (next \ started)]

\* The first n turns; no more are needed than there are jobs.
Turns(q, jb) ==
  LET turns[n \in 0..Cardinality(Queued(q))] ==
        IF n = 0 THEN [queues |-> q, active |-> active, failed |-> failedJobs]
        ELSE Turn(turns[n - 1], jb)
  IN  turns

\* What the loop leaves behind when it has taken some of the jobs.
After(taken, q, jb) ==
  [queues |-> [p \in Priorities |-> q[p] \ taken],
   active |-> active \cup {j \in taken : jb[j].type \in handlers},
   failed |-> failedJobs \cup {j \in taken : jb[j].type \notin handlers}]

\* Whatever is queued, the turns of the loop come to an end, and together they
\* take the jobs that Taken says one round takes.
TakenIsTheLoop ==
  LET end == Turns(queues, job)[Cardinality(Queued(queues))]
  IN  /\ end = After(Taken(queues, job), queues, job)
      /\ Turn(end, job) = end
=============================================================================
