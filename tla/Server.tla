------------------------------- MODULE Server -------------------------------
(***************************************************************************)
(* The life of the process (server.js): it listens before it has seeded    *)
(* the first account and registered its job handlers, and a signal, or an  *)
(* error that nobody caught, begins a shutdown that waits for the          *)
(* connections, then for the database, and at most thirty seconds.         *)
(*                                                                         *)
(* Connections are node's: one carries one request after another until     *)
(* either side ends it, and server.close waits for all of them (external). *)
(* It does not wait for handlers: one whose client was told 408, or left,  *)
(* works on with no connection.  Jobs wait in the process's memory, or in  *)
(* Redis, as config.enabled says and as adding them goes; their retries    *)
(* are in JobQueue and BullQueue, and here a job ends well or given up.    *)
(***************************************************************************)
EXTENDS Naturals, FiniteSets

CONSTANTS
  Conns,       \* connections that clients may open
  Jobs,        \* jobs that requests may queue
  Hanging,     \* connections whose request has no end and no timeout: an upload
  None,        \* the process is running
  MaxAlone,     \* bound: handlers that nobody waits for
  MaxSignals   \* bound: signals and uncaught errors

ServerAssumption ==
  /\ Hanging \subseteq Conns
  /\ None \notin {0, 1} /\ {MaxAlone, MaxSignals} \subseteq Nat

VARIABLES
  redis,       \* config.enabled: jobs wait in Redis
  accepting,   \* the server listens
  handlers,    \* the listen callback has registered the job handlers
  conn,        \* of each connection "none", "busy" with a request, or "idle"
  alone,        \* how many handlers go on with nobody to answer
  fallback,    \* adding a job to Redis has failed: they go to memory
  job,         \* of each job where it is
  closing,     \* what the shutdown waits for
  again,       \* asked to close once more, while connections were left
  timer,       \* the forced exit is under way
  signals,     \* signals and uncaught errors so far
  exit         \* the exit code

ConnStates == {"none", "busy", "idle"}

\* Without Redis, "queued" in memory; with it, "stored".
JobStates == {"none", "stored", "queued", "running", "done", "dead", "dropped"}

jobVars == <<redis, fallback, job>>
shutdownVars == <<accepting, closing, again, timer, signals, exit>>
vars == <<handlers, conn, alone, jobVars, shutdownVars>>

Running == exit = None

-----------------------------------------------------------------------------
(* Start *)

\* ensureDefaultAdmin has come back, with or without success; initScheduler and
\* registerBatchHandlers follow in the same turn.
Ready ==
  /\ Running /\ ~ handlers
  /\ handlers' = TRUE
  /\ UNCHANGED <<conn, alone, jobVars, shutdownVars>>

-----------------------------------------------------------------------------
(* Requests *)

Become(c, state) ==
  /\ conn' = [conn EXCEPT ![c] = state]
  /\ UNCHANGED <<handlers, jobVars, shutdownVars>>

Connect(c) ==
  /\ Running /\ accepting /\ conn[c] = "none"
  /\ Become(c, "busy") /\ UNCHANGED alone

\* The next request of a connection that is kept alive, also while the server closes.
NextRequest(c) ==
  /\ Running /\ conn[c] = "idle"
  /\ Become(c, "busy") /\ UNCHANGED alone

\* The handler ends with its answer.
Answer(c) ==
  /\ Running /\ conn[c] = "busy" /\ c \notin Hanging
  /\ Become(c, "idle") /\ UNCHANGED alone

EndConnection(c) ==
  /\ Running /\ conn[c] = "idle"
  /\ Become(c, "none") /\ UNCHANGED alone

\* The answer is 408, and the handler goes on.
RequestTimeout(c) ==
  /\ Running /\ conn[c] = "busy" /\ c \notin Hanging
  /\ alone < MaxAlone /\ alone' = alone + 1
  /\ Become(c, "idle")

\* The client goes away, and the handler goes on.
ClientLeaves(c) ==
  /\ Running /\ conn[c] = "busy"
  /\ alone < MaxAlone /\ alone' = alone + 1
  /\ Become(c, "none")

LoneHandlerEnds ==
  /\ Running /\ alone > 0 /\ alone' = alone - 1
  /\ UNCHANGED <<handlers, conn, jobVars, shutdownVars>>

-----------------------------------------------------------------------------
(* Jobs *)

\* A handler calls addJob.  If Redis fails the fallback takes this job, which may
\* be stored all the same, and all that follow.
AddJob(j) ==
  /\ Running /\ job[j] = "none"
  /\ alone > 0 \/ \E c \in Conns : conn[c] = "busy"
  /\ \/ /\ job' = [job EXCEPT ![j] = IF redis /\ ~ fallback THEN "stored" ELSE "queued"]
        /\ UNCHANGED fallback
     \/ /\ redis /\ ~ fallback /\ fallback' = TRUE
        /\ \E state \in {"stored", "queued"} : job' = [job EXCEPT ![j] = state]
  /\ UNCHANGED <<redis, handlers, conn, alone, shutdownVars>>

SetJob(j, state) ==
  /\ job' = [job EXCEPT ![j] = state]
  /\ UNCHANGED <<redis, fallback, handlers, conn, alone, shutdownVars>>

\* Mutant: also a queue in Redis is drained before there is a handler.
MutStartJob(j) ==
  /\ Running /\ job[j] \in {"stored", "queued"}
  /\ SetJob(j, IF handlers THEN "running" ELSE "dropped")

\* In Redis a job waits for the worker that its handler's registration starts.  The
\* memory queue takes a job at once, and drops one that has no handler: with Redis
\* enabled the handlers are not registered with it.
StartJob(j) ==
  /\ Running
  /\ \/ job[j] = "stored" /\ handlers /\ SetJob(j, "running")
     \/ job[j] = "queued" /\ SetJob(j, IF handlers /\ ~ redis THEN "running" ELSE "dropped")

\* It succeeds, or its last try has failed.
EndJob(j) ==
  /\ Running /\ job[j] = "running"
  /\ \E state \in {"done", "dead"} : SetJob(j, state)

-----------------------------------------------------------------------------
(* gracefulShutdown *)

\* SIGTERM, SIGINT, an uncaught exception or rejection.  server.close of a server
\* that is closing calls back with an error once it has closed, that of one that
\* is closed at once, and that ends the process.
Signal ==
  /\ Running /\ signals < MaxSignals
  /\ signals' = signals + 1
  /\ timer' = TRUE
  /\ accepting' = FALSE
  /\ closing' = IF accepting THEN "connections" ELSE closing
  /\ again' = (again \/ closing = "connections")
  /\ exit' = IF closing = "database" THEN 1 ELSE exit
  /\ UNCHANGED <<handlers, conn, alone, jobVars>>

\* The callbacks of server.close: the first begins db.destroy, a second has an error.
ServerClosed ==
  /\ Running /\ closing = "connections" /\ \A c \in Conns : conn[c] = "none"
  /\ closing' = "database"
  /\ exit' = IF again THEN 1 ELSE exit
  /\ UNCHANGED <<handlers, conn, alone, jobVars, accepting, again, timer, signals>>

Exit(code) ==
  /\ exit' = code
  /\ UNCHANGED <<handlers, conn, alone, jobVars, accepting, closing, again, timer, signals>>

\* db.destroy has come back or thrown; the queues and handlers are asked nothing.
DatabaseClosed ==
  /\ Running /\ closing = "database"
  /\ \E code \in {0, 1} : Exit(code)

ForceExit == Running /\ timer /\ Exit(1)

-----------------------------------------------------------------------------
Init ==
  /\ redis \in BOOLEAN /\ fallback = FALSE
  /\ accepting = TRUE
  /\ handlers = FALSE
  /\ conn = [c \in Conns |-> "none"] /\ alone = 0
  /\ job = [j \in Jobs |-> "none"]
  /\ closing = "nothing" /\ again = FALSE
  /\ timer = FALSE
  /\ signals = 0
  /\ exit = None

Next ==
  \/ Ready
  \/ \E c \in Conns :
       \/ Connect(c) \/ NextRequest(c) \/ Answer(c) \/ EndConnection(c)
       \/ RequestTimeout(c) \/ ClientLeaves(c)
  \/ LoneHandlerEnds
  \/ \E j \in Jobs : AddJob(j) \/ StartJob(j) \/ EndJob(j)
  \/ Signal \/ ServerClosed \/ DatabaseClosed \/ ForceExit

Spec == Init /\ [][Next]_vars

\* The listen callback returns, the queue and its workers go on, and the timer fires.
\* A request need not end, nor a client close its connection.
FairSpec ==
  /\ Spec
  /\ WF_vars(Ready) /\ WF_vars(ForceExit)
  /\ \A j \in Jobs : WF_vars(StartJob(j)) /\ WF_vars(EndJob(j))

-----------------------------------------------------------------------------
(* Properties *)

\* Whoever still waits for an answer, or may ask for more, does so with the database
\* open; and so an exit with success has cut off no client.  Handlers whose client
\* left or was told 408 are not waited for, and neither are jobs.
DatabaseOutlivesClients ==
  closing = "database" \/ exit = 0 => \A c \in Conns : conn[c] = "none"

\* What the shutdown waits for follows from the connections that are left: none comes
\* in when the server no longer listens.
ServerInv ==
  /\ closing \in {"nothing", "connections", "database"} /\ conn \in [Conns -> ConnStates]
  /\ job \in [Jobs -> JobStates]
  /\ exit \in {None, 0, 1}
  /\ closing = "nothing" <=> accepting
  /\ exit = 0 => closing = "database"
  /\ DatabaseOutlivesClients

\* Once asked to, the process ends, also when a request hangs.
ShutdownEnds == signals > 0 ~> ~ Running

\* A job that is stored in Redis is carried out, or its tries have failed, also one
\* that a request queued while the server was starting, unless the process ends first.
JobsAreDone ==
  \A j \in Jobs : job[j] = "stored" ~> job[j] \in {"done", "dead"} \/ ~ Running

\* publicController.js:212 "Queue deletion via job queue for reliability with
\* retries": no job is dropped.
NoJobIsDropped == \A j \in Jobs : job[j] # "dropped"

\* readme.md:92 "clean shutdown of background jobs and connections": an exit with
\* success leaves no job half done, none in the memory of the process, and no handler.
JobsAreShutDown ==
  exit = 0 => alone = 0 /\ \A j \in Jobs : job[j] \notin {"running", "queued"}
=============================================================================
