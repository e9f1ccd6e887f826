----------------------------- MODULE MCRequests -----------------------------
(***************************************************************************)
(* The requests that change something, RequestGuards, and the process that *)
(* serves them, Server.  The two share no variable: a behaviour is one of  *)
(* the first or one of the second, as `part` says from the start.          *)
(***************************************************************************)
EXTENDS RequestGuards

CONSTANTS Conns, Jobs, Hanging, MaxAlone, MaxSignals

VARIABLES redis, fallback, accepting, handlers, conn, alone, job, closing, again,
          timer, signals, exit, part

Process == INSTANCE Server

ASSUME ProcessAssumption == Process!ServerAssumption

processVars ==
  <<redis, fallback, accepting, handlers, conn, alone, job, closing, again, timer,
    signals, exit>>

\* One that saves something and has a key, and a login, which has none.
SaveAndLogin == {"save", "login"}
MCFingerprint == [o \in Ops |-> o]
MCKey == [o \in Ops |-> IF o = "login" THEN None ELSE o]

Guarding == part = "guards"
Serving == part = "server"

\* Of the initial states of the part that rests one will do.
RequestsInit ==
  /\ part \in {"guards", "server"} /\ Init /\ Process!Init
  /\ Guarding => redis

RequestsNext ==
  \/ Guarding /\ Next /\ UNCHANGED <<processVars, part>>
  \/ Serving /\ Process!Next /\ UNCHANGED <<vars, part>>

RequestsSpec ==
  /\ RequestsInit
  /\ [][RequestsNext]_<<vars, processVars, part>>
  /\ WF_vars(Guarding /\ Tick)
  /\ \A r \in Requests :
       /\ WF_vars(Guarding /\ Resume(r))
       /\ WF_vars(Guarding /\ RequestTimeout(r))
  /\ WF_processVars(Serving /\ Process!Ready)
  /\ WF_processVars(Serving /\ Process!ForceExit)
  /\ \A j \in Jobs :
       /\ WF_processVars(Serving /\ Process!StartJob(j))
       /\ WF_processVars(Serving /\ Process!EndJob(j))

-----------------------------------------------------------------------------
(* Properties *)

\* An answer is true of the work that was done, whoever gave it, and no client that
\* still waits finds the database closed.
RequestsInv == GuardsInv /\ Process!ServerInv

\* Server's: a shutdown ends, also when a request hangs, and a job in Redis is done or
\* given up.
ProcessGoesOn == Process!ShutdownEnds /\ Process!JobsAreDone
=============================================================================
