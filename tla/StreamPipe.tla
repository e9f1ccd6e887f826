----------------------------- MODULE StreamPipe -----------------------------
(***************************************************************************)
(* How a stored file reaches the response: LocalStorageStrategy.getStream  *)
(* pipes the file into a decipher, pipeWithChecksumVerification pipes that *)
(* into a verifier if the link has a checksum, and pipeWithErrorHandling   *)
(* (utils/streamHelper.js) pipes the last of them into the response, with  *)
(* a timeout and a listener for each event that can end it.                *)
(*                                                                         *)
(* Each action is one event of a stream or a timer and all that its        *)
(* listeners do.  The state is that of one download.  An error event that  *)
(* finds no listener is an uncaught exception: server.js begins a shutdown *)
(* that this response holds up, and whose own timer, of half the time of   *)
(* the pipe's, ends the process.                                           *)
(***************************************************************************)
EXTENDS Naturals

CONSTANT MaxChunks  \* bound: chunks of the file

PipeAssumption == MaxChunks \in Nat

VARIABLES
  checked,    \* the link has a checksum
  intact,     \* what is on disk is what was encrypted
  stage,      \* the streams: "flowing", "ended", "errored", "destroyed", "none"
  chunks,     \* chunks that have reached the response
  dest,       \* the response: "open", "finished", "errored", "closed", "destroyed"
  finished,   \* the flag of pipeWithErrorHandling
  timer,      \* its timer: "armed", "cleared", "fired"
  listening,  \* its listeners are attached
  settled,    \* its promise: "no", "resolved", "rejected"
  unhandled,  \* an error event found no listener, and the shutdown has begun
  exited      \* the process has ended

vars == <<checked, intact, stage, chunks, dest, finished, timer, listening,
          settled, unhandled, exited>>

Stages == {"file", "decipher", "verifier"}

\* The stream that pipeWithErrorHandling knows as its source.
Source == IF checked THEN "verifier" ELSE "decipher"

HeadersSent == chunks > 0

Alive == ~exited /\ UNCHANGED exited

Destroy(s, st) == IF st[s] = "flowing" THEN [st EXCEPT ![s] = "destroyed"] ELSE st
DestroyDest(d) == IF d = "open" THEN "destroyed" ELSE d

-----------------------------------------------------------------------------
(* pipeWithErrorHandling *)

\* cleanup returns at once when the flag is set, and every listener sets the
\* flag before it calls cleanup.
Cleanup(done) ==
  IF done THEN UNCHANGED <<timer, listening>>
  ELSE timer' = "cleared" /\ listening' = FALSE

\* What the listeners share: the first one settles the promise.
Settle(how) ==
  /\ ~finished
  /\ finished' = TRUE
  /\ settled' = how
  /\ Cleanup(finished')

\* To the others the flag says that it is done.
Ignored == finished /\ UNCHANGED <<finished, settled, timer, listening>>

\* A source that fails leaves a response alone that has its headers.
SourceFails ==
  /\ \/ Settle("rejected") /\ dest' = (IF HeadersSent THEN dest ELSE DestroyDest(dest))
     \/ Ignored /\ UNCHANGED dest
  /\ UNCHANGED unhandled

\* pipe puts no listener on the stream it reads from: gracefulShutdown is called.
InnerFails ==
  /\ unhandled' = TRUE
  /\ UNCHANGED <<dest, finished, timer, listening, settled>>

StageFails(s) ==
  /\ stage' = [stage EXCEPT ![s] = "errored"]
  /\ IF s = Source THEN SourceFails ELSE InnerFails

DestError ==
  /\ Alive /\ dest = "open"
  /\ dest' = "errored"
  /\ \/ Settle("rejected") /\ stage' = Destroy(Source, stage)
     \/ Ignored /\ UNCHANGED stage
  /\ UNCHANGED <<checked, intact, chunks, unhandled>>

\* The pipe calls end() when its source ends, and everything is written.
DestFinish ==
  /\ Alive /\ dest = "open" /\ stage[Source] = "ended"
  /\ dest' = "finished"
  /\ Settle("resolved") \/ Ignored
  /\ UNCHANGED <<checked, intact, stage, chunks, unhandled>>

\* The client goes away: that is no error.
DestClose ==
  /\ Alive /\ dest = "open"
  /\ dest' = "closed"
  /\ \/ Settle("resolved") /\ stage' = Destroy(Source, stage)
     \/ Ignored /\ UNCHANGED stage
  /\ UNCHANGED <<checked, intact, chunks, unhandled>>

\* Mutant: the timer does not look whether the pipe is done.
MutTimeout ==
  /\ Alive /\ timer = "armed"
  /\ timer' = "fired"
  /\ finished' = TRUE /\ settled' = IF finished THEN settled ELSE "rejected"
  /\ stage' = Destroy(Source, stage)
  /\ dest' = "destroyed"
  /\ UNCHANGED <<checked, intact, chunks, listening, unhandled>>

\* Mutant: a response that has its headers is left alone, as when a stream fails.
MutTimeoutIgnores ==
  /\ Alive /\ timer = "armed"
  /\ timer' = "fired"
  /\ IF finished \/ HeadersSent
       THEN UNCHANGED <<finished, settled, stage, dest>>
       ELSE /\ finished' = TRUE /\ settled' = "rejected"
            /\ stage' = Destroy(Source, stage)
            /\ dest' = DestroyDest(dest)
  /\ UNCHANGED <<checked, intact, chunks, listening, unhandled>>

Timeout ==
  /\ Alive /\ timer = "armed"
  /\ timer' = "fired"
  /\ IF finished
       THEN UNCHANGED <<finished, settled, stage, dest>>
       ELSE /\ finished' = TRUE /\ settled' = "rejected"
            /\ stage' = Destroy(Source, stage)
            /\ dest' = DestroyDest(dest)
  /\ UNCHANGED <<checked, intact, chunks, listening, unhandled>>

-----------------------------------------------------------------------------
(* The streams *)

Chunk ==
  /\ Alive /\ chunks < MaxChunks
  /\ dest = "open"
  /\ \A s \in Stages : stage[s] \in {"flowing", "none"}
  /\ chunks' = chunks + 1
  /\ UNCHANGED <<checked, intact, stage, dest, finished, timer, listening,
                 settled, unhandled>>

StageEnds(s) ==
  /\ stage' = [stage EXCEPT ![s] = "ended"]
  /\ UNCHANGED <<dest, finished, timer, listening, settled, unhandled>>

\* The file ends, or cannot be read on.
FileStep ==
  /\ Alive /\ stage["file"] = "flowing"
  /\ StageEnds("file") \/ StageFails("file")
  /\ UNCHANGED <<checked, intact, chunks>>

\* Mutant: the decipher is given no authentication tag to compare.
MutDecipherFlush ==
  /\ Alive /\ stage["decipher"] = "flowing" /\ stage["file"] = "ended"
  /\ StageEnds("decipher")
  /\ UNCHANGED <<checked, intact, chunks>>

\* At its end the decipher compares the authentication tag.
DecipherFlush ==
  /\ Alive /\ stage["decipher"] = "flowing" /\ stage["file"] = "ended"
  /\ IF intact THEN StageEnds("decipher") ELSE StageFails("decipher")
  /\ UNCHANGED <<checked, intact, chunks>>

\* The verifier compares the checksum that the row has, which may be that of
\* another file.
VerifierFlush ==
  /\ Alive /\ checked /\ stage["verifier"] = "flowing" /\ stage["decipher"] = "ended"
  /\ StageEnds("verifier") \/ StageFails("verifier")
  /\ UNCHANGED <<checked, intact, chunks>>

-----------------------------------------------------------------------------
(* The process *)

\* The shutdown's timer: where the pipe's began long enough before, that is first.
ForceExit ==
  /\ ~exited /\ unhandled
  /\ exited' = TRUE
  /\ dest' = DestroyDest(dest)
  /\ UNCHANGED <<checked, intact, stage, chunks, finished, timer, listening,
                 settled, unhandled>>

-----------------------------------------------------------------------------
(* Specification *)

Init ==
  /\ checked \in BOOLEAN /\ intact \in BOOLEAN
  /\ stage = [s \in Stages |->
               IF s = "verifier" /\ ~checked THEN "none" ELSE "flowing"]
  /\ chunks = 0
  /\ dest = "open"
  /\ finished = FALSE
  /\ timer = "armed"
  /\ listening = TRUE
  /\ settled = "no"
  /\ unhandled = FALSE /\ exited = FALSE

Next ==
  \/ Chunk \/ FileStep \/ DecipherFlush \/ VerifierFlush
  \/ DestError \/ DestFinish \/ DestClose \/ Timeout \/ ForceExit

Spec == Init /\ [][Next]_vars

\* Timers fire.  A disk may be slow for ever, and so may a client.
FairSpec == Spec /\ WF_vars(Timeout) /\ WF_vars(ForceExit)

-----------------------------------------------------------------------------
(* Properties *)

\* Every variable has its type.
TypeOK ==
  /\ checked \in BOOLEAN /\ intact \in BOOLEAN /\ finished \in BOOLEAN
  /\ listening \in BOOLEAN /\ unhandled \in BOOLEAN /\ exited \in BOOLEAN
  /\ stage \in [Stages -> {"flowing", "ended", "errored", "destroyed", "none"}]
  /\ chunks \in 0..MaxChunks
  /\ dest \in {"open", "finished", "errored", "closed", "destroyed"}
  /\ timer \in {"armed", "cleared", "fired"}
  /\ settled \in {"no", "resolved", "rejected"}

\* Whatever arrives afterwards, and in whatever order, the caller's answer
\* stands and a response that was sent is not destroyed under the client.
SettledForGood ==
  [][/\ settled # "no" => settled' = settled
     /\ dest = "finished" => dest' = "finished"]_vars

\* A response is finished, and the caller told so, only if every stream ended
\* well: a damaged file is never passed off as a complete one.
FinishedMeansWhole ==
  dest = "finished" =>
    /\ intact
    /\ \A s \in Stages : stage[s] \in {"ended", "none"}

\* A stream ends after the one it reads from, and the decipher only if its tag was
\* right.
EndsInOrder ==
  /\ stage["verifier"] = "none" <=> ~checked
  /\ \A s \in {"file", "decipher"} : stage[s] # "none"
  /\ stage["verifier"] = "ended" => stage["decipher"] = "ended"
  /\ stage["decipher"] = "ended" => intact /\ stage["file"] = "ended"

\* The inductive invariant.
PipeInv ==
  /\ TypeOK /\ FinishedMeansWhole /\ EndsInOrder
  /\ finished <=> settled # "no"

\* The caller is always answered, or the process ends: where a disk or a client is
\* too slow, or an inner stream fails unheard, one of the two timers does it.
PipeSettles == <>(settled # "no" \/ exited)

\* streamHelper.js:36 "Remove all listeners to prevent memory leaks" (and, before
\* that, clearTimeout): what is settled is cleaned up.
SettledIsCleanedUp == settled # "no" => timer # "armed" /\ ~listening

\* streamHelper.js:122 "Destroy source stream", when the client has gone: the
\* file is read no further.
FileIsReleased == dest = "closed" => stage["file"] # "flowing"

\* streamHelper.js:4 "safe stream handling with proper error handling": an error
\* of a stream finds a listener, and does not end the process.
ErrorsAreHandled == ~unhandled /\ ~exited

\* streamHelper.js:5 "cleanup, and timeout protection": a client is not left
\* waiting for a response that nobody will finish.
ResponseEnds == <>(dest # "open")
=============================================================================
