--------------------------- MODULE AnswerPromise ---------------------------
(***************************************************************************)
(* What the client of a request may rely on, whatever guards and timers    *)
(* stand between the request and its handler.  It is told one thing, once. *)
(* Its work is done once, if at all, and then it is not told of somebody   *)
(* else's.  If it is spared the work it is told the outcome of a request   *)
(* that it shares a fingerprint or a key with.  No work begins under a key *)
(* within the lifetime of the answer of one that has ended; that two under *)
(* way at once are not both done is not promised.                          *)
(***************************************************************************)
EXTENDS Naturals

CONSTANTS
  Requests,
  Ops,          \* what clients ask for
  Fingerprint,  \* Ops -> what tells operations apart
  Key,          \* Ops -> an Idempotency-Key, or None
  None,
  Lifetime      \* how long a key is remembered

VARIABLES
  clock,
  asked,  \* Requests -> what was asked for, or None
  run,    \* Requests -> "no", "running" or "over"
  done,   \* Requests -> when the work was done, or None
  told    \* Requests -> whose outcome the client was told and what it was, or None

promiseVars == <<clock, asked, run, done, told>>

PromiseInit ==
  /\ clock = 0
  /\ asked = [r \in Requests |-> None]
  /\ run = [r \in Requests |-> "no"]
  /\ done = [r \in Requests |-> None]
  /\ told = [r \in Requests |-> None]

-----------------------------------------------------------------------------
(* What one step may do to a request. *)

\* What was asked for is settled when the request arrives.
Asked(r) == asked'[r] \in Ops /\ asked[r] \in {None, asked'[r]}

Undone(r) == done'[r] = done[r]
Untold(r) == told'[r] = told[r]

Stay(r) == asked'[r] = asked[r] /\ run'[r] = run[r] /\ Undone(r) /\ Untold(r)

Ask(r) == asked[r] = None /\ Asked(r) /\ run'[r] = run[r] /\ Undone(r) /\ Untold(r)

\* No work of the key that is over is remembered.
Forgotten(key) ==
  \A s \in Requests :
    done[s] # None /\ run[s] = "over" /\ Key[asked[s]] = key => clock - done[s] >= Lifetime

Begin(r) ==
  /\ Asked(r) /\ run[r] = "no" /\ run'[r] = "running"
  /\ Key[asked'[r]] # None => Forgotten(Key[asked'[r]])
  /\ Undone(r) /\ Untold(r)

\* The request is told the outcome of s, or has given up listening.
Spare(r) ==
  /\ Asked(r) /\ run[r] = "no" /\ run'[r] = "over"
  /\ done[r] = None /\ Undone(r)
  /\ \/ told[r] # None /\ Untold(r)
     \/ /\ told[r] = None
        /\ \E s \in Requests \ {r} :
             /\ told'[r] \in [from : {s}, status : {"ok", "failed", "timeout"}]
             /\ told'[r].status = "ok" => done[s] # None
             /\ \/ Fingerprint[asked'[s]] = Fingerprint[asked'[r]]
                \/ Key[asked'[s]] = Key[asked'[r]]

\* The handler does its work.
Do(r) ==
  /\ asked'[r] = asked[r] /\ run[r] = "running" /\ run'[r] = run[r]
  /\ done[r] = None /\ done'[r] = clock
  /\ Untold(r)

\* The handler ends, and who still listens is told what it did.
Finish(r) ==
  /\ asked'[r] = asked[r] /\ run[r] = "running" /\ run'[r] = "over"
  /\ Undone(r)
  /\ \/ told[r] # None /\ Untold(r)
     \/ /\ told[r] = None
        /\ told'[r] \in [from : {r}, status : {"html", IF done[r] = None THEN "failed" ELSE "ok"}]

\* The client is told that it waited for too long, or goes away.
GiveUp(r) ==
  /\ asked'[r] = asked[r] /\ run'[r] = run[r] /\ Undone(r)
  /\ told[r] = None /\ told'[r] \in [from : {r}, status : {"timeout", "gone"}]

PromiseNext ==
  /\ clock' >= clock
  /\ \A r \in Requests :
       Stay(r) \/ Ask(r) \/ Begin(r) \/ Spare(r) \/ Do(r) \/ Finish(r) \/ GiveUp(r)

Promise == PromiseInit /\ [][PromiseNext]_promiseVars
=============================================================================
