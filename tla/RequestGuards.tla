---------------------------- MODULE RequestGuards ----------------------------
(***************************************************************************)
(* What stands between a request that changes something and its handler:   *)
(* the timeout (middleware/requestTimeout.js), the deduplication           *)
(* (middleware/requestDeduplication.js) and, on the routes that have it,   *)
(* the idempotency key (middleware/idempotency.js).  All three replace or  *)
(* use res.json of the same response, and all three own timers.            *)
(*                                                                         *)
(* Requests are numbered in the order in which they arrive.  Time moves in *)
(* coarse units; a timer runs at its deadline or later.                    *)
(***************************************************************************)
EXTENDS Naturals

CONSTANTS
  NumRequests,
  Ops,          \* what clients ask for
  Fingerprint,        \* the fingerprint of an operation: method, path, user, parsed body
  Key,          \* its Idempotency-Key, or None
  Exempt,       \* fingerprints of paths without a timeout: multipart uploads
  None,
  LateDelay, Window, Timeout, Stale, Ttl,  \* 1 s, 5 s, 30 s, 60 s, 24 h
  MaxArrival,   \* bound: requests arrive up to this moment
  MaxNow,       \* bound: the last moment
  MaxErrors     \* bound: responses that emit an error

Requests == 1..NumRequests
Fingerprints == {Fingerprint[o] : o \in Ops}
Keys == {Key[o] : o \in Ops} \ {None}
Statuses == {"ok", "failed", "timeout", "pending", "rejected", "html", "gone"}

ASSUME GuardsAssumption ==
  /\ {NumRequests, LateDelay, Window, Timeout, Stale, Ttl, MaxArrival, MaxNow, MaxErrors}
       \subseteq Nat
  /\ LateDelay < Window /\ Window <= Timeout /\ Timeout < Stale /\ Stale < Ttl
  /\ Exempt \subseteq Fingerprints

\* undefined and null are nothing that is stored.
ASSUME NoneAssumption ==
  /\ None \notin Ops \cup Nat \cup [from : Requests, status : Statuses]
  /\ None \notin [owner : Requests, at : Nat]
                 \cup [result : [from : Requests, status : Statuses], at : Nat]

VARIABLES
  now,
  op, at,    \* what a request asks for, and when it arrived
  phase,     \* new, waiting for the promise of another, with its handler running,
             \* with the work done and not yet answered, ended
  waitsFor,
  promise,   \* the promise of a request: pending, rejected, or what it resolved to
  answer,    \* what the client was sent: a result, a page, or nothing since it went
  inflight,  \* inFlightRequests: fingerprint to the request and the moment it was set
  late,      \* when the timer of a finished response will delete the entry
  cache,     \* idempotencyCache: key to a result and the moment it was set
  worked,    \* history: when the handler of a request did its work
  errors

vars == <<now, op, at, phase, waitsFor, promise, answer, inflight, late, cache, worked, errors>>

Results == [from : Requests, status : {"ok", "failed", "timeout"}]
Promises == [from : Requests, status : {"pending", "rejected"}] \cup Results
Answers == [from : Requests, status : {"html", "gone"}] \cup Results
R(r, status) == [from |-> r, status |-> status]
FingerprintOf(r) == Fingerprint[op[r]]
Sent(r) == answer[r] # None
Handling(r) == phase[r] \in {"running", "worked"}

-----------------------------------------------------------------------------
(* The replaced res.json *)

\* Mutant: nobody asks whether the response was sent already.
MutSendAgain(r, body) ==
  /\ answer' = [answer EXCEPT ![r] = body]
  /\ late' = [late EXCEPT ![r] = now + LateDelay]

\* The client gets what is sent first.  A response that finishes starts the timer.
Send(r, body) ==
  /\ answer' = IF Sent(r) THEN answer ELSE [answer EXCEPT ![r] = body]
  /\ late' = IF Sent(r) THEN late ELSE [late EXCEPT ![r] = now + LateDelay]

\* Deduplication settles its promise, for good, and forgets the fingerprint,
\* whoever has the entry by now.
Settle(r, with) ==
  /\ promise' = [promise EXCEPT ![r] = IF @ = R(r, "pending") THEN with ELSE @]
  /\ inflight' = [inflight EXCEPT ![FingerprintOf(r)] = None]

SendJson(r, result) == Settle(r, result) /\ Send(r, result)

-----------------------------------------------------------------------------
(* The middleware, in the order of server.js and routes/admin.js *)

\* Mutant: a cached response is never used.
MutReplays(o) == FALSE

\* The idempotency cache has an answer that is not too old.
Replays(o) ==
  LET k == Key[o] IN k # None /\ cache[k] # None /\ now - cache[k].at < Ttl

\* A request that goes on: it is tracked, then a cached response ends it, or an
\* entry that is too old is dropped and the handler runs.
Proceed(r, o) ==
  IF Replays(o)
  THEN LET result == cache[Key[o]].result
       IN  /\ promise' = [promise EXCEPT ![r] = result]
           /\ inflight' = [inflight EXCEPT ![Fingerprint[o]] = None]
           /\ Send(r, result)
           /\ phase' = [phase EXCEPT ![r] = "ended"]
           /\ UNCHANGED cache
  ELSE /\ promise' = [promise EXCEPT ![r] = R(r, "pending")]
       /\ inflight' = [inflight EXCEPT ![Fingerprint[o]] = [owner |-> r, at |-> now]]
       /\ phase' = [phase EXCEPT ![r] = "running"]
       /\ cache' = [k \in Keys |-> IF k = Key[o] THEN None ELSE cache[k]]
       /\ UNCHANGED <<answer, late>>

\* A request arrives, and finds one with its fingerprint that is young enough to
\* wait for, or goes on.
Arrive(r, o) ==
  /\ op[r] = None /\ (r > 1 => op[r - 1] # None)
  /\ now <= MaxArrival
  /\ op' = [op EXCEPT ![r] = o]
  /\ at' = [at EXCEPT ![r] = now]
  /\ UNCHANGED <<now, worked, errors>>
  /\ LET existing == inflight[Fingerprint[o]]
     IN  IF existing # None /\ now - existing.at < Window
         THEN /\ phase' = [phase EXCEPT ![r] = "waiting"]
              /\ waitsFor' = [waitsFor EXCEPT ![r] = existing.owner]
              /\ UNCHANGED <<promise, answer, inflight, late, cache>>
         ELSE Proceed(r, o) /\ UNCHANGED waitsFor

\* The promise has settled: the duplicate sends the result as its own.  If there
\* is none, or if sending throws because its own timeout was faster, it goes on.
Resume(r) ==
  /\ phase[r] = "waiting" /\ promise[waitsFor[r]].status # "pending"
  /\ IF promise[waitsFor[r]] \in Results /\ answer[r] \in {None, R(r, "gone")}
     THEN /\ answer' = [answer EXCEPT ![r] = IF @ = None THEN promise[waitsFor[r]] ELSE @]
          /\ phase' = [phase EXCEPT ![r] = "ended"]
          /\ UNCHANGED <<promise, inflight, late, cache>>
     ELSE Proceed(r, op[r])
  /\ UNCHANGED <<now, op, at, waitsFor, worked, errors>>

-----------------------------------------------------------------------------
(* Handlers, clients and timers *)

\* Mutant: a timeout is cached like a success.
MutRemember(r, ok) ==
  cache' = [k \in Keys |-> IF k = Key[op[r]] THEN [result |-> R(r, "ok"), at |-> now]
                           ELSE cache[k]]

\* Only 2xx answers are remembered, sent or not.
Remember(r, ok) ==
  cache' = [k \in Keys |-> IF ok /\ k = Key[op[r]]
                           THEN [result |-> R(r, "ok"), at |-> now]
                           ELSE cache[k]]

\* The handler commits what it does; an audit entry is awaited before the answer.
Work(r) ==
  /\ phase[r] = "running"
  /\ phase' = [phase EXCEPT ![r] = "worked"]
  /\ worked' = [worked EXCEPT ![r] = now]
  /\ UNCHANGED <<now, op, at, waitsFor, promise, answer, inflight, late, cache, errors>>

\* It answers with json, that the work is done or that it failed before.
AnswerJson(r) ==
  /\ Handling(r)
  /\ phase' = [phase EXCEPT ![r] = "ended"]
  /\ Remember(r, phase[r] = "worked")
  /\ SendJson(r, R(r, IF phase[r] = "worked" THEN "ok" ELSE "failed"))
  /\ UNCHANGED <<now, op, at, waitsFor, worked, errors>>

\* Or with a page or a redirect, which goes past all of the above.  The routes
\* with a key render no page when they succeed.
AnswerHtml(r) ==
  /\ phase[r] = "running" \/ (phase[r] = "worked" /\ Key[op[r]] = None)
  /\ phase' = [phase EXCEPT ![r] = "ended"]
  /\ Send(r, R(r, "html"))
  /\ UNCHANGED <<now, op, at, waitsFor, promise, inflight, cache, worked, errors>>

\* Mutant: the timer counts on the handler's own answer.
MutTimesOut(r) == FALSE

\* The timer of a request, unless its response is finished or closed.  The timers
\* have the same length and run in the order of the requests.
TimesOut(r) ==
  /\ op[r] # None /\ ~Sent(r)
  /\ FingerprintOf(r) \notin Exempt
  /\ now >= at[r] + Timeout
  /\ \A s \in 1..(r - 1) : Sent(s) \/ FingerprintOf(s) \in Exempt

\* The answer 408 goes through the replaced res.json, while the handler goes on.
RequestTimeout(r) ==
  /\ TimesOut(r)
  /\ IF promise[r] # None THEN SendJson(r, R(r, "timeout"))
     ELSE /\ answer' = [answer EXCEPT ![r] = R(r, "timeout")]
          /\ UNCHANGED <<promise, inflight, late>>
  /\ UNCHANGED <<now, op, at, phase, waitsFor, cache, worked, errors>>

\* The client goes away: close, and no finish.
ClientGone(r) ==
  /\ phase[r] = "waiting" \/ Handling(r)
  /\ ~Sent(r)
  /\ answer' = [answer EXCEPT ![r] = R(r, "gone")]
  /\ UNCHANGED <<now, op, at, phase, waitsFor, promise, inflight, late, cache, worked, errors>>

\* The response emits an error.  A promise that is rejected with nobody waiting is
\* an unhandled rejection, which begins a shutdown: that is Server's Signal, and
\* requests go on until it ends the process.
ResponseError(r) ==
  /\ Handling(r) /\ ~Sent(r)
  /\ errors < MaxErrors /\ errors' = errors + 1
  /\ answer' = [answer EXCEPT ![r] = R(r, "gone")]
  /\ Settle(r, R(r, "rejected"))
  /\ UNCHANGED <<now, op, at, phase, waitsFor, late, cache, worked>>

\* One second after a response: the fingerprint is forgotten, whose ever it is.
LateTimer(r) ==
  /\ late[r] # None /\ now >= late[r]
  /\ late' = [late EXCEPT ![r] = None]
  /\ inflight' = IF promise[r] = None THEN inflight ELSE [inflight EXCEPT ![FingerprintOf(r)] = None]
  /\ UNCHANGED <<now, op, at, phase, waitsFor, promise, answer, cache, worked, errors>>

SweepInFlight ==
  /\ inflight' = [p \in Fingerprints |-> IF inflight[p] # None /\ now - inflight[p].at > Stale
                                   THEN None ELSE inflight[p]]
  /\ inflight' # inflight
  /\ UNCHANGED <<now, op, at, phase, waitsFor, promise, answer, late, cache, worked, errors>>

SweepCache ==
  /\ cache' = [k \in Keys |-> IF cache[k] # None /\ now - cache[k].at > Ttl
                              THEN None ELSE cache[k]]
  /\ cache' # cache
  /\ UNCHANGED <<now, op, at, phase, waitsFor, promise, answer, inflight, late, worked, errors>>

Tick ==
  /\ now < MaxNow /\ now' = now + 1
  /\ UNCHANGED <<op, at, phase, waitsFor, promise, answer, inflight, late, cache, worked, errors>>

-----------------------------------------------------------------------------
(* Specification *)

Init ==
  /\ now = 0
  /\ op = [r \in Requests |-> None]
  /\ at = [r \in Requests |-> 0]
  /\ phase = [r \in Requests |-> "new"]
  /\ waitsFor = [r \in Requests |-> None]
  /\ promise = [r \in Requests |-> None]
  /\ answer = [r \in Requests |-> None]
  /\ inflight = [p \in Fingerprints |-> None]
  /\ late = [r \in Requests |-> None]
  /\ cache = [k \in Keys |-> None]
  /\ worked = [r \in Requests |-> None]
  /\ errors = 0

Next ==
  \/ \E r \in Requests :
       \/ \E o \in Ops : Arrive(r, o)
       \/ Resume(r)
       \/ Work(r) \/ AnswerJson(r) \/ AnswerHtml(r)
       \/ RequestTimeout(r) \/ LateTimer(r)
       \/ ClientGone(r) \/ ResponseError(r)
  \/ SweepInFlight \/ SweepCache \/ Tick

Spec == Init /\ [][Next]_vars

\* The event loop runs timers and continuations; handlers and clients owe nothing.
FairSpec ==
  /\ Spec
  /\ WF_vars(Tick)
  /\ \A r \in Requests :
       WF_vars(Resume(r)) /\ WF_vars(RequestTimeout(r))

-----------------------------------------------------------------------------
(* Properties *)

\* Every variable has its type.
TypeOK ==
  /\ now \in Nat /\ at \in [Requests -> Nat] /\ errors \in Nat
  /\ op \in [Requests -> Ops \cup {None}]
  /\ phase \in [Requests -> {"new", "waiting", "running", "worked", "ended"}]
  /\ waitsFor \in [Requests -> Requests \cup {None}]
  /\ promise \in [Requests -> Promises \cup {None}]
  /\ answer \in [Requests -> Answers \cup {None}]
  /\ inflight \in [Fingerprints -> [owner : Requests, at : Nat] \cup {None}]
  /\ late \in [Requests -> Nat \cup {None}]
  /\ cache \in [Keys -> [result : Results, at : Nat] \cup {None}]
  /\ worked \in [Requests -> Nat \cup {None}]

\* A client that is told of another request's outcome has had no work done for it.
AnsweredElsewhereNotRun ==
  \A r \in Requests : answer[r] \in Results /\ answer[r].from # r => worked[r] = None

\* A request that is told "ok" has its key or its fingerprint in common with one
\* that did its work.
OkMeansWorkDone ==
  \A r \in Requests : answer[r] \in Results /\ answer[r].status = "ok" =>
    LET s == answer[r].from
    IN  worked[s] # None /\ (FingerprintOf(s) = FingerprintOf(r) \/ Key[op[s]] = Key[op[r]])

\* A request that has arrived asks for something, and it has a promise of its own
\* from when its handler runs.
PromiseIsKept ==
  \A r \in Requests :
    /\ phase[r] = "new" <=> op[r] = None
    /\ promise[r] # None => Handling(r) \/ phase[r] = "ended"
    /\ Handling(r) => promise[r] # None /\ promise[r].from = r
    /\ phase[r] = "worked" => worked[r] # None
    /\ worked[r] # None => phase[r] \in {"worked", "ended"} /\ worked[r] <= now
    /\ answer[r] \in Results /\ answer[r].from # r => phase[r] = "ended"

\* What is in flight, and what is waited for, is a request that had no answer of
\* another to begin with, with the fingerprint of those that wait.
Owns(q, p) == promise[q] # None /\ promise[q].from = q /\ FingerprintOf(q) = p

InFlightIsOwn ==
  /\ \A p \in Fingerprints : inflight[p] # None => Owns(inflight[p].owner, p)
  /\ \A r \in Requests : phase[r] = "waiting" =>
       waitsFor[r] # None /\ Owns(waitsFor[r], FingerprintOf(r))

\* A result that may be passed on is one of a request that did its work.
ResultIsTrue ==
  /\ \A r \in Requests : promise[r] = R(r, "ok") => worked[r] # None
  /\ \A k \in Keys : cache[k] # None =>
       LET s == cache[k].result.from
       IN  worked[s] # None /\ Key[op[s]] = k

\* The cache holds the last answer of a key for as long as it promises to, from when
\* the handler has ended.
CacheRemembers ==
  \A s \in Requests : worked[s] # None /\ phase[s] = "ended" /\ Key[op[s]] \in Keys =>
    \/ now - worked[s] >= Ttl
    \/ cache[Key[op[s]]] # None /\ cache[Key[op[s]]].at >= worked[s]

\* The inductive invariant.
GuardsInv ==
  /\ TypeOK /\ AnsweredElsewhereNotRun /\ OkMeansWorkDone
  /\ PromiseIsKept /\ InFlightIsOwn /\ ResultIsTrue /\ CacheRemembers

\* Once a request with a key has done its work and its handler has answered, whatever
\* the client was told meanwhile, no other with that key begins within the lifetime
\* of the cache.  One that begins between the work and the answer is not kept from
\* it: KeyRunsOnce is about that.
KeyIsRemembered ==
  [][\A r, s \in Requests :
       /\ phase[r] # "running" /\ phase'[r] = "running"
       /\ worked[s] # None /\ phase[s] = "ended"
       /\ Key[op'[r]] # None /\ Key[op[s]] = Key[op'[r]]
       => now - worked[s] >= Ttl]_vars

\* Every request that has a timeout is answered, whatever its handler, its client
\* or the request it waits for do.
EveryoneIsAnswered ==
  \A r \in Requests : op[r] # None /\ FingerprintOf(r) \notin Exempt ~> Sent(r)

\* readme.md:91 "prevent double-submissions within a 5-second window".
DoubleSubmitRunsOnce ==
  \A r, s \in Requests :
    r < s /\ worked[r] # None /\ worked[s] # None /\ op[r] = op[s] => at[s] - at[r] >= Window

\* readme.md:90 "24-hour response caching to prevent duplicate processing": one
\* key does its work once.
KeyRunsOnce ==
  \A r, s \in Requests :
    r < s /\ worked[r] # None /\ worked[s] # None /\ Key[op[r]] # None =>
      Key[op[r]] # Key[op[s]] \/ worked[s] - worked[r] >= Ttl

\* middleware/requestDeduplication.js:43 "Combines method, path, user ID, and body
\* hash": a client is told the outcome of what it asked for.
AnswerIsForMyOperation ==
  \A r \in Requests : answer[r] \in Results => op[answer[r].from] = op[r]

\* middleware/requestDeduplication.js:4 "Prevents duplicate processing of identical
\* concurrent requests": a request that comes within the window of one that runs
\* does not run beside it.
ConcurrentRunsOnce ==
  \A r, s \in Requests :
    r < s /\ Handling(r) /\ Handling(s) /\ op[r] = op[s] =>
      at[s] - at[r] >= Window

\* middleware/requestDeduplication.js:102 "Send the same response": a duplicate
\* whose original was answered is not left to its own timeout.
DuplicateSharesAnswer ==
  \A r \in Requests :
    phase[r] = "waiting" /\ answer[r] \in Results => ~Sent(waitsFor[r])

\* middleware/requestTimeout.js:4 "Automatically terminates long-running requests":
\* what was told to have timed out does no work afterwards.
TimedOutDoesNoWork ==
  [][\A r \in Requests :
       answer[r] \in Results /\ answer[r].status = "timeout" => worked'[r] = worked[r]]_vars

-----------------------------------------------------------------------------
(* What the client of a request sees of all this. *)

Run(r) ==
  CASE phase[r] \in {"new", "waiting"} -> "no"
    [] Handling(r) -> "running"
    [] OTHER -> "over"

Promised == INSTANCE AnswerPromise WITH
  Lifetime <- Ttl, clock <- now, asked <- op, run <- [r \in Requests |-> Run(r)],
  done <- worked, told <- answer

\* Through duplicates, replays, timeouts and clients that leave, a request is told one
\* outcome, that of its own work or of work it shares a fingerprint or a key with; it
\* works at most once, and does not begin while an answer of its key is remembered.
\* Two of one key that have both begun may both do their work.
KeepsAnswerPromise == Promised!Promise
=============================================================================
