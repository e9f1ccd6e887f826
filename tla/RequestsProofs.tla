--------------------------- MODULE RequestsProofs ---------------------------
(***************************************************************************)
(* Proofs about RequestGuards and Server, as MCRequests puts them side by  *)
(* side: RequestsInv is an invariant, and a key that has been used is      *)
(* remembered, for every number of requests and every choice of            *)
(* fingerprints, keys, durations, connections and jobs.                    *)
(*                                                                         *)
(* That an answer tells the truth is not inductive by itself.  It rests on *)
(* where answers come from: the promise of a request (PromiseIsKept), the  *)
(* entry that led a duplicate to it (InFlightIsOwn) and the cache          *)
(* (ResultIsTrue); CacheRemembers is what makes another run of a key wait  *)
(* for the lifetime of an answer that was given.  With these, each step of a *)
(* request is one that AnswerPromise allows to it.                         *)
(***************************************************************************)
EXTENDS MCRequests, TLAPS

\* Nothing that is stored is None.
LEMMA Stored ==
  /\ \A n \in Nat : n # None
  /\ \A o \in Ops : o # None
  /\ \A r \in Requests : r # None
  /\ \A x \in Promises : x # None
  /\ \A x \in Answers : x # None
  /\ \A e \in [owner : Requests, at : Nat] : e # None
  /\ \A e \in [result : Results, at : Nat] : e # None
BY NoneAssumption DEF Promises, Answers, Results, Statuses, Requests

\* What a response can be of a request.
LEMMA Responses ==
  ASSUME NEW r \in Requests
  PROVE  /\ \A st \in {"ok", "failed", "timeout"} : R(r, st) \in Results
         /\ R(r, "pending") \in Promises \ Results /\ R(r, "rejected") \in Promises \ Results
         /\ R(r, "html") \in Answers \ Results /\ R(r, "gone") \in Answers \ Results
         /\ Results \subseteq Promises /\ Results \subseteq Answers
         /\ \A st : R(r, st).from = r /\ R(r, st).status = st
BY DEF R, Results, Promises, Answers

\* Before the first request nothing is owed to anyone.
LEMMA GuardsInit == Init => GuardsInv
<1> SUFFICES ASSUME Init PROVE GuardsInv
  OBVIOUS
<1>1. TypeOK
  BY GuardsAssumption DEF Init, TypeOK
<1>2. None \notin Results
  BY Stored DEF Promises
<1>3. AnsweredElsewhereNotRun /\ OkMeansWorkDone
  BY <1>2 DEF Init, AnsweredElsewhereNotRun, OkMeansWorkDone
<1>4. PromiseIsKept /\ InFlightIsOwn
  BY <1>2 DEF Init, PromiseIsKept, Handling, InFlightIsOwn
<1>5. ResultIsTrue /\ CacheRemembers
  BY Stored, Responses DEF Init, ResultIsTrue, CacheRemembers
<1>6. QED
  BY <1>1, <1>3, <1>4, <1>5 DEF GuardsInv

\* A handler does its work: nobody has been told of it yet.
LEMMA WorkKeeps ==
  ASSUME GuardsInv, NEW r \in Requests, Work(r)
  PROVE  GuardsInv'
<1> USE DEF GuardsInv
<1>1. /\ phase[r] = "running" /\ phase' = [phase EXCEPT ![r] = "worked"]
      /\ worked' = [worked EXCEPT ![r] = now]
      /\ UNCHANGED <<now, op, at, waitsFor, promise, answer, inflight, late, cache, errors>>
  BY DEF Work
<1>2. /\ worked[r] = None /\ now # None /\ promise[r] # None
      /\ ~ (answer[r] \in Results /\ answer[r].from # r)
  BY <1>1, Stored DEF PromiseIsKept, Handling, TypeOK
<1>3. \A q \in Requests : worked[q] # None => worked'[q] # None
  BY <1>1, <1>2 DEF TypeOK
<1>4. TypeOK'
  BY <1>1 DEF TypeOK
<1>5. AnsweredElsewhereNotRun'
  BY <1>1, <1>2 DEF AnsweredElsewhereNotRun, TypeOK
<1>6. OkMeansWorkDone'
  <2>1. \A q \in Requests : answer[q] \in Results => answer[q].from \in Requests
    BY DEF Results
  <2>2. QED
    BY <1>1, <1>3, <2>1 DEF OkMeansWorkDone, FingerprintOf
<1>7. PromiseIsKept'
  BY <1>1, <1>2 DEF PromiseIsKept, Handling, TypeOK
<1>8. InFlightIsOwn'
  BY <1>1 DEF InFlightIsOwn, Owns, FingerprintOf, TypeOK
<1>9. ResultIsTrue'
  <2>1. \A k \in Keys : cache[k] # None => cache[k].result.from \in Requests
    BY DEF TypeOK, Results
  <2>2. QED
    BY <1>1, <1>3, <2>1 DEF ResultIsTrue
<1>10. CacheRemembers'
  BY <1>1 DEF CacheRemembers, TypeOK
<1>11. QED
  BY <1>4, <1>5, <1>6, <1>7, <1>8, <1>9, <1>10

\* A handler ends with json: its answer, its promise and the cache say what it did.
LEMMA AnswerJsonKeeps ==
  ASSUME GuardsInv, NEW r \in Requests, AnswerJson(r)
  PROVE  GuardsInv'
<1> USE Stored DEF GuardsInv
<1> DEFINE ok == phase[r] = "worked"
           result == R(r, IF ok THEN "ok" ELSE "failed")
<1>1. /\ result \in Results /\ result.from = r /\ result # None
      /\ result.status = "ok" <=> ok
  BY Responses
<1>0. [result |-> R(r, "ok"), at |-> now] \in [result : Results, at : Nat]
  BY Responses DEF TypeOK
<1>2. /\ phase[r] \in {"running", "worked"} /\ phase' = [phase EXCEPT ![r] = "ended"]
      /\ promise' = [promise EXCEPT ![r] = IF @ = R(r, "pending") THEN result ELSE @]
      /\ inflight' = [inflight EXCEPT ![FingerprintOf(r)] = None]
      /\ answer' = [answer EXCEPT ![r] = IF @ = None THEN result ELSE @]
      /\ UNCHANGED <<now, op, at, waitsFor, worked, errors>>
      /\ cache' = [k \in Keys |-> IF ok /\ k = Key[op[r]]
                           THEN [result |-> R(r, "ok"), at |-> now]
                           ELSE cache[k]]
      /\ late' = IF Sent(r) THEN late ELSE [late EXCEPT ![r] = now + LateDelay]
  BY DEF AnswerJson, Handling, SendJson, Settle, Send, Sent, Remember, TypeOK
<1>4. worked[r] # None <=> ok
  BY <1>2 DEF PromiseIsKept, Handling
<1>. HIDE DEF result, ok
<1>3. TypeOK'
  <2>1. late' \in [Requests -> Nat \cup {None}]
    BY <1>2, GuardsAssumption DEF TypeOK
  <2>2. cache' \in [Keys -> [result : Results, at : Nat] \cup {None}]
    BY <1>0, <1>2 DEF TypeOK
  <2>3. promise' \in [Requests -> Promises \cup {None}] /\ answer' \in [Requests -> Answers \cup {None}]
    BY <1>1, <1>2, Responses DEF TypeOK
  <2>4. /\ inflight' \in [Fingerprints -> [owner : Requests, at : Nat] \cup {None}]
        /\ phase' \in [Requests -> {"new", "waiting", "running", "worked", "ended"}]
    BY <1>2 DEF TypeOK
  <2>5. QED
    BY <1>2, <2>1, <2>2, <2>3, <2>4 DEF TypeOK
<1>5. OkMeansWorkDone'
  <2> SUFFICES ASSUME NEW q \in Requests, answer'[q] \in Results, answer'[q].status = "ok"
               PROVE  LET s == answer'[q].from
                      IN  worked[s] # None /\ (FingerprintOf(s) = FingerprintOf(q) \/ Key[op[s]] = Key[op[q]])
    BY <1>2 DEF OkMeansWorkDone, FingerprintOf
  <2>2. CASE answer'[q] = answer[q]
    BY <2>2 DEF OkMeansWorkDone
  <2>3. CASE answer'[q] # answer[q]
    BY <1>1, <1>2, <1>4, <2>3 DEF TypeOK
  <2>4. QED
    BY <2>2, <2>3
<1>6. AnsweredElsewhereNotRun'
  BY <1>1, <1>2 DEF TypeOK, AnsweredElsewhereNotRun
<1>7. PromiseIsKept'
  BY <1>1, <1>2 DEF TypeOK, PromiseIsKept, Handling
<1>8. InFlightIsOwn'
  BY <1>1, <1>2 DEF TypeOK, PromiseIsKept, Handling, InFlightIsOwn, Owns, FingerprintOf
<1>9. ResultIsTrue'
  <2>1. promise'[r] = R(r, "ok") => worked[r] # None
    BY <1>1, <1>2, <1>4, Responses DEF TypeOK, ResultIsTrue
  <2>2. \A q \in Requests : promise'[q] = R(q, "ok") => worked[q] # None
    BY <1>2, <2>1 DEF TypeOK, ResultIsTrue
  <2>3. \A k \in Keys : cache'[k] # None =>
          LET s == cache'[k].result.from IN worked[s] # None /\ Key[op[s]] = k
    BY <1>2, <1>4, Responses DEF ResultIsTrue
  <2>4. QED
    BY <1>2, <2>2, <2>3 DEF ResultIsTrue
<1>10. CacheRemembers'
  <2> SUFFICES ASSUME NEW s \in Requests, worked[s] # None, phase'[s] = "ended", Key[op[s]] \in Keys
               PROVE  \/ now - worked[s] >= Ttl
                      \/ cache'[Key[op[s]]] # None /\ cache'[Key[op[s]]].at >= worked[s]
    BY <1>2 DEF CacheRemembers
  <2>1. CASE ok /\ Key[op[s]] = Key[op[r]]
    <3>1. cache'[Key[op[s]]] = [result |-> R(r, "ok"), at |-> now]
      BY <2>1, <1>2
    <3>2. worked[s] <= now
      BY <1>2 DEF TypeOK, PromiseIsKept, Handling
    <3>3. QED
      BY <3>1, <3>2, <1>0 DEF TypeOK
  <2>2. CASE ~ (ok /\ Key[op[s]] = Key[op[r]])
    <3>1. s # r /\ phase[s] = "ended"
      BY <1>2, <1>4, <2>2 DEF TypeOK
    <3>2. QED
      BY <1>2, <2>2, <3>1 DEF CacheRemembers
  <2>3. QED
    BY <2>1, <2>2
<1>11. QED
  BY <1>3, <1>5, <1>6, <1>7, <1>8, <1>9, <1>10

\* A step that neither starts nor ends a handler: a response, a timer, a sweep, the
\* clock.  Entries go, promises settle with something that is no success.
Quiet ==
  /\ UNCHANGED <<op, at, phase, waitsFor, worked>> /\ now' >= now
  /\ \A q \in Requests :
       /\ \/ answer'[q] = answer[q]
          \/ answer'[q] \notin Results
          \/ answer'[q].from = q /\ answer'[q].status # "ok"
       /\ \/ promise'[q] = promise[q]
          \/ /\ promise[q] # None /\ promise[q].from = q
             /\ promise'[q] # None /\ promise'[q].from = q /\ promise'[q].status # "ok"
  /\ \A p \in Fingerprints : inflight'[p] \in {inflight[p], None}
  /\ \A k \in Keys : cache'[k] = cache[k] \/ (cache'[k] = None /\ now - cache[k].at >= Ttl)

\* Such a step leaves every answer as true as it was.
LEMMA QuietKeeps ==
  ASSUME GuardsInv, Quiet, TypeOK'
  PROVE  GuardsInv'
<1> USE GuardsAssumption DEF GuardsInv, Quiet
<1>1. AnsweredElsewhereNotRun'
  BY DEF AnsweredElsewhereNotRun
<1>2. OkMeansWorkDone'
  BY DEF OkMeansWorkDone, FingerprintOf
<1>3. PromiseIsKept'
  BY DEF PromiseIsKept, Handling, TypeOK
<1>4. InFlightIsOwn'
  BY DEF InFlightIsOwn, Owns, FingerprintOf, TypeOK
<1>5. ResultIsTrue'
  BY DEF ResultIsTrue, TypeOK, R
<1>6. CacheRemembers'
  <2> SUFFICES ASSUME NEW s \in Requests, worked[s] # None, phase[s] = "ended", Key[op[s]] \in Keys
               PROVE  \/ now' - worked[s] >= Ttl
                      \/ cache'[Key[op[s]]] # None /\ cache'[Key[op[s]]].at >= worked[s]
    BY DEF CacheRemembers
  <2>1. now \in Nat /\ now' \in Nat /\ worked[s] \in Nat /\ Ttl \in Nat
    BY DEF TypeOK
  <2>2. cache[Key[op[s]]] # None => cache[Key[op[s]]].at \in Nat
    BY DEF TypeOK
  <2>3. QED
    BY <2>1, <2>2 DEF CacheRemembers
<1>7. QED
  BY <1>1, <1>2, <1>3, <1>4, <1>5, <1>6

\* The timeout, the late timer, a client that goes and a response's error are quiet.
LEMMA QuietSteps ==
  ASSUME GuardsInv, NEW r \in Requests,
         RequestTimeout(r) \/ LateTimer(r) \/ ClientGone(r) \/ ResponseError(r)
  PROVE  GuardsInv'
<1>0. /\ R(r, "timeout") \in Results /\ R(r, "gone") \in Answers /\ R(r, "gone") \notin Results
      /\ R(r, "rejected") \in Promises /\ Results \subseteq Promises /\ Results \subseteq Answers
      /\ \A st : R(r, st).from = r /\ R(r, st).status = st
      /\ R(r, "timeout") # None /\ R(r, "rejected") # None /\ R(r, "pending") # None
  BY Responses, Stored
<1>1. CASE RequestTimeout(r)
  <2>1. /\ op[r] # None /\ answer' = [answer EXCEPT ![r] = R(r, "timeout")]
        /\ UNCHANGED <<now, op, at, phase, waitsFor, cache, worked, errors>>
        /\ promise' = promise \/ promise' = [promise EXCEPT ![r] = IF @ = R(r, "pending") THEN R(r, "timeout") ELSE @]
        /\ inflight' = inflight \/ inflight' = [inflight EXCEPT ![FingerprintOf(r)] = None]
        /\ late' = late \/ late' = [late EXCEPT ![r] = now + LateDelay]
    BY <1>1 DEF RequestTimeout, TimesOut, SendJson, Settle, Send, Sent
  <2>2. TypeOK'
    BY <1>0, <2>1, GuardsAssumption DEF GuardsInv, TypeOK
  <2>3. Quiet
    BY <1>0, <2>1 DEF Quiet, GuardsInv, TypeOK
  <2>4. QED
    BY <2>2, <2>3, QuietKeeps
<1>2. CASE LateTimer(r)
  <2>1. TypeOK'
    BY <1>2 DEF LateTimer, GuardsInv, TypeOK
  <2>2. Quiet
    BY <1>2 DEF LateTimer, Quiet, GuardsInv, TypeOK
  <2>3. QED
    BY <2>1, <2>2, QuietKeeps
<1>3. CASE ClientGone(r)
  <2>1. TypeOK'
    BY <1>0, <1>3 DEF ClientGone, GuardsInv, TypeOK
  <2>2. Quiet
    BY <1>0, <1>3 DEF ClientGone, Quiet, GuardsInv, TypeOK
  <2>3. QED
    BY <2>1, <2>2, QuietKeeps
<1>4. CASE ResponseError(r)
  <2>1. TypeOK'
    <3>1. promise' \in [Requests -> Promises \cup {None}]
      BY <1>0, <1>4 DEF ResponseError, Settle, GuardsInv, TypeOK
    <3>2. answer' \in [Requests -> Answers \cup {None}]
      BY <1>0, <1>4 DEF ResponseError, GuardsInv, TypeOK
    <3>3. inflight' \in [Fingerprints -> [owner : Requests, at : Nat] \cup {None}]
      BY <1>4 DEF ResponseError, Settle, GuardsInv, TypeOK
    <3>4. errors' \in Nat /\ UNCHANGED <<now, op, at, phase, waitsFor, late, cache, worked>>
      BY <1>4 DEF ResponseError, GuardsInv, TypeOK
    <3>5. QED
      BY <3>1, <3>2, <3>3, <3>4 DEF GuardsInv, TypeOK
  <2>2. Quiet
    BY <1>0, <1>4 DEF ResponseError, Settle, Quiet, GuardsInv, TypeOK
  <2>3. QED
    BY <2>1, <2>2, QuietKeeps
<1>5. QED
  BY <1>1, <1>2, <1>3, <1>4

\* A sweep takes what is too old, and the clock goes on.
LEMMA TimeSteps ==
  ASSUME GuardsInv, SweepInFlight \/ SweepCache \/ Tick
  PROVE  GuardsInv'
<1>1. TypeOK'
  BY DEF SweepInFlight, SweepCache, Tick, GuardsInv, TypeOK
<1>2. CASE SweepInFlight
  <2>1. Quiet
    BY <1>2 DEF SweepInFlight, GuardsInv, TypeOK, Quiet
  <2>2. QED
    BY <1>1, <2>1, QuietKeeps
<1>3. CASE SweepCache
  <2>1. \A k \in Keys : cache[k] # None => cache[k].at \in Nat
    BY DEF GuardsInv, TypeOK
  <2>2. Quiet
    BY <1>3, <2>1, GuardsAssumption DEF SweepCache, GuardsInv, TypeOK, Quiet
  <2>3. QED
    BY <1>1, <2>2, QuietKeeps
<1>4. CASE Tick
  <2>1. Quiet
    BY <1>4 DEF Tick, GuardsInv, TypeOK, Quiet
  <2>2. QED
    BY <1>1, <2>1, QuietKeeps
<1>5. QED
  BY <1>2, <1>3, <1>4

\* A page goes past the promise: it ends a handler whose success has no key.
LEMMA AnswerHtmlKeeps ==
  ASSUME GuardsInv, NEW r \in Requests, AnswerHtml(r)
  PROVE  GuardsInv'
<1> USE DEF GuardsInv
<1>1. R(r, "html") \in Answers /\ R(r, "html") \notin Results
  BY Responses
<1>2. /\ phase[r] = "running" \/ (phase[r] = "worked" /\ Key[op[r]] = None)
      /\ phase' = [phase EXCEPT ![r] = "ended"]
      /\ answer' = [answer EXCEPT ![r] = IF @ = None THEN R(r, "html") ELSE @]
      /\ UNCHANGED <<now, op, at, waitsFor, promise, inflight, cache, worked, errors>>
      /\ late' = IF Sent(r) THEN late ELSE [late EXCEPT ![r] = now + LateDelay]
  BY DEF AnswerHtml, Send, Sent, TypeOK
<1>3. promise[r] # None
  BY <1>2 DEF PromiseIsKept, Handling
<1>4. TypeOK'
  <2>1. late' \in [Requests -> Nat \cup {None}]
    BY <1>2, GuardsAssumption DEF TypeOK
  <2>2. answer' \in [Requests -> Answers \cup {None}]
    BY <1>1, <1>2 DEF TypeOK
  <2>3. QED
    BY <1>2, <2>1, <2>2 DEF TypeOK
<1>5. AnsweredElsewhereNotRun'
  BY <1>1, <1>2 DEF TypeOK, AnsweredElsewhereNotRun
<1>6. OkMeansWorkDone'
  <2>1. \A q \in Requests : answer'[q] \in Results => answer'[q] = answer[q]
    BY <1>1, <1>2 DEF TypeOK
  <2>2. QED
    BY <1>2, <2>1 DEF OkMeansWorkDone, FingerprintOf
<1>7. PromiseIsKept'
  BY <1>1, <1>2, <1>3 DEF TypeOK, PromiseIsKept, Handling
<1>8. InFlightIsOwn'
  BY <1>2 DEF TypeOK, InFlightIsOwn, Owns, FingerprintOf
<1>9. ResultIsTrue'
  BY <1>2 DEF ResultIsTrue
<1>10. CacheRemembers'
  <2>1. \A s \in Requests : worked[s] # None /\ phase'[s] = "ended" /\ Key[op[s]] \in Keys =>
          phase[s] = "ended"
    BY <1>2 DEF TypeOK, Keys, PromiseIsKept, Handling
  <2>2. QED
    BY <1>2, <2>1 DEF CacheRemembers
<1>11. QED
  BY <1>4, <1>5, <1>6, <1>7, <1>8, <1>9, <1>10

\* A request that has just arrived, or whose promise brought nothing, is tracked and
\* runs, or is answered from the cache.
LEMMA ProceedKeeps ==
  ASSUME GuardsInv, NEW r \in Requests, NEW o \in Ops, Proceed(r, o),
         phase[r] = "new" \/ (phase[r] = "waiting" /\ op[r] = o),
         op' = [op EXCEPT ![r] = o],
         at' \in [Requests -> Nat], waitsFor' = waitsFor,
         UNCHANGED <<now, worked, errors>>
  PROVE  GuardsInv'
<1> USE DEF GuardsInv
<1> DEFINE k == Key[o]
<1>0. /\ Fingerprint[o] \in Fingerprints /\ (k # None => k \in Keys)
      /\ op'[r] = o /\ \A q \in Requests : q # r => op'[q] = op[q]
      /\ o # None /\ r # None
  BY Stored DEF Fingerprints, Keys, TypeOK
<1>1. /\ worked[r] = None /\ promise[r] = None
      /\ \A q \in Requests : worked[q] # None \/ promise[q] # None => q # r /\ op'[q] = op[q]
  BY <1>0 DEF PromiseIsKept, Handling
<1>2. ~ (answer[r] \in Results /\ answer[r].from # r)
  BY DEF PromiseIsKept, Handling
<1>3. answer[r] \in Results => answer[r].status # "ok"
  BY <1>1, <1>2 DEF OkMeansWorkDone
<1>4. \A p \in Fingerprints : inflight[p] # None => inflight[p].owner # r
  BY <1>1 DEF InFlightIsOwn, Owns
<1>5. CASE Replays(o)
  <2> DEFINE result == cache[k].result
  <2>1. /\ k \in Keys /\ cache[k] # None
        /\ result \in Results /\ result.from \in Requests /\ result # None
        /\ worked[result.from] # None /\ Key[op[result.from]] = k
    <3>1. k \in Keys /\ cache[k] # None
      BY <1>0, <1>5 DEF Replays
    <3>2. result \in Results
      BY <3>1 DEF TypeOK
    <3>3. result \in Promises /\ result.from \in Requests
      BY <3>2 DEF Results, Promises
    <3>4. QED
      BY <3>1, <3>2, <3>3, Stored DEF ResultIsTrue
  <2>2. /\ promise' = [promise EXCEPT ![r] = result]
        /\ inflight' = [inflight EXCEPT ![Fingerprint[o]] = None]
        /\ answer' = [answer EXCEPT ![r] = IF @ = None THEN result ELSE @]
        /\ late' = IF Sent(r) THEN late ELSE [late EXCEPT ![r] = now + LateDelay]
        /\ phase' = [phase EXCEPT ![r] = "ended"]
        /\ cache' = cache
    BY <1>5 DEF Proceed, Send, Sent, TypeOK
  <2> HIDE DEF result
  <2>3. TypeOK'
    <3>1. late' \in [Requests -> Nat \cup {None}]
      BY <2>2, GuardsAssumption DEF TypeOK
    <3>2. promise' \in [Requests -> Promises \cup {None}] /\ answer' \in [Requests -> Answers \cup {None}]
      BY <2>1, <2>2, Responses DEF TypeOK
    <3>3. QED
      BY <2>2, <3>1, <3>2 DEF TypeOK
  <2>4. AnsweredElsewhereNotRun'
    BY <1>1, <2>2 DEF AnsweredElsewhereNotRun, TypeOK
  <2>5. OkMeansWorkDone'
    <3> SUFFICES ASSUME NEW q \in Requests, answer'[q] \in Results, answer'[q].status = "ok"
                 PROVE  LET s == answer'[q].from
                        IN  worked[s] # None /\ (Fingerprint[op'[s]] = Fingerprint[op'[q]] \/ Key[op'[s]] = Key[op'[q]])
      BY DEF OkMeansWorkDone, FingerprintOf
    <3>1. CASE q = r
      BY <1>0, <1>1, <1>3, <2>1, <2>2, <3>1 DEF TypeOK
    <3>2. CASE q # r
      <4>1. answer'[q] = answer[q] /\ answer[q].from \in Requests
        BY <2>2, <3>2 DEF TypeOK, Results
      <4>2. QED
        BY <1>0, <1>1, <3>2, <4>1 DEF OkMeansWorkDone, FingerprintOf
    <3>3. QED
      BY <3>1, <3>2
  <2>6. PromiseIsKept'
    BY <1>0, <1>1, <2>1, <2>2 DEF PromiseIsKept, Handling, TypeOK
  <2>7. InFlightIsOwn'
    BY <1>0, <1>1, <1>4, <2>1, <2>2 DEF InFlightIsOwn, Owns, FingerprintOf, TypeOK
  <2>8. ResultIsTrue'
    <3>1. \A q \in Requests : promise'[q] = R(q, "ok") => worked[q] # None
      BY <2>1, <2>2, Responses DEF ResultIsTrue, TypeOK
    <3>2. \A c \in Keys : cache[c] # None => cache[c].result.from \in Requests
      BY DEF TypeOK, Results
    <3>3. QED
      BY <1>1, <2>2, <3>1, <3>2 DEF ResultIsTrue
  <2>9. CacheRemembers'
    BY <1>1, <2>2 DEF CacheRemembers
  <2>10. QED
    BY <2>3, <2>4, <2>5, <2>6, <2>7, <2>8, <2>9
<1>6. CASE ~ Replays(o)
  <2>1. /\ R(r, "pending") \in Promises /\ R(r, "pending").from = r
        /\ R(r, "pending") # None /\ R(r, "pending") # R(r, "ok")
        /\ [owner |-> r, at |-> now] \in [owner : Requests, at : Nat]
        /\ [owner |-> r, at |-> now] # None
    BY Responses, Stored DEF TypeOK
  <2>2. /\ promise' = [promise EXCEPT ![r] = R(r, "pending")]
        /\ inflight' = [inflight EXCEPT ![Fingerprint[o]] = [owner |-> r, at |-> now]]
        /\ phase' = [phase EXCEPT ![r] = "running"]
        /\ cache' = [c \in Keys |-> IF c = k THEN None ELSE cache[c]]
        /\ UNCHANGED <<answer, late>>
    BY <1>6 DEF Proceed
  <2>3. TypeOK'
    BY <2>1, <2>2 DEF TypeOK
  <2>4. AnsweredElsewhereNotRun'
    BY <2>2 DEF AnsweredElsewhereNotRun
  <2>5. OkMeansWorkDone'
    <3> SUFFICES ASSUME NEW q \in Requests, answer[q] \in Results, answer[q].status = "ok"
                 PROVE  LET s == answer[q].from
                        IN  worked[s] # None /\ (Fingerprint[op'[s]] = Fingerprint[op'[q]] \/ Key[op'[s]] = Key[op'[q]])
      BY <2>2 DEF OkMeansWorkDone, FingerprintOf
    <3>1. q # r /\ answer[q].from \in Requests
      BY <1>3 DEF Results
    <3>2. QED
      BY <1>0, <1>1, <3>1 DEF OkMeansWorkDone, FingerprintOf
  <2>6. PromiseIsKept'
    BY <1>0, <1>1, <1>2, <2>1, <2>2 DEF PromiseIsKept, Handling, TypeOK
  <2>7. InFlightIsOwn'
    BY <1>0, <1>1, <1>4, <2>1, <2>2 DEF InFlightIsOwn, Owns, FingerprintOf, TypeOK
  <2>8. ResultIsTrue'
    <3>1. \A q \in Requests : promise'[q] = R(q, "ok") => worked[q] # None
      BY <2>1, <2>2 DEF ResultIsTrue, TypeOK
    <3>2. \A c \in Keys : cache'[c] # None => cache'[c] = cache[c] /\ cache[c].result.from \in Requests
      BY <2>2 DEF TypeOK, Results
    <3>3. QED
      BY <1>1, <2>2, <3>1, <3>2 DEF ResultIsTrue
  <2>9. CacheRemembers'
    <3> SUFFICES ASSUME NEW s \in Requests, worked[s] # None, phase[s] = "ended", Key[op[s]] \in Keys
                 PROVE  \/ now - worked[s] >= Ttl
                        \/ cache'[Key[op[s]]] # None /\ cache'[Key[op[s]]].at >= worked[s]
      BY <1>1, <2>2 DEF CacheRemembers, TypeOK
    <3>1. CASE Key[op[s]] = k
      <4>1. cache[k] = None \/ now - cache[k].at >= Ttl
        BY <1>0, <1>6, <3>1, GuardsAssumption DEF Replays, TypeOK, Keys
      <4>2. worked[s] \in Nat /\ now \in Nat /\ Ttl \in Nat /\ (cache[k] # None => cache[k].at \in Nat)
        BY <3>1, GuardsAssumption DEF TypeOK
      <4>3. QED
        BY <3>1, <4>1, <4>2 DEF CacheRemembers
    <3>2. CASE Key[op[s]] # k
      BY <2>2, <3>2 DEF CacheRemembers
    <3>3. QED
      BY <3>1, <3>2
  <2>10. QED
    BY <2>3, <2>4, <2>5, <2>6, <2>7, <2>8, <2>9
<1>7. QED
  BY <1>5, <1>6

\* A request arrives: it waits for the one that is in flight, or goes on.
LEMMA ArriveKeeps ==
  ASSUME GuardsInv, NEW r \in Requests, NEW o \in Ops, Arrive(r, o)
  PROVE  GuardsInv'
<1> USE DEF GuardsInv
<1>1. /\ phase[r] = "new" /\ op[r] = None /\ Fingerprint[o] \in Fingerprints
      /\ worked[r] = None /\ promise[r] = None /\ o # None
      /\ op' = [op EXCEPT ![r] = o] /\ at' \in [Requests -> Nat]
      /\ UNCHANGED <<now, worked, errors>>
  BY Stored DEF Arrive, PromiseIsKept, Handling, Fingerprints, TypeOK
<1>2. CASE inflight[Fingerprint[o]] # None /\ now - inflight[Fingerprint[o]].at < Window
  <2> DEFINE owner == inflight[Fingerprint[o]].owner
  <2>1. /\ phase' = [phase EXCEPT ![r] = "waiting"]
        /\ waitsFor' = [waitsFor EXCEPT ![r] = owner]
        /\ UNCHANGED <<promise, answer, inflight, late, cache>>
    BY <1>2 DEF Arrive
  <2>2. owner \in Requests /\ owner # None /\ Owns(owner, Fingerprint[o])
    BY <1>1, <1>2, Stored DEF TypeOK, InFlightIsOwn
  <2> HIDE DEF owner
  <2>3. \A q \in Requests : worked[q] # None \/ promise[q] # None => q # r /\ op'[q] = op[q]
    BY <1>1 DEF TypeOK
  <2>4. ~ (answer[r] \in Results /\ answer[r].from # r) /\ (answer[r] \in Results => answer[r].status # "ok")
    BY <1>1 DEF PromiseIsKept, Handling, OkMeansWorkDone
  <2>5. TypeOK'
    BY <1>1, <2>1, <2>2 DEF TypeOK
  <2>6. AnsweredElsewhereNotRun'
    BY <1>1, <2>1 DEF AnsweredElsewhereNotRun
  <2>7. OkMeansWorkDone'
    <3> SUFFICES ASSUME NEW q \in Requests, answer[q] \in Results, answer[q].status = "ok"
                 PROVE  LET s == answer[q].from
                        IN  worked[s] # None /\ (Fingerprint[op'[s]] = Fingerprint[op'[q]] \/ Key[op'[s]] = Key[op'[q]])
      BY <1>1, <2>1 DEF OkMeansWorkDone, FingerprintOf
    <3>1. q # r /\ answer[q].from \in Requests
      BY <2>4 DEF Results
    <3>2. op'[q] = op[q]
      BY <1>1, <3>1 DEF TypeOK
    <3>3. QED
      BY <2>3, <3>1, <3>2 DEF OkMeansWorkDone, FingerprintOf
  <2>8. PromiseIsKept'
    BY <1>1, <2>1 DEF PromiseIsKept, Handling, TypeOK
  <2>9. InFlightIsOwn'
    BY <1>1, <2>1, <2>2, <2>3 DEF InFlightIsOwn, Owns, FingerprintOf, TypeOK
  <2>10. ResultIsTrue'
    <3>1. \A c \in Keys : cache[c] # None => cache[c].result.from \in Requests
      BY DEF TypeOK, Results
    <3>2. QED
      BY <1>1, <2>1, <2>3, <3>1 DEF ResultIsTrue
  <2>11. CacheRemembers'
    BY <1>1, <2>1, <2>3 DEF CacheRemembers
  <2>12. QED
    BY <2>5, <2>6, <2>7, <2>8, <2>9, <2>10, <2>11
<1>3. CASE ~ (inflight[Fingerprint[o]] # None /\ now - inflight[Fingerprint[o]].at < Window)
  <2>1. Proceed(r, o) /\ waitsFor' = waitsFor
    BY <1>3 DEF Arrive
  <2>2. QED
    BY <1>1, <2>1, ProceedKeeps
<1>4. QED
  BY <1>2, <1>3

\* A request that waited is answered with what its promise brought, or goes on.
LEMMA ResumeKeeps ==
  ASSUME GuardsInv, NEW r \in Requests, Resume(r)
  PROVE  GuardsInv'
<1> USE DEF GuardsInv
<1> DEFINE q == waitsFor[r]
<1>1. /\ phase[r] = "waiting" /\ op[r] \in Ops /\ worked[r] = None /\ promise[r] = None
      /\ q \in Requests /\ q # None /\ Owns(q, FingerprintOf(r))
      /\ UNCHANGED <<now, op, at, waitsFor, worked, errors>>
  BY DEF Resume, PromiseIsKept, Handling, InFlightIsOwn, TypeOK
<1>2. CASE promise[q] \in Results /\ answer[r] \in {None, R(r, "gone")}
  <2> DEFINE result == promise[q]
  <2>1. /\ result \in Results /\ result.from = q /\ result # None
        /\ FingerprintOf(q) = FingerprintOf(r)
        /\ result.status = "ok" => worked[q] # None
    BY <1>1, <1>2 DEF Owns, ResultIsTrue, R, Results
  <2>2. /\ answer' = [answer EXCEPT ![r] = IF @ = None THEN result ELSE @]
        /\ phase' = [phase EXCEPT ![r] = "ended"]
        /\ UNCHANGED <<promise, inflight, late, cache>>
    BY <1>2 DEF Resume
  <2> HIDE DEF result
  <2>3. TypeOK'
    BY <1>1, <2>1, <2>2, Responses DEF TypeOK
  <2>4. AnsweredElsewhereNotRun'
    BY <1>1, <2>2 DEF AnsweredElsewhereNotRun, TypeOK
  <2>5. OkMeansWorkDone'
    <3> SUFFICES ASSUME NEW p \in Requests, answer'[p] \in Results, answer'[p].status = "ok"
                 PROVE  LET s == answer'[p].from
                        IN  worked[s] # None /\ (FingerprintOf(s) = FingerprintOf(p) \/ Key[op[s]] = Key[op[p]])
      BY <1>1 DEF OkMeansWorkDone, FingerprintOf
    <3>1. CASE answer'[p] = answer[p]
      BY <3>1 DEF OkMeansWorkDone
    <3>2. CASE answer'[p] # answer[p]
      BY <2>1, <2>2, <3>2 DEF TypeOK
    <3>3. QED
      BY <3>1, <3>2
  <2>6. PromiseIsKept'
    BY <1>1, <2>1, <2>2 DEF PromiseIsKept, Handling, TypeOK
  <2>7. InFlightIsOwn'
    BY <1>1, <2>2 DEF InFlightIsOwn, Owns, FingerprintOf, TypeOK
  <2>8. ResultIsTrue' /\ CacheRemembers'
    BY <1>1, <2>2 DEF ResultIsTrue, CacheRemembers
  <2>9. QED
    BY <2>3, <2>4, <2>5, <2>6, <2>7, <2>8
<1>3. CASE ~ (promise[q] \in Results /\ answer[r] \in {None, R(r, "gone")})
  <2>1. Proceed(r, op[r])
    BY <1>3 DEF Resume
  <2>2. op' = [op EXCEPT ![r] = op[r]] /\ at' \in [Requests -> Nat]
    BY <1>1 DEF TypeOK
  <2>3. QED
    BY <1>1, <2>1, <2>2, ProceedKeeps
<1>4. QED
  BY <1>2, <1>3

\* Whatever the step, the guards' invariant is kept.
LEMMA GuardsStep == GuardsInv /\ [Next]_vars => GuardsInv'
<1> SUFFICES ASSUME GuardsInv, [Next]_vars PROVE GuardsInv'
  OBVIOUS
<1>1. CASE UNCHANGED vars
  <2>1. TypeOK' /\ Quiet
    BY <1>1 DEF vars, GuardsInv, TypeOK, Quiet
  <2>2. QED
    BY <2>1, QuietKeeps
<1>2. CASE Next
  BY <1>2, ArriveKeeps, ResumeKeeps, WorkKeeps, AnswerJsonKeeps, AnswerHtmlKeeps, QuietSteps, TimeSteps DEF Next
<1>3. QED
  BY <1>1, <1>2

-----------------------------------------------------------------------------
(* What a step may not do *)

\* A handler is started by a request that found no answer to replay.
LEMMA Starts ==
  ASSUME GuardsInv, Next, NEW r \in Requests, phase[r] # "running", phase'[r] = "running"
  PROVE  op'[r] \in Ops /\ ~ Replays(op'[r]) /\ \A s \in Requests : op[s] # None => op'[s] = op[s]
<1> USE DEF GuardsInv, TypeOK
<1>1. ASSUME NEW p \in Requests, NEW o \in Ops, Arrive(p, o)
      PROVE  op'[r] \in Ops /\ ~ Replays(op'[r]) /\ \A s \in Requests : op[s] # None => op'[s] = op[s]
  BY <1>1 DEF Arrive, Proceed
<1>2. ASSUME NEW p \in Requests, Resume(p)
      PROVE  op'[r] \in Ops /\ ~ Replays(op'[r]) /\ \A s \in Requests : op[s] # None => op'[s] = op[s]
  BY <1>2 DEF Resume, Proceed, PromiseIsKept, Handling
<1>3. ASSUME NEW p \in Requests, Work(p) \/ AnswerJson(p) \/ AnswerHtml(p)
      PROVE  FALSE
  BY <1>3 DEF Work, AnswerJson, AnswerHtml
<1>4. ASSUME NEW p \in Requests,
             RequestTimeout(p) \/ LateTimer(p) \/ ClientGone(p) \/ ResponseError(p)
      PROVE  FALSE
  BY <1>4 DEF RequestTimeout, LateTimer, ClientGone, ResponseError
<1>5. ASSUME SweepInFlight \/ SweepCache \/ Tick
      PROVE  FALSE
  BY <1>5 DEF SweepInFlight, SweepCache, Tick
<1>6. QED
  BY <1>1, <1>2, <1>3, <1>4, <1>5 DEF Next

\* The cache has forgotten a key that is run again.
LEMMA KeyStep ==
  ASSUME GuardsInv, Next, NEW r \in Requests, NEW s \in Requests,
         phase[r] # "running", phase'[r] = "running",
         worked[s] # None, phase[s] = "ended", Key[op'[r]] # None, Key[op[s]] = Key[op'[r]]
  PROVE  now - worked[s] >= Ttl
<1> DEFINE k == Key[op'[r]]
<1>1. k \in Keys /\ ~ (cache[k] # None /\ now - cache[k].at < Ttl)
  BY Starts DEF Replays, Keys
<1>2. \/ now - worked[s] >= Ttl
      \/ cache[k] # None /\ cache[k].at >= worked[s]
  BY <1>1 DEF GuardsInv, CacheRemembers
<1>3. now \in Nat /\ Ttl \in Nat /\ worked[s] \in Nat /\ (cache[k] # None => cache[k].at \in Nat)
  BY <1>1, GuardsAssumption DEF GuardsInv, TypeOK
<1>4. QED
  BY <1>1, <1>2, <1>3

-----------------------------------------------------------------------------
(* Server *)

\* A process that has just started has its database.
LEMMA ServerInit == Process!Init => Process!ServerInv
BY ProcessAssumption DEF Process!Init, Process!ServerInv, Process!ServerAssumption,
   Process!ConnStates, Process!JobStates, Process!DatabaseOutlivesClients

\* The database is closed only when the last connection has gone.
LEMMA ServerStep == Process!ServerInv /\ [Process!Next]_processVars => Process!ServerInv'
<1> SUFFICES ASSUME Process!ServerInv, [Process!Next]_processVars PROVE Process!ServerInv'
  OBVIOUS
<1> USE ProcessAssumption DEF Process!ServerInv, Process!ServerAssumption, Process!ConnStates,
      Process!JobStates, Process!DatabaseOutlivesClients, Process!Running, Process!jobVars,
      Process!shutdownVars
<1>1. ASSUME NEW c \in Conns,
             \/ Process!Connect(c) \/ Process!NextRequest(c)
             \/ Process!Answer(c) \/ Process!EndConnection(c)
             \/ Process!RequestTimeout(c) \/ Process!ClientLeaves(c)
      PROVE  Process!ServerInv'
  BY <1>1 DEF Process!Connect, Process!NextRequest, Process!Answer, Process!EndConnection,
     Process!RequestTimeout, Process!ClientLeaves, Process!Become
<1>2. ASSUME NEW j \in Jobs, Process!AddJob(j) \/ Process!StartJob(j) \/ Process!EndJob(j)
      PROVE  Process!ServerInv'
  BY <1>2 DEF Process!AddJob, Process!StartJob, Process!EndJob, Process!SetJob
<1>3. CASE Process!Signal
  BY <1>3 DEF Process!Signal
<1>4. CASE \/ Process!ServerClosed \/ Process!DatabaseClosed \/ Process!ForceExit
           \/ Process!Ready \/ Process!LoneHandlerEnds
  BY <1>4 DEF Process!ServerClosed, Process!DatabaseClosed, Process!ForceExit, Process!Ready,
     Process!LoneHandlerEnds, Process!Exit
<1>5. CASE UNCHANGED processVars
  BY <1>5 DEF processVars
<1>6. QED
  BY <1>1, <1>2, <1>3, <1>4, <1>5 DEF Process!Next

-----------------------------------------------------------------------------
(* The two together *)

\* Every answer is true of the work that was done, whoever gave it, and no client that
\* still waits for one finds the database closed: for any number of requests,
\* operations, connections, jobs and signals.
THEOREM AnswersAreTrue == RequestsSpec => []RequestsInv
<1>1. RequestsInit => RequestsInv
  BY GuardsInit, ServerInit DEF RequestsInit, RequestsInv
<1>2. RequestsInv /\ [RequestsNext]_<<vars, processVars, part>> => RequestsInv'
  <2> SUFFICES ASSUME RequestsInv, [RequestsNext]_<<vars, processVars, part>>
               PROVE  RequestsInv'
    OBVIOUS
  <2>1. [Next]_vars /\ [Process!Next]_processVars
    BY DEF RequestsNext
  <2>2. QED
    BY <2>1, GuardsStep, ServerStep DEF RequestsInv
<1>3. QED
  BY <1>1, <1>2, PTL DEF RequestsSpec

\* After the work and the answer of a request its key begins no other within the
\* lifetime of the cache.
THEOREM KeysAreRemembered == RequestsSpec => KeyIsRemembered
<1>1. RequestsInv /\ [RequestsNext]_<<vars, processVars, part>> =>
        [\A r, s \in Requests :
           /\ phase[r] # "running" /\ phase'[r] = "running"
           /\ worked[s] # None /\ phase[s] = "ended"
           /\ Key[op'[r]] # None /\ Key[op[s]] = Key[op'[r]]
           => now - worked[s] >= Ttl]_vars
  BY KeyStep DEF RequestsNext, RequestsInv
<1>2. QED
  BY <1>1, AnswersAreTrue, PTL DEF RequestsSpec, KeyIsRemembered

-----------------------------------------------------------------------------
(* What a client may rely on *)

\* A request about which the client could not tell a difference.
Rests(q) ==
  op'[q] = op[q] /\ phase'[q] = phase[q] /\ worked'[q] = worked[q] /\ answer'[q] = answer[q]

Moves(r) ==
  \/ Promised!Stay(r) \/ Promised!Ask(r) \/ Promised!Begin(r)
  \/ Promised!Spare(r) \/ Promised!Do(r) \/ Promised!Finish(r) \/ Promised!GiveUp(r)

\* Of what a promise's step says of a request, the run is its phase.
LEMMA RunIsPhase ==
  ASSUME NEW r \in Requests
  PROVE  /\ [q \in Requests |-> Run(q)][r] = Run(r)
         /\ [q \in Requests |-> Run(q)]'[r] = Run(r)'
OBVIOUS

\* Who rests stays as he was.
LEMMA WhoRestsStays ==
  ASSUME NEW q \in Requests, Rests(q)
  PROVE  Promised!Stay(q)
<1>1. Run(q)' = Run(q)
  BY DEF Rests, Run, Handling
<1>2. QED
  BY <1>1, RunIsPhase DEF Rests, Promised!Stay, Promised!Undone, Promised!Untold

\* A step that one request makes is one of the promise's, when the others rest.
LEMMA OneMoves ==
  ASSUME NEW r \in Requests, Moves(r), now' >= now,
         \A q \in Requests \ {r} : Rests(q)
  PROVE  Promised!PromiseNext
<1>1. ASSUME NEW q \in Requests
      PROVE  Moves(q)
  BY WhoRestsStays DEF Moves
<1>2. QED
  BY <1>1 DEF Moves, Promised!PromiseNext

\* A handler that works is a request that does what it was asked.
LEMMA HandlerWorks ==
  ASSUME GuardsInv, NEW r \in Requests, Work(r)
  PROVE  Promised!PromiseNext
<1> USE DEF GuardsInv
<1>1. /\ phase[r] = "running" /\ phase' = [phase EXCEPT ![r] = "worked"]
      /\ worked' = [worked EXCEPT ![r] = now]
      /\ op' = op /\ now' = now /\ answer' = answer /\ worked[r] = None
  BY DEF Work, PromiseIsKept, Handling
<1>2. Run(r) = "running" /\ Run(r)' = "running"
  BY <1>1 DEF Run, Handling, TypeOK
<1>3. Promised!Do(r)
  BY <1>1, <1>2, RunIsPhase DEF Promised!Do, Promised!Untold, TypeOK
<1>4. \A q \in Requests \ {r} : Rests(q)
  BY <1>1 DEF Rests, TypeOK
<1>5. now' >= now
  BY <1>1 DEF TypeOK
<1>6. QED
  BY <1>3, <1>4, <1>5, OneMoves DEF Moves

\* A handler that ends is a request that finishes, with its own outcome.
LEMMA HandlerFinishes ==
  ASSUME GuardsInv, NEW r \in Requests, AnswerJson(r) \/ AnswerHtml(r)
  PROVE  Promised!PromiseNext
<1> USE DEF GuardsInv
<1>1. /\ phase[r] \in {"running", "worked"} /\ phase' = [phase EXCEPT ![r] = "ended"]
      /\ worked' = worked /\ op' = op /\ now' = now
  BY DEF AnswerJson, AnswerHtml, Handling
<1>2. PICK st \in {"html", IF phase[r] = "worked" THEN "ok" ELSE "failed"} :
        answer' = IF Sent(r) THEN answer ELSE [answer EXCEPT ![r] = R(r, st)]
  BY DEF AnswerJson, AnswerHtml, SendJson, Send
<1>4. phase[r] = "worked" <=> worked[r] # None
  BY <1>1 DEF PromiseIsKept, Handling
<1>5. \/ answer[r] # None /\ answer'[r] = answer[r]
      \/ answer[r] = None /\ answer'[r] = R(r, st)
  BY <1>2 DEF TypeOK, Sent
<1>6. R(r, st) \in [from : {r}, status : {"html", IF worked[r] = None THEN "failed" ELSE "ok"}]
  BY <1>4 DEF R
<1>7. Run(r) = "running" /\ Run(r)' = "over"
  BY <1>1 DEF Run, Handling, TypeOK
<1>8. Promised!Finish(r)
  BY <1>1, <1>5, <1>6, <1>7, RunIsPhase DEF Promised!Finish, Promised!Undone, Promised!Untold
<1>9. \A q \in Requests \ {r} : Rests(q)
  BY <1>1, <1>2 DEF Rests, TypeOK
<1>10. now' >= now
  BY <1>1 DEF TypeOK
<1>11. QED
  BY <1>8, <1>9, <1>10, OneMoves DEF Moves

\* A timeout, a client that goes and an error of the response end the listening.
LEMMA ListenerGivesUp ==
  ASSUME GuardsInv, NEW r \in Requests, RequestTimeout(r) \/ ClientGone(r) \/ ResponseError(r)
  PROVE  Promised!PromiseNext
<1> USE DEF GuardsInv
<1>1. answer[r] = None /\ UNCHANGED <<now, op, phase, worked>>
  BY DEF RequestTimeout, TimesOut, ClientGone, ResponseError, Sent
<1>2. \E st \in {"timeout", "gone"} : answer' = [answer EXCEPT ![r] = R(r, st)]
  BY DEF RequestTimeout, TimesOut, ClientGone, ResponseError, SendJson, Send, Sent
<1>3. answer'[r] \in [from : {r}, status : {"timeout", "gone"}]
  BY <1>2 DEF R, TypeOK
<1>4. Run(r)' = Run(r)
  BY <1>1 DEF Run, Handling
<1>5. Promised!GiveUp(r)
  BY <1>1, <1>3, <1>4, RunIsPhase DEF Promised!GiveUp, Promised!Undone
<1>6. \A q \in Requests \ {r} : Rests(q)
  BY <1>1, <1>2 DEF Rests, TypeOK
<1>7. now' >= now
  BY <1>1 DEF TypeOK
<1>8. QED
  BY <1>5, <1>6, <1>7, OneMoves DEF Moves

\* Timers and sweeps that clear an entry, and the clock, tell nobody anything.
LEMMA TimersTellNothing ==
  ASSUME GuardsInv,
         \/ \E r \in Requests : LateTimer(r)
         \/ SweepInFlight \/ SweepCache \/ Tick \/ UNCHANGED vars
  PROVE  Promised!PromiseNext
<1>1. UNCHANGED <<op, phase, worked, answer>> /\ now' \in {now, now + 1}
  BY DEF LateTimer, SweepInFlight, SweepCache, Tick, vars
<1>2. now' >= now
  BY <1>1 DEF GuardsInv, TypeOK
<1>3. \A q \in Requests : Rests(q)
  BY <1>1 DEF Rests
<1>4. QED
  BY <1>2, <1>3, WhoRestsStays DEF Promised!PromiseNext

\* A request that goes on begins its work, with a key that is forgotten, or is
\* spared it by the cache.
LEMMA ProceedMoves ==
  ASSUME GuardsInv, Next, NEW r \in Requests, NEW o \in Ops, Proceed(r, o),
         phase[r] = "new" \/ (phase[r] = "waiting" /\ op[r] = o),
         op' = [op EXCEPT ![r] = o], now' = now, worked' = worked
  PROVE  Promised!PromiseNext
<1> USE DEF GuardsInv
<1>1. /\ op'[r] = o /\ op[r] \in {None, o} /\ Run(r) = "no" /\ worked[r] = None
      /\ \A q \in Requests \ {r} : op'[q] = op[q]
  BY DEF Run, PromiseIsKept, Handling, TypeOK
<1>2. Promised!Asked(r) /\ Promised!Undone(r)
  BY <1>1 DEF Promised!Asked, Promised!Undone
<1>3. now' >= now
  BY DEF TypeOK
<1>4. CASE ~ Replays(o)
  <2>1. phase' = [phase EXCEPT ![r] = "running"] /\ answer' = answer
    BY <1>4 DEF Proceed
  <2>2. Run(r)' = "running" /\ phase[r] # "running" /\ phase'[r] = "running"
    BY <2>1 DEF Run, Handling, TypeOK
  <2>3. ASSUME Key[o] # None, NEW s \in Requests, worked[s] # None, Run(s) = "over",
               Key[op[s]] = Key[o]
        PROVE  now - worked[s] >= Ttl
    <3>1. phase[s] = "ended"
      BY <2>3 DEF Run, PromiseIsKept, Handling
    <3>2. QED
      BY <1>1, <2>2, <2>3, <3>1, KeyStep
  <2>4. Key[op'[r]] # None => Promised!Forgotten(Key[op'[r]])
    BY <1>1, <2>3, RunIsPhase DEF Promised!Forgotten
  <2>5. Promised!Begin(r)
    BY <1>1, <1>2, <2>1, <2>2, <2>4, RunIsPhase DEF Promised!Begin, Promised!Untold
  <2>6. \A q \in Requests \ {r} : Rests(q)
    BY <1>1, <2>1 DEF Rests, TypeOK
  <2>7. QED
    BY <1>3, <2>5, <2>6, OneMoves DEF Moves
<1>5. CASE Replays(o)
  <2> DEFINE k == Key[o]
             result == cache[k].result
             s == result.from
  <2>1. /\ phase' = [phase EXCEPT ![r] = "ended"]
        /\ answer' = IF Sent(r) THEN answer ELSE [answer EXCEPT ![r] = result]
    BY <1>5 DEF Proceed, Send
  <2>2. k \in Keys /\ cache[k] # None
    BY <1>5 DEF Replays, Keys
  <2>3. /\ result \in Results /\ s \in Requests
        /\ worked[s] # None /\ Key[op[s]] = k
    BY <2>2 DEF ResultIsTrue, TypeOK, Results
  <2>4. s \in Requests \ {r} /\ Key[op'[s]] = Key[op'[r]]
    BY <1>1, <2>3
  <2>5. result \in [from : {s}, status : {"ok", "failed", "timeout"}]
    BY <2>3 DEF Results
  <2>6. \/ answer[r] # None /\ answer'[r] = answer[r]
        \/ answer[r] = None /\ answer'[r] = result
    BY <2>1 DEF TypeOK, Sent
  <2>7. Run(r)' = "over"
    BY <2>1 DEF Run, Handling, TypeOK
  <2>8. \A q \in Requests \ {r} : Rests(q)
    BY <1>1, <2>1 DEF Rests, TypeOK
  <2> HIDE DEF k, result, s
  <2>9. Promised!Spare(r)
    BY <1>1, <1>2, <2>3, <2>4, <2>5, <2>6, <2>7, RunIsPhase
       DEF Promised!Spare, Promised!Undone, Promised!Untold
  <2>10. QED
    BY <1>3, <2>8, <2>9, OneMoves DEF Moves
<1>6. QED
  BY <1>4, <1>5

\* A request that arrives is asked for, and at once begins, or is spared.
LEMMA ArriveMoves ==
  ASSUME GuardsInv, Next, NEW r \in Requests, NEW o \in Ops, Arrive(r, o)
  PROVE  Promised!PromiseNext
<1> USE DEF GuardsInv
<1>1. /\ op[r] = None /\ phase[r] = "new"
      /\ op' = [op EXCEPT ![r] = o] /\ now' = now /\ worked' = worked
  BY DEF Arrive, PromiseIsKept, Handling
<1>2. CASE inflight[Fingerprint[o]] # None /\ now - inflight[Fingerprint[o]].at < Window
  <2>1. phase' = [phase EXCEPT ![r] = "waiting"] /\ answer' = answer
    BY <1>2 DEF Arrive
  <2>2. Run(r) = "no" /\ Run(r)' = "no" /\ op'[r] = o
    BY <1>1, <2>1 DEF Run, Handling, TypeOK
  <2>3. Promised!Ask(r)
    BY <1>1, <2>1, <2>2, RunIsPhase
       DEF Promised!Ask, Promised!Asked, Promised!Undone, Promised!Untold
  <2>4. \A q \in Requests \ {r} : Rests(q)
    BY <1>1, <2>1 DEF Rests, TypeOK
  <2>5. now' >= now
    BY <1>1 DEF TypeOK
  <2>6. QED
    BY <2>3, <2>4, <2>5, OneMoves DEF Moves
<1>3. CASE ~ (inflight[Fingerprint[o]] # None /\ now - inflight[Fingerprint[o]].at < Window)
  <2>1. Proceed(r, o)
    BY <1>3 DEF Arrive
  <2>2. QED
    BY <1>1, <2>1, ProceedMoves
<1>4. QED
  BY <1>2, <1>3

\* A duplicate is spared by the request it waited for, or goes on.
LEMMA ResumeMoves ==
  ASSUME GuardsInv, Next, NEW r \in Requests, Resume(r)
  PROVE  Promised!PromiseNext
<1> USE DEF GuardsInv
<1> DEFINE q == waitsFor[r]
           result == promise[q]
<1>1. /\ phase[r] = "waiting" /\ op[r] \in Ops /\ worked[r] = None /\ promise[r] = None
      /\ q \in Requests /\ q # None /\ Owns(q, FingerprintOf(r))
      /\ UNCHANGED <<now, op, worked>>
  BY DEF Resume, PromiseIsKept, Handling, InFlightIsOwn, TypeOK
<1>2. CASE result \in Results /\ answer[r] \in {None, R(r, "gone")}
  <2>1. /\ result.from = q /\ FingerprintOf(q) = FingerprintOf(r) /\ q # r
        /\ result.status = "ok" => worked[q] # None
    BY <1>1, <1>2 DEF Owns, ResultIsTrue, R, Results
  <2>2. result \in [from : {q}, status : {"ok", "failed", "timeout"}]
    BY <1>2, <2>1 DEF Results
  <2>3. /\ answer' = [answer EXCEPT ![r] = IF @ = None THEN result ELSE @]
        /\ phase' = [phase EXCEPT ![r] = "ended"]
    BY <1>2 DEF Resume
  <2>4. Run(r) = "no" /\ Run(r)' = "over"
    BY <1>1, <2>3 DEF Run, Handling, TypeOK
  <2>5. Fingerprint[op'[q]] = Fingerprint[op'[r]] /\ worked'[q] = worked[q]
    BY <1>1, <2>1 DEF FingerprintOf
  <2>6. \A p \in Requests \ {r} : Rests(p)
    BY <1>1, <2>3 DEF Rests, TypeOK
  <2>7. \/ answer[r] # None /\ answer'[r] = answer[r]
        \/ answer[r] = None /\ answer'[r] = result
    BY <2>3 DEF TypeOK
  <2>8. now' >= now
    BY <1>1 DEF TypeOK
  <2> HIDE DEF q, result
  <2>9. Promised!Asked(r) /\ Promised!Undone(r)
    BY <1>1 DEF Promised!Asked, Promised!Undone
  <2>10. Promised!Spare(r)
    BY <1>1, <2>1, <2>2, <2>4, <2>5, <2>7, <2>9, RunIsPhase
       DEF Promised!Spare, Promised!Undone, Promised!Untold
  <2>11. QED
    BY <2>6, <2>8, <2>10, OneMoves DEF Moves
<1>3. CASE ~ (result \in Results /\ answer[r] \in {None, R(r, "gone")})
  <2>1. Proceed(r, op[r])
    BY <1>3 DEF Resume
  <2>2. op' = [op EXCEPT ![r] = op[r]]
    BY <1>1 DEF TypeOK
  <2>3. QED
    BY <1>1, <2>1, <2>2, ProceedMoves
<1>4. QED
  BY <1>2, <1>3

\* Every step of the guards is one that the promise allows.
LEMMA GuardsPromise == GuardsInv /\ [Next]_vars => Promised!PromiseNext
<1> SUFFICES ASSUME GuardsInv, [Next]_vars PROVE Promised!PromiseNext
  OBVIOUS
<1>1. ASSUME Next, NEW r \in Requests, \E o \in Ops : Arrive(r, o) PROVE Promised!PromiseNext
  BY <1>1, ArriveMoves
<1>2. ASSUME Next, NEW r \in Requests, Resume(r) PROVE Promised!PromiseNext
  BY <1>2, ResumeMoves
<1>3. QED
  BY <1>1, <1>2, HandlerWorks, HandlerFinishes, ListenerGivesUp, TimersTellNothing DEF Next

\* Before the first request nobody was promised anything.
LEMMA PromiseStarts == Init => Promised!PromiseInit
BY DEF Init, Promised!PromiseInit, Run, Handling

\* Every client is told one outcome, of its own work or of work it shares a fingerprint
\* or a key with; it works at most once, and does not begin while an answer of its key
\* is remembered: for any number of requests and any fingerprints, keys and durations.
THEOREM AnswersAreKept == RequestsSpec => KeepsAnswerPromise
<1>1. RequestsInit => Promised!PromiseInit
  BY PromiseStarts DEF RequestsInit
<1>2. RequestsInv /\ [RequestsNext]_<<vars, processVars, part>> =>
        [Promised!PromiseNext]_(Promised!promiseVars)
  BY GuardsPromise DEF RequestsInv, RequestsNext
<1>3. QED
  BY <1>1, <1>2, AnswersAreTrue, PTL
     DEF RequestsSpec, KeepsAnswerPromise, Promised!Promise
=============================================================================
