----------------------------- MODULE BurnOnRead -----------------------------
(***************************************************************************)
(* Reading a link: the landing page and its password, the download with a  *)
(* token (controllers/publicController.js), the preview                    *)
(* (controllers/previewController.js), and the deletion that a             *)
(* burn-after-read link queues after its download (jobs/scheduler.js).     *)
(*                                                                         *)
(* A download is a handler with awaits in between, so any number of them   *)
(* are under way at once.  How its stream may end is StreamPipe's subject; *)
(* here it ends in one of the ways StreamPipe allows.                      *)
(*                                                                         *)
(* A burn job is as safe as its queue (jobs/bullQueue.js): Redis keeps it  *)
(* over a restart, memory does not, and an add that failed leaves the      *)
(* process with a queue in memory that has no handlers.                    *)
(***************************************************************************)
EXTENDS Naturals

CONSTANTS
  Links, Visitors,
  Downloads,    \* ids of the requests for a download
  Expiries,     \* moments a link may be set to expire
  Never,        \* no expiry
  None,         \* a request that was not made, a job that was not queued
  MaxNow,       \* bound: the last moment
  MaxUpdates,   \* bound: updates of a link by its owner
  MaxFaults     \* bound: failures of the database or Redis, and restarts

ASSUME ReadAssumption ==
  /\ Expiries \subseteq Nat
  /\ {MaxNow, MaxUpdates, MaxFaults} \subseteq Nat
  /\ Never \notin Nat

VARIABLES
  cloud,     \* storage gives out URLs, and the client fetches from there
  row,       \* the links' rows
  file,      \* their files: "here", "gone", or "left" by a deletion that failed
  now,
  tokens,    \* download tokens that were issued: a link and an expiry
  unlocked,  \* sessions in which the password of a link was given
  dl,        \* the downloads
  job,       \* the burn job of a download
  queue,     \* where addJob puts one: "redis", "memory", or the "fallback"
  ready,     \* initScheduler has registered the handler
  reads,     \* history: how often the content of a link was given out
  updates, faults

queueVars == <<queue, ready>>
vars == <<cloud, row, file, now, tokens, unlocked, dl, job, queueVars, reads, updates, faults>>

Row == [here : BOOLEAN, burn : BOOLEAN, password : BOOLEAN, landing : BOOLEAN,
        exp : Expiries \cup {Never}]
Phases == {"fetched", "open", "redirected", "whole", "cut", "failed", "over"}
Fetches == [link : Links, burn : BOOLEAN, phase : Phases,
            ended : {"whole", "cut", "failed"} \cup {None}]
Jobs == [state : {"waiting", "unlinked", "done", "dead", "lost"}, tries : Nat,
         kept : BOOLEAN]  \* in Redis, and not in memory
Tokens == [link : Links, exp : Expiries \cup {Never}]

\* undefined and null are nothing that is stored.
ASSUME NoneAssumption == None \notin Fetches \cup Jobs

\* expires_at && expires_at < Date.now()
Expired(exp) == exp # Never /\ exp < now

-----------------------------------------------------------------------------
(* Landing page, password, tokens *)

\* The landing page of an expired link says so, and has a token all the same.
\* A protected one asks for the password until the session has given it.
RenderLandingPage(v, l) ==
  /\ row[l].here /\ row[l].landing
  /\ row[l].password => <<v, l>> \in unlocked
  /\ tokens' = tokens \cup {[link |-> l, exp |-> row[l].exp]}
  /\ UNCHANGED <<cloud, row, file, now, unlocked, dl, job, queueVars, reads, updates, faults>>

\* The owner's list has a direct link for every row.
ListLink(l) ==
  /\ row[l].here
  /\ tokens' = tokens \cup {[link |-> l, exp |-> row[l].exp]}
  /\ UNCHANGED <<cloud, row, file, now, unlocked, dl, job, queueVars, reads, updates, faults>>

\* The right password; a wrong one changes nothing.
VerifyLinkPassword(v, l) ==
  /\ row[l].here /\ row[l].landing /\ row[l].password
  /\ unlocked' = unlocked \cup {<<v, l>>}
  /\ UNCHANGED <<cloud, row, file, now, tokens, dl, job, queueVars, reads, updates, faults>>

-----------------------------------------------------------------------------
(* Download *)

\* Mutant: a token is good for ever.
MutStartDownload(d, v, t) ==
  /\ dl[d] = None
  /\ row[t.link].here
  /\ row[t.link].password => <<v, t.link>> \in unlocked
  /\ dl' = [dl EXCEPT ![d] = [link |-> t.link, burn |-> row[t.link].burn,
                              phase |-> "fetched", ended |-> None]]
  /\ reads' = [reads EXCEPT ![t.link] = @ + 1]
  /\ UNCHANGED <<cloud, row, file, now, tokens, unlocked, job, queueVars, updates, faults>>

\* The expiry that counts is the token's; the row is read once, and its burn flag
\* is what the end of the handler will go by.
StartDownload(d, v, t) ==
  /\ dl[d] = None
  /\ ~Expired(t.exp)
  /\ row[t.link].here
  /\ row[t.link].password => <<v, t.link>> \in unlocked
  /\ dl' = [dl EXCEPT ![d] = [link |-> t.link, burn |-> row[t.link].burn,
                              phase |-> "fetched", ended |-> None]]
  /\ reads' = [reads EXCEPT ![t.link] = @ + 1]
  /\ UNCHANGED <<cloud, row, file, now, tokens, unlocked, job, queueVars, updates, faults>>

SetPhase(d, phase, ended) ==
  /\ dl' = [dl EXCEPT ![d].phase = phase, ![d].ended = ended]
  /\ UNCHANGED <<cloud, row, file, now, tokens, unlocked, job, queueVars, reads, updates, faults>>

\* A redirect to the provider, or a stream from local storage, where a missing
\* file is an error and the end of the handler.
OpenFile(d) ==
  /\ dl[d] # None /\ dl[d].phase = "fetched"
  /\ IF cloud THEN SetPhase(d, "redirected", None)
     ELSE IF file[dl[d].link] # "gone" THEN SetPhase(d, "open", None)
     ELSE SetPhase(d, "over", "failed")

\* The stream is sent as a whole; or it is cut, because the client went away or
\* it failed after the headers, which is logged; or it fails before them.
StreamEnds(d) ==
  /\ dl[d] # None /\ dl[d].phase = "open"
  /\ \/ SetPhase(d, "whole", "whole")
     \/ SetPhase(d, "cut", "cut")
     \/ SetPhase(d, "over", "failed")

\* The client follows the redirect at its own time.
FetchFromCloud(d) ==
  /\ cloud
  /\ dl[d] # None /\ dl[d].phase \in {"redirected", "over"} /\ dl[d].ended = None
  /\ SetPhase(d, dl[d].phase, IF file[dl[d].link] # "gone" THEN "whole" ELSE "failed")

BurnJobOf(state, kept) == [state |-> state, tries |-> 0, kept |-> kept]

\* addJob: a job in Redis or in memory.  If the add fails the fallback takes the
\* job, which Redis may have stored all the same, and all that follow.
AddJob(d) ==
  \/ /\ job' = [job EXCEPT ![d] = BurnJobOf("waiting", queue = "redis")]
     /\ UNCHANGED <<queue, faults>>
  \/ /\ queue = "redis" /\ queue' = "fallback"
     /\ faults < MaxFaults /\ faults' = faults + 1
     /\ \E stored \in BOOLEAN : job' = [job EXCEPT ![d] = BurnJobOf("waiting", stored)]

\* What follows the download, however it ended, unless an exception did.
QueueBurn(d) ==
  /\ dl[d] # None /\ dl[d].phase \in {"whole", "cut", "redirected"}
  /\ dl' = [dl EXCEPT ![d].phase = "over"]
  /\ IF dl[d].burn THEN AddJob(d) ELSE UNCHANGED <<job, queue, faults>>
  /\ UNCHANGED <<cloud, row, file, now, tokens, unlocked, ready, reads, updates>>

\* The preview looks at the row's expiry, and has no part in burning.
StreamPreview(l) ==
  /\ row[l].here /\ row[l].landing
  /\ ~Expired(row[l].exp)
  /\ file[l] # "gone"
  /\ reads' = [reads EXCEPT ![l] = @ + 1]
  /\ UNCHANGED <<cloud, row, file, now, tokens, unlocked, dl, job, queueVars, updates, faults>>

-----------------------------------------------------------------------------
(* The burn job *)

MaxTries == 3
MaxStalled == 3

\* Mutant: a burn is tried once.
MutJobFails(d) ==
  job' = [job EXCEPT ![d].state = "dead", ![d].tries = @ + 1]

\* A job that throws is tried again, and is a dead letter in the end.
JobFails(d) ==
  LET n == job[d].tries + 1
  IN  job' = [job EXCEPT ![d] = [@ EXCEPT
                !.state = IF n < MaxTries THEN "waiting" ELSE "dead", !.tries = n]]

\* A worker in Redis, or the memory queue if it is the one with the handlers.
HasHandler(d) == ready /\ (job[d].kept \/ queue = "memory")

Waiting(d) == job[d] # None /\ job[d].state = "waiting"

\* permanentlyDeleteLink throws if there is no row, and deletes the file first.  A
\* deletion that fails answers false, or is caught.
BurnFile(d) ==
  /\ Waiting(d) /\ HasHandler(d)
  /\ IF row[dl[d].link].here
       THEN /\ \E left \in {"gone", "left"} :
                 file' = [file EXCEPT ![dl[d].link] = IF @ = "gone" THEN @ ELSE left]
            /\ job' = [job EXCEPT ![d].state = "unlinked"]
       ELSE JobFails(d) /\ UNCHANGED file
  /\ UNCHANGED <<cloud, row, now, tokens, unlocked, dl, queueVars, reads, updates, faults>>

BurnRow(d) ==
  /\ job[d] # None /\ job[d].state = "unlinked"
  /\ row' = [row EXCEPT ![dl[d].link].here = FALSE]
  /\ job' = [job EXCEPT ![d].state = "done"]
  /\ UNCHANGED <<cloud, file, now, tokens, unlocked, dl, queueVars, reads, updates, faults>>

BurnQueryFails(d) ==
  /\ \/ Waiting(d) /\ HasHandler(d)
     \/ job[d] # None /\ job[d].state = "unlinked"
  /\ faults < MaxFaults /\ faults' = faults + 1
  /\ JobFails(d)
  /\ UNCHANGED <<cloud, row, file, now, tokens, unlocked, dl, queueVars, reads, updates>>

\* The memory queue drops a job it has no handler for.
BurnDropped(d) ==
  /\ Waiting(d) /\ ~ job[d].kept /\ ~ HasHandler(d)
  /\ job' = [job EXCEPT ![d].state = "lost"]
  /\ UNCHANGED <<cloud, row, file, now, tokens, unlocked, dl, queueVars, reads, updates, faults>>

-----------------------------------------------------------------------------
(* The process *)

Register ==
  /\ ~ ready /\ ready' = TRUE
  /\ UNCHANGED <<cloud, row, file, now, tokens, unlocked, dl, job, queue, reads, updates, faults>>

\* A download that the process leaves: a client with a URL still has that.
EndOf(x) ==
  IF x.phase = "fetched" THEN "failed" ELSE IF x.phase = "open" THEN "cut" ELSE x.ended
Interrupted(x) == [x EXCEPT !.phase = "over", !.ended = EndOf(x)]

\* A job under way in Redis stalls and is given out again, MaxStalled times; one in
\* memory is lost, and one that was not queued yet never will be.
AfterRestart(d) ==
  IF job[d] # None
  THEN IF job[d].state \notin {"waiting", "unlinked"} THEN {job[d]}
       ELSE IF ~ job[d].kept THEN {[job[d] EXCEPT !.state = "lost"]}
       ELSE {[job[d] EXCEPT !.state = state] :
               state \in {"waiting"} \cup {s \in {"dead"} : faults >= MaxStalled}}
  ELSE IF dl[d] # None /\ dl[d].burn /\ dl[d].phase # "over" THEN {BurnJobOf("lost", FALSE)}
  ELSE {None}

\* The process dies, or is stopped, and starts again; sessions are in a file.
Restart ==
  /\ faults < MaxFaults /\ faults' = faults + 1
  /\ dl' = [d \in Downloads |-> IF dl[d] = None THEN None ELSE Interrupted(dl[d])]
  /\ job' \in {f \in [Downloads -> UNION {AfterRestart(d) : d \in Downloads}] :
                \A d \in Downloads : f[d] \in AfterRestart(d)}
  /\ queue' = IF queue = "fallback" THEN "redis" ELSE queue
  /\ ready' = FALSE
  /\ UNCHANGED <<cloud, row, file, now, tokens, unlocked, reads, updates>>

-----------------------------------------------------------------------------
(* Specification *)

\* The owner sets another expiry.
UpdateExpiry(l, exp) ==
  /\ updates < MaxUpdates /\ updates' = updates + 1
  /\ row[l].here
  /\ row' = [row EXCEPT ![l].exp = exp]
  /\ UNCHANGED <<cloud, file, now, tokens, unlocked, dl, job, queueVars, reads, faults>>

Tick ==
  /\ now < MaxNow /\ now' = now + 1
  /\ UNCHANGED <<cloud, row, file, tokens, unlocked, dl, job, queueVars, reads, updates, faults>>

Init ==
  /\ cloud \in BOOLEAN
  /\ row \in [Links -> {r \in Row : r.here}]
  /\ file = [l \in Links |-> "here"]
  /\ now = 0
  /\ tokens = {} /\ unlocked = {}
  /\ dl = [d \in Downloads |-> None]
  /\ job = [d \in Downloads |-> None]
  /\ queue \in {"redis", "memory"} /\ ready = FALSE
  /\ reads = [l \in Links |-> 0]
  /\ updates = 0 /\ faults = 0

BurnJob(d) == BurnFile(d) \/ BurnRow(d) \/ BurnDropped(d)

Next ==
  \/ \E l \in Links :
       \/ ListLink(l)
       \/ reads[l] < MaxNow /\ StreamPreview(l)
       \/ \E v \in Visitors : RenderLandingPage(v, l) \/ VerifyLinkPassword(v, l)
       \/ \E exp \in Expiries : UpdateExpiry(l, exp)
  \/ \E d \in Downloads :
       \/ \E v \in Visitors, t \in tokens : StartDownload(d, v, t)
       \/ OpenFile(d) \/ StreamEnds(d) \/ FetchFromCloud(d) \/ QueueBurn(d)
       \/ BurnJob(d) \/ BurnQueryFails(d)
  \/ Register \/ Restart
  \/ Tick

Spec == Init /\ [][Next]_vars

\* A handler goes on to its end (a stream has a timeout), the handlers are
\* registered, and workers take jobs.
FairSpec ==
  /\ Spec
  /\ WF_vars(Register)
  /\ \A d \in Downloads :
       /\ WF_vars(OpenFile(d) \/ StreamEnds(d) \/ QueueBurn(d))
       /\ WF_vars(BurnJob(d))

-----------------------------------------------------------------------------
(* Properties *)

\* Every variable has its type.
TypeOK ==
  /\ row \in [Links -> Row]
  /\ file \in [Links -> {"here", "gone", "left"}]
  /\ now \in Nat
  /\ tokens \subseteq Tokens
  /\ unlocked \subseteq Visitors \X Links
  /\ dl \in [Downloads -> Fetches \cup {None}]
  /\ job \in [Downloads -> Jobs \cup {None}]
  /\ queue \in {"redis", "memory", "fallback"} /\ ready \in BOOLEAN
  /\ reads \in [Links -> Nat]
  /\ updates \in Nat /\ faults \in Nat

\* A link disappears, file or row, only after a download of it as a burn link.
GoneForAReason ==
  \A l \in Links : ~row[l].here \/ file[l] # "here" =>
    \E d \in Downloads : dl[d] # None /\ dl[d].link = l /\ dl[d].burn

\* While less than MaxTries things fail, a burn job is given up only because
\* another has burnt the link.
GivenUpMeansGone ==
  \A d \in Downloads : job[d] # None /\ job[d].state = "dead" /\ faults < MaxTries =>
    ~row[dl[d].link].here /\ file[dl[d].link] # "here"

\* A burn job is one of a download as a burn link.  A row goes only after its file
\* was deleted, or the deletion of the file failed.
FileGoesFirst ==
  /\ \A d \in Downloads : job[d] # None =>
       /\ dl[d] # None /\ dl[d].burn
       /\ job[d].state = "unlinked" => file[dl[d].link] # "here"
  /\ \A l \in Links : ~row[l].here => file[l] # "here"

\* As long as its row is there, what a job has failed at is the database; and it is
\* given up after its tries, or after it was found stalled too often.
TriesAreFaults ==
  \A d \in Downloads : job[d] # None =>
    /\ job[d].state = "dead" => job[d].tries >= MaxTries \/ faults >= MaxTries
    /\ row[dl[d].link].here => job[d].tries <= faults

\* Until an expiry is changed, what a token says of it is so.
TokensAreTrue == updates = 0 => \A t \in tokens : t.exp = row[t.link].exp

\* A job that Redis has is not lost, neither to a restart nor to the fallback.
RedisKeepsJobs ==
  \A d \in Downloads : job[d] # None /\ job[d].kept => job[d].state # "lost"

\* The inductive invariant.
ReadingInv ==
  /\ TypeOK /\ GoneForAReason /\ GivenUpMeansGone
  /\ FileGoesFirst /\ TriesAreFaults /\ TokensAreTrue /\ RedisKeepsJobs

\* A burn link that was downloaded goes, its file first, unless its job was lost:
\* with the process, or in a memory queue that has no handler.
BurnsInTheEnd ==
  \A d \in Downloads :
    dl[d] # None /\ dl[d].burn /\ dl[d].ended \in {"whole", "cut"} ~>
      /\ dl[d] # None
      /\ \/ ~row[dl[d].link].here /\ file[dl[d].link] # "here"
         \/ job[d] # None /\ job[d].state = "lost"

\* A link that keeps its expiry is not read after it, by whatever token, stale page
\* or preview.
KeptExpiryIsRespected ==
  [][updates = 0 => \A l \in Links : reads'[l] > reads[l] => ~Expired(row[l].exp)]_vars

\* readme.md:13 "links that automatically expire after a configured period": the
\* content is not given out when the link has expired.
ReadsRespectExpiry ==
  [][\A l \in Links : reads'[l] > reads[l] => ~Expired(row[l].exp)]_vars

\* readme.md:14 "permanently deleted immediately after the first successful
\* download": one download of a burn link ends well, no more.
BurnServesOnce ==
  \A l \in Links, d, e \in Downloads :
    /\ dl[d] # None /\ dl[d].link = l /\ dl[d].burn /\ dl[d].ended = "whole"
    /\ dl[e] # None /\ dl[e].link = l /\ dl[e].burn /\ dl[e].ended = "whole"
    => d = e

\* The same: it is deleted after a successful download.
BurnsOnlyWhenRead ==
  \A l \in Links : file[l] = "gone" =>
    \E d \in Downloads : dl[d] # None /\ dl[d].link = l /\ dl[d].ended = "whole"
=============================================================================
