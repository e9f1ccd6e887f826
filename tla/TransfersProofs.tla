--------------------------- MODULE TransfersProofs ---------------------------
(***************************************************************************)
(* Proofs about BurnOnRead, StreamPipe, UploadForm and FileTypes, as       *)
(* MCTransfers puts them side by side, for any number of links, visitors,  *)
(* downloads, pages, files, keys, faults and restarts, and files of any    *)
(* length.                                                                 *)
(*                                                                         *)
(* That a burn job is given up only when its link is gone needs to know    *)
(* what its tries were spent on (TriesAreFaults) and that the file goes    *)
(* before the row (FileGoesFirst); that a response which finished is whole *)
(* needs the order in which the streams end (EndsInOrder).  That a link    *)
(* has the whole of its file rests on who uses a key: one form or one row  *)
(* (KeysApart), and a form that asks for a key finds one (KeysSuffice).    *)
(***************************************************************************)
EXTENDS MCTransfers, Sequences, FiniteSetTheorems, TLAPS

-----------------------------------------------------------------------------
(* BurnOnRead *)

\* At first every link is there and nothing was asked for.
LEMMA ReadingInit == Init => ReadingInv
<1> SUFFICES ASSUME Init PROVE ReadingInv
  OBVIOUS
<1>1. TypeOK
  BY DEF Init, TypeOK
<1>2. \A l \in Links : row[l].here /\ file[l] = "here"
  BY DEF Init
<1>3. QED
  BY <1>1, <1>2 DEF Init, ReadingInv, GoneForAReason, GivenUpMeansGone, FileGoesFirst,
                    TriesAreFaults, TokensAreTrue, RedisKeepsJobs

\* A token says what its row says, and is all that such a step adds.
LEMMA TokenSteps ==
  ASSUME ReadingInv, NEW l \in Links,
         ListLink(l) \/ \E v \in Visitors : RenderLandingPage(v, l)
  PROVE  ReadingInv'
<1> USE DEF ReadingInv
<1>1. /\ tokens' = tokens \cup {[link |-> l, exp |-> row[l].exp]}
      /\ UNCHANGED <<cloud, row, file, now, unlocked, dl, job, queueVars, reads, updates, faults>>
  BY DEF ListLink, RenderLandingPage
<1>2. [link |-> l, exp |-> row[l].exp] \in Tokens
  BY DEF TypeOK, Row, Tokens
<1>3. TypeOK'
  BY <1>1, <1>2 DEF TypeOK, queueVars
<1>4. TokensAreTrue'
  BY <1>1 DEF TokensAreTrue
<1>5. QED
  BY <1>1, <1>3, <1>4 DEF GoneForAReason, GivenUpMeansGone, FileGoesFirst, TriesAreFaults, RedisKeepsJobs

\* A step that leaves the links, the tokens, the downloads and the jobs alone.
LEMMA IdleSteps ==
  ASSUME ReadingInv, TypeOK',
         UNCHANGED <<row, file, tokens, dl, job, updates, faults>>
  PROVE  ReadingInv'
BY DEF ReadingInv, GoneForAReason, GivenUpMeansGone, FileGoesFirst, TriesAreFaults, RedisKeepsJobs, TokensAreTrue

\* The owner's update changes no link's presence.
LEMMA UpdateKeeps ==
  ASSUME ReadingInv, NEW l \in Links, NEW exp \in Expiries, UpdateExpiry(l, exp)
  PROVE  ReadingInv'
<1> USE DEF ReadingInv
<1>1. /\ row' = [row EXCEPT ![l].exp = exp] /\ updates' = updates + 1
      /\ UNCHANGED <<cloud, file, now, tokens, unlocked, dl, job, queueVars, reads, faults>>
  BY DEF UpdateExpiry
<1>2. \A m \in Links : row'[m].here = row[m].here
  BY <1>1 DEF TypeOK, Row
<1>3. TypeOK'
  <2>1. row' \in [Links -> Row]
    BY <1>1 DEF TypeOK, Row
  <2>2. QED
    BY <1>1, <2>1 DEF TypeOK, queueVars
<1>4. TokensAreTrue'
  BY <1>1 DEF TokensAreTrue, TypeOK
<1>5. \A d \in Downloads : job[d] # None => dl[d].link \in Links
  BY DEF TypeOK, FileGoesFirst, Fetches
<1>6. GoneForAReason' /\ FileGoesFirst'
  BY <1>1, <1>2 DEF GoneForAReason, FileGoesFirst
<1>7. GivenUpMeansGone' /\ TriesAreFaults' /\ RedisKeepsJobs'
  BY <1>1, <1>2, <1>5 DEF GivenUpMeansGone, TriesAreFaults, RedisKeepsJobs
<1>8. QED
  BY <1>3, <1>4, <1>6, <1>7

\* A download begins: it has no job yet.
LEMMA StartKeeps ==
  ASSUME ReadingInv, NEW d \in Downloads, NEW v \in Visitors, NEW t \in tokens,
         StartDownload(d, v, t)
  PROVE  ReadingInv'
<1> USE DEF ReadingInv
<1> DEFINE new == [link |-> t.link, burn |-> row[t.link].burn, phase |-> "fetched", ended |-> None]
<1>1. /\ dl[d] = None /\ job[d] = None
      /\ dl' = [dl EXCEPT ![d] = new]
      /\ reads' = [reads EXCEPT ![t.link] = @ + 1]
      /\ UNCHANGED <<cloud, row, file, now, tokens, unlocked, job, queueVars, updates, faults>>
  BY DEF StartDownload, FileGoesFirst
<1>2. new \in Fetches
  BY DEF TypeOK, Tokens, Row, Fetches, Phases
<1> HIDE DEF new
<1>3. TypeOK'
  <2>1. dl' \in [Downloads -> Fetches \cup {None}]
    BY <1>1, <1>2 DEF TypeOK
  <2>2. reads' \in [Links -> Nat]
    <3>1. t.link \in Links /\ reads[t.link] + 1 \in Nat
      BY DEF TypeOK, Tokens
    <3>2. QED
      BY <1>1, <3>1 DEF TypeOK
  <2>3. QED
    BY <1>1, <2>1, <2>2 DEF TypeOK, queueVars
<1>4. \A e \in Downloads : dl[e] # None \/ job[e] # None => dl'[e] = dl[e]
  BY <1>1 DEF TypeOK
<1>5. GoneForAReason'
  BY <1>1, <1>4 DEF GoneForAReason
<1>6. /\ GivenUpMeansGone' /\ FileGoesFirst' /\ TriesAreFaults' /\ TokensAreTrue'
      /\ RedisKeepsJobs'
  BY <1>1, <1>4 DEF GivenUpMeansGone, FileGoesFirst, TriesAreFaults, RedisKeepsJobs, TokensAreTrue
<1>7. QED
  BY <1>3, <1>5, <1>6

\* What is fixed about a download when it begins.
SameDownloads ==
  \A d \in Downloads : dl[d] # None =>
    dl'[d] # None /\ dl'[d].link = dl[d].link /\ dl'[d].burn = dl[d].burn

\* SetPhase changes two fields of one download.
LEMMA Phase ==
  ASSUME TypeOK, NEW d \in Downloads, dl[d] # None,
         NEW phase \in Phases, NEW ended \in {"whole", "cut", "failed", None},
         dl' = [dl EXCEPT ![d].phase = phase, ![d].ended = ended]
  PROVE  dl' \in [Downloads -> Fetches \cup {None}] /\ SameDownloads
<1>1. dl[d] \in Fetches
  BY DEF TypeOK
<1> DEFINE new == [dl[d] EXCEPT !.phase = phase, !.ended = ended]
<1>2. new \in Fetches /\ new.link = dl[d].link /\ new.burn = dl[d].burn
  BY <1>1 DEF Fetches
<1>3. dl' = [dl EXCEPT ![d] = new]
  BY DEF TypeOK
<1> HIDE DEF new
<1>4. dl' \in [Downloads -> Fetches \cup {None}]
  BY <1>2, <1>3 DEF TypeOK
<1>5. SameDownloads
  BY <1>2, <1>3, NoneAssumption DEF SameDownloads, TypeOK
<1>6. QED
  BY <1>4, <1>5

\* What the end of a download does, however it ends.
LEMMA DownloadShape ==
  ASSUME TypeOK, NEW d \in Downloads,
         OpenFile(d) \/ StreamEnds(d) \/ FetchFromCloud(d) \/ QueueBurn(d)
  PROVE  /\ UNCHANGED <<cloud, row, file, now, tokens, unlocked, ready, reads, updates>>
         /\ dl[d] # None /\ dl' \in [Downloads -> Fetches \cup {None}] /\ SameDownloads
         /\ queue' \in {"redis", "memory", "fallback"} /\ faults' \in {faults, faults + 1}
         /\ \/ job' = job
            \/ /\ dl[d].burn
               /\ \E kept \in BOOLEAN : job' = [job EXCEPT ![d] = BurnJobOf("waiting", kept)]
<1>1. dl[d] # None /\ dl[d] \in Fetches
  BY DEF OpenFile, StreamEnds, FetchFromCloud, QueueBurn, TypeOK
<1>2. ASSUME NEW phase \in Phases, NEW ended \in {"whole", "cut", "failed", None},
             SetPhase(d, phase, ended)
      PROVE  /\ UNCHANGED <<cloud, row, file, now, tokens, unlocked, job, queueVars, reads, updates, faults>>
             /\ dl' \in [Downloads -> Fetches \cup {None}] /\ SameDownloads
  BY <1>1, <1>2, Phase DEF SetPhase
<1>3. CASE OpenFile(d) \/ StreamEnds(d) \/ FetchFromCloud(d)
  <2>1. \E phase \in Phases, ended \in {"whole", "cut", "failed", None} : SetPhase(d, phase, ended)
    BY <1>1, <1>3 DEF OpenFile, StreamEnds, FetchFromCloud, Phases
  <2>2. QED
    BY <1>1, <1>2, <2>1 DEF queueVars, TypeOK
<1>4. CASE QueueBurn(d)
  <2>1. dl' = [dl EXCEPT ![d].phase = "over", ![d].ended = dl[d].ended]
    BY <1>1, <1>4 DEF QueueBurn, TypeOK, Fetches
  <2>2. "over" \in Phases /\ dl[d].ended \in {"whole", "cut", "failed", None}
    BY <1>1 DEF Phases, Fetches
  <2>3. dl' \in [Downloads -> Fetches \cup {None}] /\ SameDownloads
    BY <1>1, <2>1, <2>2, Phase
  <2>4. /\ queue' \in {"redis", "memory", "fallback"} /\ faults' \in {faults, faults + 1}
        /\ \/ job' = job
           \/ /\ dl[d].burn
              /\ \E kept \in BOOLEAN : job' = [job EXCEPT ![d] = BurnJobOf("waiting", kept)]
    BY <1>4 DEF QueueBurn, AddJob, TypeOK
  <2>5. QED
    BY <1>1, <1>4, <2>3, <2>4 DEF QueueBurn
<1>5. QED
  BY <1>3, <1>4

\* The end of a download and the job it queues take nothing away.
LEMMA DownloadSteps ==
  ASSUME ReadingInv, NEW d \in Downloads,
         OpenFile(d) \/ StreamEnds(d) \/ FetchFromCloud(d) \/ QueueBurn(d)
  PROVE  ReadingInv'
<1> USE NoneAssumption DEF ReadingInv
<1>1. /\ UNCHANGED <<cloud, row, file, now, tokens, unlocked, ready, reads, updates>>
      /\ dl[d] # None /\ dl' \in [Downloads -> Fetches \cup {None}] /\ SameDownloads
      /\ queue' \in {"redis", "memory", "fallback"} /\ faults' \in {faults, faults + 1}
      /\ \/ job' = job
         \/ /\ dl[d].burn
            /\ \E kept \in BOOLEAN : job' = [job EXCEPT ![d] = BurnJobOf("waiting", kept)]
  BY DownloadShape
<1>2. faults \in Nat /\ faults' \in Nat /\ faults' >= faults /\ 0 <= faults'
  BY <1>1 DEF TypeOK
<1>3. \A kept \in BOOLEAN : /\ BurnJobOf("waiting", kept) \in Jobs
                            /\ BurnJobOf("waiting", kept).state = "waiting"
                            /\ BurnJobOf("waiting", kept).tries = 0
  BY DEF Jobs, BurnJobOf
<1>4. job' \in [Downloads -> Jobs \cup {None}]
  BY <1>1, <1>3 DEF TypeOK
<1>5. TypeOK'
  BY <1>1, <1>2, <1>4 DEF TypeOK
<1>7. \A e \in Downloads : job'[e] # None =>
        \/ job'[e] = job[e]
        \/ dl[e] # None /\ dl[e].burn /\ job'[e].state = "waiting" /\ job'[e].tries = 0
  BY <1>1, <1>3 DEF TypeOK
<1>8. GoneForAReason' /\ RedisKeepsJobs'
  BY <1>1, <1>7 DEF GoneForAReason, RedisKeepsJobs, SameDownloads
<1>9. FileGoesFirst'
  BY <1>1, <1>7 DEF FileGoesFirst, SameDownloads
<1>10. GivenUpMeansGone'
  BY <1>1, <1>2, <1>7 DEF GivenUpMeansGone, FileGoesFirst, SameDownloads, MaxTries
<1>11. TriesAreFaults' /\ TokensAreTrue'
  <2>1. \A e \in Downloads : job[e] # None => job[e].tries \in Nat
    BY DEF TypeOK, Jobs
  <2>2. QED
    BY <1>1, <1>2, <1>7, <2>1
    DEF TriesAreFaults, TokensAreTrue, FileGoesFirst, SameDownloads, MaxTries
<1>12. QED
  BY <1>5, <1>8, <1>9, <1>10, <1>11

\* A job that throws has one more try behind it, and is dead after the last.
LEMMA Failed ==
  ASSUME TypeOK, NEW d \in Downloads, job[d] # None, JobFails(d)
  PROVE  /\ job' \in [Downloads -> Jobs \cup {None}]
         /\ \A e \in Downloads : e # d => job'[e] = job[e]
         /\ job'[d].state \in {"waiting", "dead"} /\ job'[d].tries = job[d].tries + 1
         /\ job'[d].state = "dead" => job'[d].tries >= MaxTries
<1>1. job[d] \in Jobs /\ job[d].tries \in Nat
  BY DEF TypeOK, Jobs
<1> DEFINE state == IF job[d].tries + 1 < MaxTries THEN "waiting" ELSE "dead"
<1>2. /\ state \in {"waiting", "dead"}
      /\ state = "dead" => job[d].tries + 1 >= MaxTries
  BY <1>1 DEF MaxTries
<1>3. job' = [job EXCEPT ![d] = [@ EXCEPT !.state = state, !.tries = job[d].tries + 1]]
  BY DEF JobFails
<1> HIDE DEF state
<1> DEFINE new == [job[d] EXCEPT !.state = state, !.tries = job[d].tries + 1]
<1>4. new \in Jobs /\ new.state = state /\ new.tries = job[d].tries + 1
  <2>1. job[d].tries + 1 \in Nat
    BY <1>1
  <2>2. new.state = state /\ new.tries = job[d].tries + 1
    BY <1>1 DEF Jobs
  <2>3. new \in Jobs
    BY <1>1, <1>2, <2>1 DEF Jobs
  <2>4. QED
    BY <2>2, <2>3
<1>5. job' = [job EXCEPT ![d] = new]
  BY <1>3 DEF TypeOK
<1> HIDE DEF new
<1>6. QED
  BY <1>1, <1>2, <1>4, <1>5 DEF TypeOK

\* A job fails because its row is gone, or because the database fails.
LEMMA FailureKeeps ==
  ASSUME ReadingInv, NEW d \in Downloads, job[d] # None, JobFails(d),
         UNCHANGED <<cloud, row, file, now, tokens, unlocked, dl, queueVars, reads, updates>>,
         \/ ~row[dl[d].link].here /\ faults' = faults
         \/ faults' = faults + 1
  PROVE  ReadingInv'
<1> USE Failed DEF ReadingInv
<1>1. TypeOK'
  BY DEF TypeOK, queueVars
<1>2. /\ job[d] \in Jobs /\ job[d].tries \in Nat /\ faults \in Nat /\ faults' \in Nat
      /\ dl[d] # None /\ dl[d].burn /\ dl[d].link \in Links
      /\ faults' >= faults
  BY DEF TypeOK, Jobs, FileGoesFirst, Fetches
<1>3. FileGoesFirst'
  BY <1>2 DEF FileGoesFirst
<1>4. TriesAreFaults'
  <2> SUFFICES ASSUME NEW e \in Downloads, job'[e] # None
               PROVE  /\ job'[e].state = "dead" => job'[e].tries >= MaxTries \/ faults' >= MaxTries
                      /\ row[dl[e].link].here => job'[e].tries <= faults'
    BY DEF TriesAreFaults
  <2>1. CASE e = d
    BY <1>2, <2>1 DEF TriesAreFaults
  <2>2. CASE e # d
    <3>1. job'[e] = job[e] /\ job[e].tries \in Nat
      BY <2>2 DEF TypeOK, Jobs
    <3>2. QED
      BY <1>2, <3>1 DEF TriesAreFaults, MaxTries
  <2>3. QED
    BY <2>1, <2>2
<1>5. GivenUpMeansGone'
  <2> SUFFICES ASSUME NEW e \in Downloads, job'[e] # None, job'[e].state = "dead", faults' < MaxTries
               PROVE  ~row[dl[e].link].here /\ file[dl[e].link] # "here"
    BY DEF GivenUpMeansGone
  <2>1. job'[e].tries \in Nat /\ MaxTries \in Nat /\ dl[e].link \in Links /\ faults' \in Nat
    BY <1>1, <1>3 DEF TypeOK, Jobs, MaxTries, FileGoesFirst, Fetches
  <2>2. ~row[dl[e].link].here
    BY <1>2, <1>4, <2>1 DEF TriesAreFaults
  <2>3. QED
    BY <2>1, <2>2 DEF FileGoesFirst
<1>6. GoneForAReason' /\ TokensAreTrue' /\ RedisKeepsJobs'
  BY DEF GoneForAReason, TokensAreTrue, RedisKeepsJobs
<1>7. QED
  BY <1>1, <1>3, <1>4, <1>5, <1>6

\* A job takes the file, and then the row.
LEMMA BurnKeeps ==
  ASSUME ReadingInv, NEW d \in Downloads, BurnJob(d) \/ BurnQueryFails(d)
  PROVE  ReadingInv'
<1> USE DEF ReadingInv
<1>1. /\ job[d] # None /\ job[d] \in Jobs /\ job[d].tries \in Nat
      /\ dl[d] # None /\ dl[d].burn /\ dl[d].link \in Links
  BY DEF BurnJob, BurnFile, BurnRow, BurnDropped, BurnQueryFails, Waiting, TypeOK, Jobs, FileGoesFirst, Fetches
<1>2. CASE BurnQueryFails(d)
  BY <1>1, <1>2, FailureKeeps DEF BurnQueryFails
<1>3. CASE BurnFile(d) /\ ~row[dl[d].link].here
  BY <1>1, <1>3, FailureKeeps DEF BurnFile
<1>4. CASE BurnFile(d) /\ row[dl[d].link].here
  <2>1. /\ \E left \in {"gone", "left"} : file' = [file EXCEPT ![dl[d].link] = left]
        /\ job' = [job EXCEPT ![d] = [@ EXCEPT !.state = "unlinked"]]
        /\ UNCHANGED <<cloud, row, now, tokens, unlocked, dl, queueVars, reads, updates, faults>>
    BY <1>4 DEF BurnFile
  <2>2. [job[d] EXCEPT !.state = "unlinked"] \in Jobs
    BY <1>1 DEF Jobs
  <2>3. /\ job'[d].state = "unlinked" /\ job'[d].tries = job[d].tries
        /\ \A e \in Downloads : e # d => job'[e] = job[e]
    BY <1>1, <2>1 DEF TypeOK, Jobs
  <2>4. /\ file' \in [Links -> {"here", "gone", "left"}]
        /\ \A l \in Links : file[l] # "here" => file'[l] # "here"
        /\ \A l \in Links : l # dl[d].link => file'[l] = file[l]
        /\ file'[dl[d].link] # "here"
    BY <1>1, <2>1 DEF TypeOK
  <2>5. TypeOK'
    BY <2>1, <2>2, <2>4 DEF TypeOK, queueVars
  <2>6. \A e \in Downloads : dl[e] # None => dl[e].link \in Links
    BY DEF TypeOK, Fetches
  <2>7. GoneForAReason'
    BY <1>1, <2>1, <2>4 DEF GoneForAReason
  <2>8. FileGoesFirst'
    BY <1>1, <2>1, <2>3, <2>4, <2>6 DEF FileGoesFirst
  <2>9. GivenUpMeansGone' /\ TriesAreFaults' /\ TokensAreTrue' /\ RedisKeepsJobs'
    BY <1>1, <2>1, <2>3, <2>4, <2>6
    DEF GivenUpMeansGone, TriesAreFaults, TokensAreTrue, RedisKeepsJobs, FileGoesFirst
  <2>10. QED
    BY <2>5, <2>7, <2>8, <2>9
<1>5. CASE BurnRow(d)
  <2>1. /\ row' = [row EXCEPT ![dl[d].link] = [@ EXCEPT !.here = FALSE]]
        /\ job' = [job EXCEPT ![d] = [@ EXCEPT !.state = "done"]]
        /\ UNCHANGED <<cloud, file, now, tokens, unlocked, dl, queueVars, reads, updates, faults>>
        /\ job[d].state = "unlinked"
    BY <1>5 DEF BurnRow
  <2>2. [job[d] EXCEPT !.state = "done"] \in Jobs
    BY <1>1 DEF Jobs
  <2>3. /\ job'[d].state = "done" /\ job'[d].tries = job[d].tries
        /\ \A e \in Downloads : e # d => job'[e] = job[e]
    BY <1>1, <2>1 DEF TypeOK, Jobs
  <2>4. row' \in [Links -> Row]
    BY <1>1, <2>1 DEF TypeOK, Row
  <2>5. /\ \A l \in Links : row'[l].exp = row[l].exp /\ (row'[l].here => row[l].here)
        /\ \A l \in Links : l # dl[d].link => row'[l] = row[l]
        /\ file[dl[d].link] # "here"
    BY <1>1, <2>1 DEF TypeOK, Row, FileGoesFirst
  <2>6. TypeOK'
    BY <2>1, <2>2, <2>4 DEF TypeOK, queueVars
  <2>7. /\ \A e \in Downloads : dl[e] # None => dl[e].link \in Links
        /\ \A t \in tokens : t.link \in Links
    BY DEF TypeOK, Fetches, Tokens
  <2>8. GoneForAReason'
    BY <1>1, <2>1, <2>5 DEF GoneForAReason
  <2>9. FileGoesFirst'
    BY <1>1, <2>1, <2>3, <2>5 DEF FileGoesFirst
  <2>10. GivenUpMeansGone' /\ TriesAreFaults' /\ TokensAreTrue' /\ RedisKeepsJobs'
    BY <1>1, <2>1, <2>3, <2>5, <2>7
    DEF GivenUpMeansGone, TriesAreFaults, TokensAreTrue, RedisKeepsJobs, FileGoesFirst
  <2>11. QED
    BY <2>6, <2>8, <2>9, <2>10
<1>6. CASE BurnDropped(d)
  <2>1. /\ job' = [job EXCEPT ![d] = [@ EXCEPT !.state = "lost"]] /\ ~ job[d].kept
        /\ UNCHANGED <<cloud, row, file, now, tokens, unlocked, dl, queueVars, reads, updates, faults>>
    BY <1>6 DEF BurnDropped
  <2>2. [job[d] EXCEPT !.state = "lost"] \in Jobs
    BY <1>1 DEF Jobs
  <2>3. /\ job'[d].state = "lost" /\ job'[d].tries = job[d].tries /\ ~ job'[d].kept
        /\ \A e \in Downloads : e # d => job'[e] = job[e]
    BY <1>1, <2>1 DEF TypeOK, Jobs
  <2>4. TypeOK'
    BY <2>1, <2>2 DEF TypeOK, queueVars
  <2>5. QED
    BY <1>1, <2>1, <2>3, <2>4
    DEF GoneForAReason, FileGoesFirst, GivenUpMeansGone, TriesAreFaults, TokensAreTrue, RedisKeepsJobs
<1>7. QED
  BY <1>2, <1>3, <1>4, <1>5, <1>6 DEF BurnJob

\* What a restart leaves of a download: its link and its burn flag at least.
LEMMA DownloadsAfterRestart ==
  ASSUME TypeOK, Restart
  PROVE  dl' \in [Downloads -> Fetches \cup {None}] /\ SameDownloads
<1> USE NoneAssumption
<1>1. ASSUME NEW x \in Fetches
      PROVE  /\ Interrupted(x) \in Fetches
             /\ Interrupted(x).link = x.link /\ Interrupted(x).burn = x.burn
  <2>2. "over" \in Phases /\ EndOf(x) \in {"whole", "cut", "failed"} \cup {None}
    BY DEF Fetches, Phases, EndOf
  <2>3. QED
    BY <2>2 DEF Fetches, Interrupted
<1>2. dl' = [d \in Downloads |-> IF dl[d] = None THEN None ELSE Interrupted(dl[d])]
  BY DEF Restart
<1>3. QED
  BY <1>1, <1>2 DEF TypeOK, SameDownloads

\* And of a job: nothing new, but for one that was never queued.
LEMMA JobsAfterRestart ==
  ASSUME TypeOK, Restart, NEW d \in Downloads
  PROVE  /\ job'[d] \in Jobs \cup {None}
         /\ job'[d] # None =>
              \/ job'[d] = job[d]
              \/ /\ job[d] # None /\ job'[d].tries = job[d].tries
                 /\ \/ job'[d].state = "waiting"
                    \/ job'[d].state = "dead" /\ faults >= MaxStalled
                    \/ job'[d].state = "lost" /\ ~ job[d].kept /\ ~ job'[d].kept
              \/ /\ dl[d] # None /\ dl[d].burn
                 /\ job'[d] = BurnJobOf("lost", FALSE)
<1>1. job'[d] \in AfterRestart(d) /\ job[d] \in Jobs \cup {None}
  BY DEF Restart, TypeOK
<1>2. BurnJobOf("lost", FALSE) \in Jobs
  BY DEF BurnJobOf, Jobs
<1>3. CASE job[d] = None
  BY <1>1, <1>2, <1>3 DEF AfterRestart
<1>4. ASSUME job[d] # None, NEW state \in {"waiting", "dead", "lost"},
             job'[d] = [job[d] EXCEPT !.state = state]
      PROVE  /\ job'[d] \in Jobs /\ job'[d].state = state
             /\ job'[d].tries = job[d].tries /\ job'[d].kept = job[d].kept
  BY <1>1, <1>4 DEF Jobs
<1>5. CASE job[d] # None
  <2>1. \/ job'[d] = job[d]
        \/ ~ job[d].kept /\ job'[d] = [job[d] EXCEPT !.state = "lost"]
        \/ job'[d] = [job[d] EXCEPT !.state = "waiting"]
        \/ faults >= MaxStalled /\ job'[d] = [job[d] EXCEPT !.state = "dead"]
    BY <1>1, <1>5 DEF AfterRestart
  <2>2. QED
    BY <1>1, <1>4, <1>5, <2>1
<1>6. QED
  BY <1>3, <1>5

\* A restart takes no link away, and gives up no job but one that stalled too often.
LEMMA RestartKeeps ==
  ASSUME ReadingInv, Restart
  PROVE  ReadingInv'
<1> USE NoneAssumption DEF ReadingInv
<1>1. /\ faults' = faults + 1 /\ faults \in Nat /\ faults' \in Nat /\ faults' > faults
      /\ UNCHANGED <<cloud, row, file, now, tokens, unlocked, reads, updates>>
      /\ queue' \in {"redis", "memory", "fallback"} /\ ready' = FALSE
  <2>1. faults' = faults + 1 /\ faults \in Nat
    BY DEF Restart, TypeOK
  <2>2. queue' \in {"redis", "memory", "fallback"} /\ ready' = FALSE
    BY DEF Restart, TypeOK
  <2>3. QED
    BY <2>1, <2>2 DEF Restart
<1>2. dl' \in [Downloads -> Fetches \cup {None}] /\ SameDownloads
  BY DownloadsAfterRestart
<1>3. job' \in [Downloads -> Jobs \cup {None}]
  <2>1. job' \in [Downloads -> UNION {AfterRestart(d) : d \in Downloads}]
    BY DEF Restart
  <2>2. QED
    BY <2>1, JobsAfterRestart
<1>4. TypeOK'
  BY <1>1, <1>2, <1>3 DEF TypeOK
<1>5. \A d \in Downloads : job'[d] # None =>
        /\ dl[d] # None /\ dl[d].burn /\ dl[d].link \in Links
        /\ job[d] # None => job[d].tries \in Nat
        /\ \/ job'[d] = job[d]
           \/ /\ job[d] # None /\ job'[d].tries = job[d].tries
              /\ \/ job'[d].state = "waiting"
                 \/ job'[d].state = "dead" /\ faults >= MaxStalled
                 \/ job'[d].state = "lost" /\ ~ job[d].kept /\ ~ job'[d].kept
           \/ job'[d].state = "lost" /\ job'[d].tries = 0 /\ ~ job'[d].kept
  BY JobsAfterRestart DEF FileGoesFirst, TypeOK, BurnJobOf, Fetches, Jobs
<1>6. GoneForAReason' /\ TokensAreTrue'
  BY <1>1, <1>2 DEF GoneForAReason, TokensAreTrue, SameDownloads
<1>7. FileGoesFirst'
  BY <1>1, <1>2, <1>5 DEF FileGoesFirst, SameDownloads
<1>8. TriesAreFaults'
  BY <1>1, <1>2, <1>5 DEF TriesAreFaults, SameDownloads, MaxTries, MaxStalled
<1>9. GivenUpMeansGone'
  BY <1>1, <1>2, <1>5 DEF GivenUpMeansGone, SameDownloads, MaxTries, MaxStalled
<1>10. RedisKeepsJobs'
  BY <1>5 DEF RedisKeepsJobs
<1>11. QED
  BY <1>4, <1>6, <1>7, <1>8, <1>9, <1>10


\* Whatever the step, the invariant of the readers is kept.
LEMMA ReadingStep == ReadingInv /\ [Next]_vars => ReadingInv'
<1> SUFFICES ASSUME ReadingInv, [Next]_vars PROVE ReadingInv'
  OBVIOUS
<1>1. ASSUME NEW l \in Links, StreamPreview(l)
      PROVE  ReadingInv'
  <2>1. TypeOK'
    BY <1>1 DEF StreamPreview, queueVars, ReadingInv, TypeOK
  <2>2. QED
    BY <1>1, <2>1, IdleSteps DEF StreamPreview
<1>2. ASSUME NEW l \in Links, NEW v \in Visitors, VerifyLinkPassword(v, l)
      PROVE  ReadingInv'
  <2>1. TypeOK'
    BY <1>2 DEF VerifyLinkPassword, queueVars, ReadingInv, TypeOK
  <2>2. QED
    BY <1>2, <2>1, IdleSteps DEF VerifyLinkPassword
<1>3. CASE Tick \/ Register \/ UNCHANGED vars
  <2>1. TypeOK'
    <3>1. Tick => TypeOK'
      BY DEF Tick, queueVars, ReadingInv, TypeOK
    <3>2. Register => TypeOK'
      BY DEF Register, ReadingInv, TypeOK
    <3>3. UNCHANGED vars => TypeOK'
      BY DEF vars, queueVars, ReadingInv, TypeOK
    <3>4. QED
      BY <1>3, <3>1, <3>2, <3>3
  <2>2. QED
    BY <1>3, <2>1, IdleSteps DEF Tick, Register, vars
<1>4. QED
  BY <1>1, <1>2, <1>3, TokenSteps, UpdateKeeps, StartKeeps, DownloadSteps, BurnKeeps, RestartKeeps
  DEF Next

-----------------------------------------------------------------------------
(* StreamPipe *)

\* At first everything flows.
LEMMA PipeInit == Pipe!Init => Pipe!PipeInv
<1> SUFFICES ASSUME Pipe!Init PROVE Pipe!PipeInv
  OBVIOUS
<1>1. Pipe!TypeOK
  <2>1. stage \in [Pipe!Stages -> {"flowing", "ended", "errored", "destroyed", "none"}]
    BY DEF Pipe!Init
  <2>2. chunks \in 0..MaxChunks
    BY StreamAssumption DEF Pipe!Init, Pipe!PipeAssumption
  <2>3. /\ finished \in BOOLEAN /\ listening \in BOOLEAN /\ unhandled \in BOOLEAN
        /\ exited \in BOOLEAN
    BY Zenon DEF Pipe!Init
  <2>4. QED
    BY <2>1, <2>2, <2>3 DEF Pipe!Init, Pipe!TypeOK
<1>2. QED
  BY <1>1 DEF Pipe!Init, Pipe!PipeInv, Pipe!FinishedMeansWhole, Pipe!EndsInOrder, Pipe!Stages

\* What the listeners of an event share: the promise is settled once.
LEMMA PipeSettled ==
  ASSUME Pipe!PipeInv, NEW how \in {"resolved", "rejected"},
         Pipe!Settle(how) \/ Pipe!Ignored
  PROVE  /\ finished' /\ settled' \in {"resolved", "rejected"}
         /\ settled # "no" => settled' = settled
         /\ UNCHANGED <<timer, listening>>
BY DEF Pipe!Settle, Pipe!Ignored, Pipe!Cleanup, Pipe!PipeInv, Pipe!TypeOK

\* Destroying a stream changes it only while it flows, and a response while it is open.
LEMMA PipeDestroyed ==
  ASSUME NEW s \in Pipe!Stages, Pipe!TypeOK
  PROVE  LET st == Pipe!Destroy(s, stage)
         IN  /\ st \in [Pipe!Stages -> {"flowing", "ended", "errored", "destroyed", "none"}]
             /\ \A t \in Pipe!Stages : st[t] = stage[t] \/ (stage[t] = "flowing" /\ st[t] = "destroyed")
BY DEF Pipe!Destroy, Pipe!TypeOK

\* A step of a stream that does not end it.
LEMMA PipeOther ==
  ASSUME Pipe!PipeInv, Pipe!TypeOK', UNCHANGED <<checked, intact>>,
         \A t \in Pipe!Stages :
           stage'[t] = stage[t] \/ (stage[t] = "flowing" /\ stage'[t] \in {"destroyed", "errored"}),
         dest' = "finished" => dest = "finished",
         finished' <=> settled' # "no"
  PROVE  Pipe!PipeInv'
BY DEF Pipe!PipeInv, Pipe!EndsInOrder, Pipe!FinishedMeansWhole, Pipe!Stages

\* The promise and the response once they are settled.
PipeStands ==
  /\ settled # "no" => settled' = settled
  /\ dest = "finished" => dest' = "finished"

\* Every step keeps the invariant and what is settled.
LEMMA PipeStep ==
  ASSUME Pipe!PipeInv, [Pipe!Next]_pipeVars
  PROVE  Pipe!PipeInv' /\ PipeStands
<1> USE DEF Pipe!PipeInv, PipeStands
<1>0. {"file", "decipher", "verifier", Pipe!Source} \subseteq Pipe!Stages
  BY DEF Pipe!Stages, Pipe!Source
<1>1. CASE Pipe!Chunk
  <2>1. Pipe!TypeOK'
    BY <1>1, StreamAssumption DEF Pipe!Chunk, Pipe!Alive, Pipe!TypeOK, Pipe!PipeAssumption
  <2>2. QED
    BY <1>1, <2>1, PipeOther DEF Pipe!Chunk
<1>2. ASSUME NEW s \in Pipe!Stages, stage[s] = "flowing", Pipe!StageFails(s),
             UNCHANGED <<checked, intact, chunks, exited>>
      PROVE  Pipe!PipeInv' /\ PipeStands
  <2>1. /\ finished' <=> settled' # "no"
        /\ settled' \in {"no", "resolved", "rejected"} /\ finished' \in BOOLEAN
        /\ settled # "no" => settled' = settled
        /\ timer' = timer \/ timer' = "cleared"
        /\ listening' \in BOOLEAN /\ unhandled' \in BOOLEAN
        /\ dest' = dest \/ (dest = "open" /\ dest' = "destroyed")
    BY <1>2, PipeSettled
    DEF Pipe!StageFails, Pipe!SourceFails, Pipe!InnerFails, Pipe!DestroyDest, Pipe!TypeOK
  <2>2. /\ stage' \in [Pipe!Stages -> {"flowing", "ended", "errored", "destroyed", "none"}]
        /\ \A t \in Pipe!Stages : stage'[t] = stage[t] \/ (stage[t] = "flowing" /\ stage'[t] = "errored")
    BY <1>2 DEF Pipe!StageFails, Pipe!TypeOK
  <2>3. Pipe!TypeOK'
    BY <1>2, <2>1, <2>2 DEF Pipe!TypeOK
  <2>4. QED
    BY <1>2, <2>1, <2>2, <2>3, PipeOther
<1>3. ASSUME NEW s \in Pipe!Stages, stage[s] = "flowing", Pipe!StageEnds(s),
             UNCHANGED <<checked, intact, chunks, exited>>,
             s = "verifier" => stage["decipher"] = "ended",
             s = "decipher" => intact /\ stage["file"] = "ended"
      PROVE  Pipe!PipeInv' /\ PipeStands
  <2>1. /\ stage' = [stage EXCEPT ![s] = "ended"]
        /\ UNCHANGED <<dest, finished, timer, listening, settled, unhandled>>
    BY <1>3 DEF Pipe!StageEnds
  <2>2. Pipe!TypeOK'
    BY <1>3, <2>1 DEF Pipe!TypeOK
  <2>3. Pipe!FinishedMeansWhole' /\ Pipe!EndsInOrder'
    BY <1>3, <2>1 DEF Pipe!FinishedMeansWhole, Pipe!EndsInOrder, Pipe!TypeOK, Pipe!Stages
  <2>4. QED
    BY <2>1, <2>2, <2>3
<1>4. CASE Pipe!FileStep \/ Pipe!DecipherFlush \/ Pipe!VerifierFlush
  BY <1>0, <1>2, <1>3, <1>4 DEF Pipe!FileStep, Pipe!DecipherFlush, Pipe!VerifierFlush, Pipe!Alive
<1>5. CASE Pipe!DestError \/ Pipe!DestClose \/ Pipe!Timeout
  <2>1. /\ UNCHANGED <<checked, intact, chunks, unhandled, exited>>
        /\ finished' \in BOOLEAN /\ (finished' <=> settled' # "no")
        /\ settled' \in {"no", "resolved", "rejected"}
        /\ settled # "no" => settled' = settled
        /\ timer' \in {"armed", "cleared", "fired"} /\ listening' = listening
        /\ dest' = dest \/ (dest = "open" /\ dest' \in {"errored", "closed", "destroyed"})
        /\ stage' = stage \/ stage' = Pipe!Destroy(Pipe!Source, stage)
    BY <1>5, PipeSettled 
    DEF Pipe!DestError, Pipe!DestClose, Pipe!Timeout, Pipe!Alive, Pipe!DestroyDest, Pipe!TypeOK
  <2>2. /\ stage' \in [Pipe!Stages -> {"flowing", "ended", "errored", "destroyed", "none"}]
        /\ \A t \in Pipe!Stages : stage'[t] = stage[t] \/ (stage[t] = "flowing" /\ stage'[t] = "destroyed")
    BY <1>0, <2>1, PipeDestroyed DEF Pipe!TypeOK
  <2>3. Pipe!TypeOK'
    BY <2>1, <2>2 DEF Pipe!TypeOK
  <2>4. QED
    BY <2>1, <2>2, <2>3, PipeOther
<1>6. CASE Pipe!DestFinish
  <2>1. /\ UNCHANGED <<checked, intact, stage, chunks, unhandled, timer, listening, exited>>
        /\ finished' /\ settled' \in {"resolved", "rejected"}
        /\ settled # "no" => settled' = settled
        /\ dest' = "finished" /\ stage[Pipe!Source] = "ended"
    BY <1>6, PipeSettled DEF Pipe!DestFinish, Pipe!Alive
  <2>2. Pipe!TypeOK'
    BY <2>1 DEF Pipe!TypeOK
  <2>3. Pipe!FinishedMeansWhole' /\ Pipe!EndsInOrder'
    BY <2>1 DEF Pipe!FinishedMeansWhole, Pipe!EndsInOrder, Pipe!Source, Pipe!Stages
  <2>4. QED
    BY <2>1, <2>2, <2>3
<1>7. CASE UNCHANGED pipeVars
  BY <1>7 DEF pipeVars, Pipe!TypeOK, Pipe!FinishedMeansWhole, Pipe!EndsInOrder, Pipe!Stages
<1>8. CASE Pipe!ForceExit
  <2>1. /\ UNCHANGED <<checked, intact, stage, chunks, finished, timer, listening, settled, unhandled>>
        /\ exited' = TRUE
        /\ dest' = dest \/ (dest = "open" /\ dest' = "destroyed")
    BY <1>8 DEF Pipe!ForceExit, Pipe!DestroyDest
  <2>2. Pipe!TypeOK'
    BY <2>1 DEF Pipe!TypeOK
  <2>3. QED
    BY <2>1, <2>2, PipeOther
<1>9. QED
  BY <1>1, <1>4, <1>5, <1>6, <1>7, <1>8 DEF Pipe!Next

-----------------------------------------------------------------------------
(* The theorems about downloads *)

\* A link disappears only for a reason, a burn is given up only when there is nothing
\* left to burn, and a response that finished is whole.
THEOREM DownloadsAreSound == DownloadsSpec => []DownloadsInv
<1>1. DownloadsInit => DownloadsInv
  BY ReadingInit, PipeInit DEF DownloadsInit, TransfersInit, DownloadsInv
<1>2. DownloadsInv /\ [TransfersNext]_allVars => DownloadsInv'
  <2> SUFFICES ASSUME DownloadsInv, [TransfersNext]_allVars
               PROVE  DownloadsInv'
    OBVIOUS
  <2>1. [Next]_vars /\ [Pipe!Next]_pipeVars
    BY DEF TransfersNext, allVars
  <2>2. QED
    BY <2>1, ReadingStep, PipeStep DEF DownloadsInv
<1>3. QED
  BY <1>1, <1>2, PTL DEF DownloadsSpec

\* What is read while the expiry of every link stands has not expired.
LEMMA ReadIsTimely ==
  ASSUME ReadingInv, [Next]_vars, updates = 0, NEW l \in Links, reads'[l] > reads[l]
  PROVE  ~ Expired(row[l].exp)
<1> USE DEF ReadingInv, TypeOK
<1>1. ASSUME NEW d \in Downloads, NEW v \in Visitors, NEW t \in tokens, StartDownload(d, v, t)
      PROVE  ~ Expired(row[l].exp)
  <2>1. t.link \in Links /\ ~ Expired(t.exp) /\ t.exp = row[t.link].exp
    BY <1>1 DEF StartDownload, TokensAreTrue, Tokens
  <2>2. l = t.link
    BY <1>1, <2>1 DEF StartDownload
  <2>3. QED
    BY <2>1, <2>2
<1>2. ASSUME NEW m \in Links, StreamPreview(m)
      PROVE  ~ Expired(row[l].exp)
  BY <1>2 DEF StreamPreview
<1>3. ASSUME reads' = reads
      PROVE  FALSE
  BY <1>3
<1>4. ASSUME NEW d \in Downloads,
             \/ OpenFile(d) \/ StreamEnds(d) \/ FetchFromCloud(d) \/ QueueBurn(d)
             \/ BurnJob(d) \/ BurnQueryFails(d)
      PROVE  reads' = reads
  BY <1>4 DEF OpenFile, StreamEnds, FetchFromCloud, QueueBurn, SetPhase, BurnJob, BurnFile,
              BurnRow, BurnDropped, BurnQueryFails
<1>5. ASSUME NEW m \in Links,
             \/ ListLink(m)
             \/ \E v \in Visitors : RenderLandingPage(v, m) \/ VerifyLinkPassword(v, m)
             \/ \E exp \in Expiries : UpdateExpiry(m, exp)
      PROVE  reads' = reads
  BY <1>5 DEF ListLink, RenderLandingPage, VerifyLinkPassword, UpdateExpiry
<1>6. Tick \/ Register \/ Restart \/ UNCHANGED vars => reads' = reads
  BY DEF Tick, Register, Restart, vars
<1>7. QED
  BY <1>1, <1>2, <1>3, <1>4, <1>5, <1>6 DEF Next

\* No token, stale page or preview outlives an expiry that is kept.
THEOREM ExpiryIsRespected == DownloadsSpec => KeptExpiryIsRespected
<1>1. DownloadsInv /\ [TransfersNext]_allVars =>
        [updates = 0 => \A l \in Links : reads'[l] > reads[l] => ~Expired(row[l].exp)]_vars
  BY ReadIsTimely DEF TransfersNext, allVars, DownloadsInv
<1>2. QED
  BY <1>1, DownloadsAreSound, PTL DEF DownloadsSpec, KeptExpiryIsRespected

\* No event takes the caller's answer back, or destroys a response that was sent.
THEOREM PipeStaysSettled == DownloadsSpec => SettledForGood
<1>1. DownloadsInv /\ [TransfersNext]_allVars => [PipeStands]_(Pipe!vars)
  BY PipeStep DEF TransfersNext, allVars, DownloadsInv, pipeVars, Pipe!vars
<1>2. QED
  BY <1>1, DownloadsAreSound, PTL
  DEF DownloadsSpec, SettledForGood, Pipe!SettledForGood, PipeStands

-----------------------------------------------------------------------------
(* FileTypes *)

LEMMA Groups5 == Types!Groups = 1 .. 5
BY DEF Types!Groups, Types!Previewable

LEMMA RangeIs == \A f : Types!Range(f) = {f[i] : i \in DOMAIN f}
BY DEF Types!Range

\* The extensions of the groups.
ExtsOf == <<
  {"jpg", "jpeg", "png", "gif", "webp", "bmp", "svg", "ico"}, {"pdf"},
  {"txt", "md", "log", "csv", "json", "xml", "html", "css", "js", "ts", "jsx", "tsx", "vue",
   "yaml", "yml", "ini", "conf", "sh", "bat"},
  {"mp4", "webm", "ogg", "mov"}, {"mp3", "wav", "ogg", "m4a", "aac"} >>

LEMMA Has1 == \A e : Types!Has(1, e) <=> e \in ExtsOf[1]
<1>1. Types!Previewable[1].exts = <<"jpg", "jpeg", "png", "gif", "webp", "bmp", "svg", "ico">>
  BY DEF Types!Previewable
<1> QED
  BY <1>1, RangeIs DEF Types!Has, ExtsOf

LEMMA Has2 == \A e : Types!Has(2, e) <=> e \in ExtsOf[2]
<1>1. Types!Previewable[2].exts = <<"pdf">>
  BY DEF Types!Previewable
<1> QED
  BY <1>1, RangeIs DEF Types!Has, ExtsOf

LEMMA Has3 == \A e : Types!Has(3, e) <=> e \in ExtsOf[3]
<1>1. Types!Previewable[3].exts = <<"txt", "md", "log", "csv", "json", "xml", "html", "css", "js", "ts", "jsx", "tsx", "vue",
              "yaml", "yml", "ini", "conf", "sh", "bat">>
  BY DEF Types!Previewable
<1> QED
  BY <1>1, RangeIs DEF Types!Has, ExtsOf

LEMMA Has4 == \A e : Types!Has(4, e) <=> e \in ExtsOf[4]
<1>1. Types!Previewable[4].exts = <<"mp4", "webm", "ogg", "mov">>
  BY DEF Types!Previewable
<1> QED
  BY <1>1, RangeIs DEF Types!Has, ExtsOf

LEMMA Has5 == \A e : Types!Has(5, e) <=> e \in ExtsOf[5]
<1>1. Types!Previewable[5].exts = <<"mp3", "wav", "ogg", "m4a", "aac">>
  BY DEF Types!Previewable
<1> QED
  BY <1>1, RangeIs DEF Types!Has, ExtsOf

LEMMA FirstIs ==
  ASSUME NEW G \in SUBSET (1 .. 5), G # {}
  PROVE  Types!First(G) \in G /\ \A h \in G : Types!First(G) <= h
<1>1. \E g \in G : \A h \in G : g <= h
  <2>1. CASE 1 \in G
    BY <2>1
  <2>2. CASE 1 \notin G /\ 2 \in G
    BY <2>2
  <2>3. CASE 1 \notin G /\ 2 \notin G /\ 3 \in G
    BY <2>3
  <2>4. CASE 1 \notin G /\ 2 \notin G /\ 3 \notin G /\ 4 \in G
    BY <2>4
  <2>5. CASE 1 \notin G /\ 2 \notin G /\ 3 \notin G /\ 4 \notin G
    <3>1. \A g \in G : g = 5
      BY <2>5
    <3>2. 5 \in G
      BY <3>1
    <3> QED
      BY <3>1, <3>2
  <2> QED
    BY <2>1, <2>2, <2>3, <2>4, <2>5
<1> QED
  BY <1>1 DEF Types!First

LEMMA OnlyOggTwice ==
  ASSUME NEW g \in 1 .. 5, NEW h \in 1 .. 5, g # h, NEW e, e \in ExtsOf[g], e \in ExtsOf[h]
  PROVE  e = "ogg"
BY DEF ExtsOf

LEMMA HasIs ==
  ASSUME NEW g \in 1 .. 5, NEW e
  PROVE  Types!Has(g, e) <=> e \in ExtsOf[g]
<1>1. g = 1 \/ g = 2 \/ g = 3 \/ g = 4 \/ g = 5
  OBVIOUS
<1> QED
  BY <1>1, Has1, Has2, Has3, Has4, Has5

GroupsOf(e) == {g \in Types!Groups : Types!Has(g, e)}

LEMMA GroupsOfIs ==
  ASSUME NEW e
  PROVE  GroupsOf(e) = {g \in 1 .. 5 : e \in ExtsOf[g]}
BY Groups5, HasIs DEF GroupsOf

LEMMA KindsAre ==
  /\ Types!Previewable[1].kind = "image" /\ Types!Previewable[2].kind = "pdf"
  /\ Types!Previewable[1].max = 0 /\ Types!Previewable[2].max = 0
  /\ Types!Previewable[3].max = 3 /\ Types!Previewable[4].max = 5
BY DEF Types!Previewable, Types!MaxText, Types!MaxVideo

LEMMA OneGroup ==
  ASSUME NEW e, NEW g \in 1 .. 5, GroupsOf(e) = {g}
  PROVE  Types!First(GroupsOf(e)) = g
BY FirstIs

LEMMA Declared ==
  ASSUME NEW e, NEW m \in Types!ExtensionToMime(e), NEW n, Types!CanPreview(e, n)
  PROVE  IF m = "application/pdf" THEN Types!PreviewType(e) = "pdf" ELSE Types!PreviewType(e) = "image"
<1>1. GroupsOf(e) # {}
  BY DEF Types!CanPreview, GroupsOf
<1>2. Types!PreviewType(e) = Types!Previewable[Types!First(GroupsOf(e))].kind
  BY DEF Types!PreviewType, GroupsOf
<1>3. CASE e = "pdf"
  <2>1. m = "application/pdf"
    BY <1>3 DEF Types!ExtensionToMime
  <2>2. GroupsOf(e) = {2}
    BY <1>3, GroupsOfIs DEF ExtsOf
  <2> QED
    BY <1>2, <2>1, <2>2, OneGroup, KindsAre
<1>4. CASE e \in {"jpg", "jpeg", "png", "gif", "webp"}
  <2>1. m # "application/pdf"
    BY <1>4 DEF Types!ExtensionToMime
  <2>2. GroupsOf(e) = {1}
    BY <1>4, GroupsOfIs DEF ExtsOf
  <2> QED
    BY <1>2, <2>1, <2>2, OneGroup, KindsAre
<1>5. CASE e \in {"zip", "7z"}
  <2>1. GroupsOf(e) = {}
    BY <1>5, GroupsOfIs DEF ExtsOf
  <2> QED
    BY <1>1, <2>1
<1>6. CASE e \notin {"pdf", "jpg", "jpeg", "png", "gif", "webp", "zip", "7z"}
  <2>1. Types!ExtensionToMime(e) = {}
    BY <1>6 DEF Types!ExtensionToMime
  <2> QED
    BY <2>1
<1> QED
  BY <1>3, <1>4, <1>5, <1>6

LEMMA Limits ==
  ASSUME NEW e, NEW n, Types!CanPreview(e, n)
  PROVE  /\ e \in {"txt", "csv", "ts"} => n <= Types!MaxText
         /\ e \in {"mp4", "ogg"} => n <= Types!MaxVideo
<1> DEFINE g == Types!First(GroupsOf(e))
<1>1. Types!Previewable[g].max = 0 \/ n <= Types!Previewable[g].max
  BY DEF Types!CanPreview, GroupsOf
<1>2. ASSUME e \in {"txt", "csv", "ts"} PROVE g = 3
  <2>1. GroupsOf(e) = {3}
    BY <1>2, GroupsOfIs DEF ExtsOf
  <2> QED
    BY <2>1, OneGroup
<1>3. ASSUME e \in {"mp4", "ogg"} PROVE g = 4
  <2>1. GroupsOf(e) \in SUBSET (1 .. 5) /\ 4 \in GroupsOf(e)
    BY <1>3, GroupsOfIs DEF ExtsOf
  <2>2. 1 \notin GroupsOf(e) /\ 2 \notin GroupsOf(e) /\ 3 \notin GroupsOf(e)
    BY <1>3, GroupsOfIs DEF ExtsOf
  <2>3. g \in GroupsOf(e) /\ \A h \in GroupsOf(e) : g <= h
    BY <2>1, FirstIs
  <2> HIDE DEF g
  <2> QED
    BY <2>1, <2>2, <2>3
<1> HIDE DEF g
<1> QED
  BY <1>1, <1>2, <1>3, KindsAre DEF Types!MaxText, Types!MaxVideo

\* Where an extension is in its group.
PlaceOf(g, e) == CHOOSE i \in DOMAIN Types!Previewable[g].exts : Types!Previewable[g].exts[i] = e
Served(e) == {g \in GroupsOf(e) : PlaceOf(g, e) <= Len(Types!Previewable[g].mimes)}

LEMMA GetMimeTypeIs ==
  ASSUME NEW e
  PROVE  Types!GetMimeType(e) =
           IF Served(e) # {}
           THEN Types!Previewable[Types!First(Served(e))].mimes[PlaceOf(Types!First(Served(e)), e)]
           ELSE IF e = "zip" THEN "application/zip"
           ELSE IF e = "7z" THEN "application/x-7z-compressed"
           ELSE "application/octet-stream"
<1>1. Served(e) = {g \in Types!Groups : Types!Has(g, e) /\ PlaceOf(g, e) <= Types!Len(Types!Previewable[g].mimes)}
  BY DEF Served, GroupsOf
<1> QED
  BY <1>1 DEF Types!GetMimeType, PlaceOf

LEMMA PlaceIs ==
  ASSUME NEW e, NEW g \in GroupsOf(e)
  PROVE  /\ PlaceOf(g, e) \in DOMAIN Types!Previewable[g].exts
         /\ Types!Previewable[g].exts[PlaceOf(g, e)] = e
BY RangeIs DEF GroupsOf, Types!Has, PlaceOf

LEMMA TableDomains ==
  ASSUME NEW g \in 1 .. 5
  PROVE  /\ DOMAIN Types!Previewable[g].exts \subseteq Nat \ {0}
         /\ DOMAIN Types!Previewable[g].mimes = 1 .. Len(Types!Previewable[g].mimes)
         /\ Len(Types!Previewable[g].mimes) \in Nat
<1>1. CASE g = 1
  BY <1>1 DEF Types!Previewable
<1>2. CASE g = 2
  BY <1>2 DEF Types!Previewable
<1>3. CASE g = 3
  BY <1>3 DEF Types!Previewable
<1>4. CASE g = 4
  BY <1>4 DEF Types!Previewable
<1>5. CASE g = 5
  BY <1>5 DEF Types!Previewable
<1> QED
  BY <1>1, <1>2, <1>3, <1>4, <1>5

LEMMA OggIsVideo ==
  /\ Types!First(GroupsOf("ogg")) = 4 /\ 4 \in Served("ogg") /\ GroupsOf("ogg") = {4, 5}
<1>1. GroupsOf("ogg") = {4, 5}
  BY GroupsOfIs DEF ExtsOf
<1>2. Types!First(GroupsOf("ogg")) = 4
  <2>1. Types!First({4, 5}) \in {4, 5} /\ Types!First({4, 5}) <= 4
    BY FirstIs
  <2> QED
    BY <1>1, <2>1
<1>3. PlaceOf(4, "ogg") <= Len(Types!Previewable[4].mimes)
  <2>1. PlaceOf(4, "ogg") \in DOMAIN Types!Previewable[4].exts
    BY <1>1, PlaceIs
  <2>2. DOMAIN Types!Previewable[4].exts = 1 .. 4 /\ Len(Types!Previewable[4].mimes) = 4
    BY DEF Types!Previewable
  <2> QED
    BY <2>1, <2>2
<1> QED
  BY <1>1, <1>2, <1>3 DEF Served

LEMMA ServedKind ==
  ASSUME NEW e, NEW n, Types!CanPreview(e, n), Types!GetMimeType(e) # "application/octet-stream"
  PROVE  Types!GetMimeType(e) \in Types!TypesOf(Types!PreviewType(e))
<1> DEFINE f == Types!First(GroupsOf(e))
           s == Types!First(Served(e))
           T == Types!Previewable[s].mimes
           i == PlaceOf(s, e)
<1>1. GroupsOf(e) # {}
  BY DEF Types!CanPreview, GroupsOf
<1>2. e \notin {"zip", "7z"}
  <2>1. ASSUME e \in {"zip", "7z"} PROVE GroupsOf(e) = {}
    BY <2>1, GroupsOfIs DEF ExtsOf
  <2> QED
    BY <1>1, <2>1
<1>3. Served(e) # {} /\ Types!GetMimeType(e) = T[i]
  BY <1>2, GetMimeTypeIs
<1>4. GroupsOf(e) \in SUBSET (1 .. 5) /\ Served(e) \in SUBSET (1 .. 5) /\ Served(e) \subseteq GroupsOf(e)
  BY GroupsOfIs DEF Served
<1>5. f \in GroupsOf(e) /\ s \in Served(e) /\ \A h \in Served(e) : s <= h
  BY <1>1, <1>3, <1>4, FirstIs
<1>6. f \in 1 .. 5 /\ s \in 1 .. 5 /\ s \in GroupsOf(e) /\ e \in ExtsOf[f] /\ e \in ExtsOf[s]
  BY <1>4, <1>5, GroupsOfIs
<1>7. s = f
  <2>1. ASSUME s # f PROVE FALSE
    <3>1. e = "ogg"
      BY <1>6, <2>1, OnlyOggTwice
    <3>2. f = 4 /\ s \in {4, 5} /\ s <= 4
      BY <1>5, <1>6, <3>1, OggIsVideo
    <3> HIDE DEF f, s
    <3> QED
      BY <2>1, <3>2
  <2> QED
    BY <2>1
<1>8. i \in DOMAIN Types!Previewable[s].exts /\ i <= Len(T)
  BY <1>5, <1>6, PlaceIs DEF Served
<1>9. i \in DOMAIN T
  <2>1. DOMAIN T = 1 .. Len(T) /\ DOMAIN Types!Previewable[s].exts \subseteq Nat \ {0}
    BY <1>6, TableDomains
  <2>2. Len(T) \in Nat
    BY <1>6, TableDomains
  <2> QED
    BY <1>8, <2>1, <2>2
<1>10. T[i] \in Types!Range(T)
  BY <1>9, RangeIs
<1>11. Types!PreviewType(e) = Types!Previewable[s].kind /\ s \in Types!Groups
  BY <1>6, <1>7, Groups5 DEF Types!PreviewType, GroupsOf
<1> HIDE DEF s, i, f
<1> QED
  BY <1>3, <1>10, <1>11 DEF Types!TypesOf

-----------------------------------------------------------------------------

\* What is known of a file at each stage of its way.
TypesIInv ==
  /\ asked => mime \in Types!ExtensionToMime(ext)
  /\ way \in {"stored", "previewed", "unpreviewable"} =>
       ~ (size >= MagicSize /\ head \notin Types!Signatures)
  /\ way = "previewed" => Types!CanPreview(ext, size) /\ served = Types!GetMimeType(ext)

LEMMA TypesStart ==
  ASSUME Types!Init
  PROVE  TypesIInv
BY DEF Types!Init, TypesIInv

LEMMA TypesStep ==
  ASSUME TypesIInv, [Types!Next]_typeVars
  PROVE  TypesIInv'
<1>1. CASE Types!ValidateFileMetadata
  BY <1>1 DEF TypesIInv, Types!ValidateFileMetadata, Types!file
<1>2. CASE Types!ValidateFileConsistency
  BY <1>2 DEF TypesIInv, Types!ValidateFileConsistency, Types!file
<1>3. CASE Types!UploadDirectly
  BY <1>3 DEF TypesIInv, Types!UploadDirectly, Types!file
<1>4. CASE Types!ValidateBuffer
  BY <1>4 DEF TypesIInv, Types!ValidateBuffer, Types!file
<1>5. CASE Types!Preview
  BY <1>5 DEF TypesIInv, Types!Preview, Types!file
<1>6. CASE UNCHANGED typeVars
  BY <1>6 DEF TypesIInv, typeVars
<1> QED
  BY <1>1, <1>2, <1>3, <1>4, <1>5, <1>6 DEF Types!Next

LEMMA TypesHold ==
  ASSUME TypesIInv
  PROVE  /\ Types!PreviewedAsDeclared /\ Types!ServedAsShown /\ Types!LimitsHold
         /\ Types!StoredIsSigned
<1>1. Types!PreviewedAsDeclared
  BY Declared DEF TypesIInv, Types!PreviewedAsDeclared
<1>2. Types!ServedAsShown
  BY ServedKind DEF TypesIInv, Types!ServedAsShown
<1>3. Types!LimitsHold
  BY Limits DEF TypesIInv, Types!LimitsHold
<1>4. Types!StoredIsSigned
  BY DEF TypesIInv, Types!StoredIsSigned
<1> QED
  BY <1>1, <1>2, <1>3, <1>4

-----------------------------------------------------------------------------
(* UploadForm *)

\* Nothing that is stored is None.
LEMMA UploadsStored ==
  /\ \A f \in Files : f # None
  /\ \A k \in Keys : k # None
  /\ \A x \in Form!Digests : x # None
  /\ \A x \in Form!StoreShape : x # None
  /\ \A x \in Form!RowShape : x # None
BY FormAssumption DEF Form!UploadNoneAssumption

\* The entry e of the storage is the whole file that the form or the row r says, where
\* pv is the provider.
IsWhole(pv, e, r) ==
  /\ e # None /\ e.stage = "whole"
  /\ ~ r.touched => r.name = e.file /\ e.got = Form!SizeOf(e.file)
  /\ r.sum = IF pv = "local" THEN Form!Digest(e.file, e.got) ELSE None

\* What holds of the form f of a page, one that creates a link or not, while the
\* storage is st.
FormFits(pv, creates, f, st) ==
  /\ f.stage \in {"intent", "upload", "save"} => Form!SizeOf(f.name) <= Limit
  /\ f.stage = "intent" => (f.touched \/ f.file = f.name)
  /\ f.stage = "upload" =>
       /\ f.key \in Keys /\ st[f.key] # None /\ st[f.key].stage = "writing"
       /\ f.touched \/ st[f.key].file = f.name
  /\ f.stage \in {"save", "write", "cleanup"} =>
       /\ creates => f.key # None
       /\ f.key # None => IsWhole(pv, st[f.key], f)
  /\ f.stage = "cleanup" => creates
  /\ f.stage = "write" => ~ creates

RowFits(pv, r, st) == r # None => IsWhole(pv, st[r.key], r)

\* A form goes on with the key k.
Uses(f, k) == f.stage \in {"upload", "save", "write", "cleanup"} /\ f.key = k

\* A key in use is one form's or one row's.
KeysApart(fm, rs) ==
  /\ \A p, q \in Form!Pages, k \in Keys : Uses(fm[p], k) /\ Uses(fm[q], k) => p = q
  /\ \A p \in Form!Pages, l \in FormLinks :
       rs[l] # None => ~ Uses(fm[p], rs[l].key)
  /\ \A l, m \in FormLinks :
       rs[l] # None /\ rs[m] # None /\ rs[l].key = rs[m].key => l = m

\* The file that an edit found is nobody's but the link's, and once the edit has
\* committed not even that.
OldsApart(fm, rs, st) ==
  \A p \in Form!Pages : fm[p].stage \in {"write", "unlink"} =>
    /\ fm[p].old \in Keys /\ st[fm[p].old] # None
    /\ \A q \in Form!Pages : ~ Uses(fm[q], fm[p].old)
    /\ \A l \in FormLinks : rs[l] # None /\ rs[l].key = fm[p].old =>
         l = Edited /\ fm[p].stage = "write"

Asking(fm) == {p \in Form!Pages : fm[p].stage = "intent"}
Unused(st) == {k \in Keys : st[k] = None}

\* Whoever asks for a key gets one.
KeysSuffice(fm, st) == Cardinality(Asking(fm)) <= Cardinality(Unused(st))

UploadIInv ==
  /\ Form!TypeOK
  /\ \A p \in Form!Pages : FormFits(provider, p \in Create, form[p], store)
  /\ \A l \in FormLinks : RowFits(provider, rows[l], store)
  /\ KeysApart(form, rows) /\ KeysSuffice(form, store) /\ OldsApart(form, rows, store)
  /\ Edit # {} => rows[Edited] # None

LEMMA FormHas ==
  ASSUME NEW f \in Form!FormShape
  PROVE  /\ f.stage \in Form!Waiting \cup {"open", "done"}
         /\ f.file \in Files \cup {None} /\ f.name \in Files \cup {None}
         /\ f.key \in Keys \cup {None} /\ f.sum \in Form!Digests \cup {None}
         /\ f.touched \in BOOLEAN /\ f.old \in Keys \cup {None}
BY DEF Form!FormShape

LEMMA EntryHas ==
  ASSUME NEW e \in Form!StoreShape
  PROVE  /\ e.file \in Files \cup {None} /\ e.got \in Nat /\ e.secret \in Nat
         /\ e.stage \in Form!StoreStages
BY DEF Form!StoreShape

LEMMA RowShapeHas ==
  ASSUME NEW r \in Form!RowShape
  PROVE  /\ r.key \in Keys /\ r.name \in Files \cup {None}
         /\ r.sum \in Form!Digests \cup {None} /\ r.touched \in BOOLEAN
BY DEF Form!RowShape

LEMMA SizeIsNat ==
  ASSUME NEW f \in Files \cup {None}
  PROVE  Form!SizeOf(f) \in Nat
BY FormAssumption DEF Form!UploadAssumption, Form!SizeOf

LEMMA DigestIs ==
  ASSUME NEW f \in Files \cup {None}, NEW n \in Nat
  PROVE  Form!Digest(f, n) \in Form!Digests /\ Form!Digest(f, n) # None
BY UploadsStored DEF Form!Digest, Form!Digests

\* The entry d serves whoever relies on the entry e.
Serves(e, d) ==
  e # None => /\ d # None /\ d.file = e.file
              /\ e.stage = "writing" => d.stage = "writing"
              /\ e.stage = "whole" => d.stage = "whole" /\ d.got = e.got

LEMMA FormStillFits ==
  ASSUME NEW pv, NEW creates, NEW f, NEW st, NEW su, FormFits(pv, creates, f, st),
         \A k \in Keys : Uses(f, k) => Serves(st[k], su[k]),
         f.key \in Keys \cup {None}
  PROVE  FormFits(pv, creates, f, su)
BY DEF FormFits, Uses, Serves, IsWhole

LEMMA RowStillFits ==
  ASSUME NEW pv, NEW r, NEW st, NEW su, RowFits(pv, r, st), r # None => Serves(st[r.key], su[r.key])
  PROVE  RowFits(pv, r, su)
BY DEF RowFits, Serves, IsWhole

LEMMA PagesAndKeysAreFinite ==
  IsFiniteSet(Form!Pages) /\ IsFiniteSet(Keys)
BY FormAssumption DEF Form!UploadAssumption, Form!IsFiniteSet, IsFiniteSet

LEMMA CountsAreNat ==
  ASSUME NEW fm, NEW st
  PROVE  /\ IsFiniteSet(Asking(fm)) /\ Cardinality(Asking(fm)) \in Nat
         /\ IsFiniteSet(Unused(st)) /\ Cardinality(Unused(st)) \in Nat
<1>1. Asking(fm) \subseteq Form!Pages /\ Unused(st) \subseteq Keys
  BY DEF Asking, Unused
<1> QED
  BY <1>1, PagesAndKeysAreFinite, FS_Subset, FS_CardinalityType

LEMMA KeysStillSuffice ==
  ASSUME NEW fm, NEW st, NEW fn, NEW su, KeysSuffice(fm, st),
         Asking(fn) \subseteq Asking(fm), Unused(st) \subseteq Unused(su)
  PROVE  KeysSuffice(fn, su)
<1>1. /\ Cardinality(Asking(fn)) <= Cardinality(Asking(fm))
      /\ Cardinality(Unused(st)) <= Cardinality(Unused(su))
  BY CountsAreNat, FS_Subset
<1>2. /\ Cardinality(Asking(fn)) \in Nat /\ Cardinality(Asking(fm)) \in Nat
      /\ Cardinality(Unused(st)) \in Nat /\ Cardinality(Unused(su)) \in Nat
  BY CountsAreNat
<1> QED
  BY <1>1, <1>2 DEF KeysSuffice

\* The form of one page changes, and what it has to fit.
LEMMA OnePageMoves ==
  ASSUME UploadIInv, NEW p \in Form!Pages, NEW g \in Form!FormShape,
         form' = [form EXCEPT ![p] = g], UNCHANGED <<secret, restarts, provider>>,
         store' \in [Keys -> Form!StoreShape \cup {None}],
         \A k \in Keys : store'[k] # None => store'[k].got <= Form!SizeOf(store'[k].file),
         rows' \in [FormLinks -> Form!RowShape \cup {None}],
         FormFits(provider, p \in Create, g, store'),
         \A q \in Form!Pages \ {p}, k \in Keys : Uses(form[q], k) => Serves(store[k], store'[k]),
         \A l \in FormLinks : RowFits(provider, rows'[l], store'),
         KeysApart(form', rows'), KeysSuffice(form', store'), OldsApart(form', rows', store'),
         Edit # {} => rows'[Edited] # None
  PROVE  UploadIInv'
<1>1. /\ form' \in [Form!Pages -> Form!FormShape]
      /\ form'[p] = g /\ \A q \in Form!Pages \ {p} : form'[q] = form[q]
  BY DEF UploadIInv, Form!TypeOK
<1>2. Form!TypeOK'
  BY <1>1 DEF UploadIInv, Form!TypeOK
<1>3. ASSUME NEW q \in Form!Pages
      PROVE  FormFits(provider', q \in Create, form'[q], store')
  <2>1. CASE q = p
    BY <1>1, <2>1
  <2>2. CASE q # p
    <3>1. /\ form'[q] = form[q] /\ form[q].key \in Keys \cup {None}
          /\ FormFits(provider, q \in Create, form[q], store)
      BY <1>1, <2>2, FormHas DEF UploadIInv, Form!TypeOK
    <3>2. FormFits(provider, q \in Create, form[q], store')
      BY <2>2, <3>1, FormStillFits
    <3> QED
      BY <3>1, <3>2
  <2> QED
    BY <2>1, <2>2
<1> QED
  BY <1>2, <1>3 DEF UploadIInv

\* A form that uses no other key, and asks for none.
LEMMA StillApart ==
  ASSUME NEW fm, DOMAIN fm = Form!Pages, NEW rs, NEW p \in Form!Pages, NEW g,
         KeysApart(fm, rs), \A k \in Keys : Uses(g, k) => Uses(fm[p], k),
         \A l \in FormLinks : rs[l] # None => rs[l].key \in Keys
  PROVE  KeysApart([fm EXCEPT ![p] = g], rs)
BY DEF KeysApart

LEMMA OldsStillApart ==
  ASSUME NEW fm, DOMAIN fm = Form!Pages, NEW rs, NEW st, NEW su, NEW p \in Form!Pages, NEW g,
         OldsApart(fm, rs, st), \A k \in Keys : Uses(g, k) => Uses(fm[p], k),
         g.stage \in {"write", "unlink"} => g.stage = fm[p].stage /\ g.old = fm[p].old,
         \A k \in Keys : st[k] # None => su[k] # None
  PROVE  OldsApart([fm EXCEPT ![p] = g], rs, su)
BY DEF OldsApart

LEMMA FewerAsk ==
  ASSUME NEW fm, DOMAIN fm = Form!Pages, NEW p \in Form!Pages, NEW g,
         g.stage = "intent" => fm[p].stage = "intent"
  PROVE  Asking([fm EXCEPT ![p] = g]) \subseteq Asking(fm)
BY DEF Asking

\* Only the form changes, and uses no other key.
LEMMA FormMoves ==
  ASSUME UploadIInv, NEW p \in Form!Pages, NEW g \in Form!FormShape,
         form' = [form EXCEPT ![p] = g],
         UNCHANGED <<store, rows, secret, restarts, provider>>,
         FormFits(provider, p \in Create, g, store),
         \A k \in Keys : Uses(g, k) => Uses(form[p], k),
         g.stage \in {"write", "unlink"} => g.stage = form[p].stage /\ g.old = form[p].old,
         KeysSuffice(form', store)
  PROVE  UploadIInv'
<1>1. /\ DOMAIN form = Form!Pages
      /\ \A l \in FormLinks : rows[l] # None => rows[l].key \in Keys
  BY RowShapeHas DEF UploadIInv, Form!TypeOK
<1>2. KeysApart(form', rows')
  BY <1>1, StillApart DEF UploadIInv
<1>3. \A k \in Keys : Serves(store[k], store'[k])
  BY DEF Serves
<1>4. OldsApart(form', rows', store')
  BY <1>1, OldsStillApart DEF UploadIInv
<1> QED
  BY <1>2, <1>3, <1>4, OnePageMoves DEF UploadIInv, Form!TypeOK

LEMMA EntryWithStage ==
  ASSUME NEW e \in Form!StoreShape, NEW x \in Form!StoreStages
  PROVE  /\ [e EXCEPT !.stage = x] \in Form!StoreShape
         /\ [e EXCEPT !.stage = x].stage = x /\ [e EXCEPT !.stage = x].file = e.file
         /\ [e EXCEPT !.stage = x].got = e.got
BY DEF Form!StoreShape

\* Of an entry only the stage changes.
LEMMA StageChanges ==
  ASSUME Form!TypeOK, NEW k \in Keys, store[k] # None,
         NEW x \in Form!StoreStages,
         store' = [store EXCEPT ![k].stage = x]
  PROVE  /\ store' \in [Keys -> Form!StoreShape \cup {None}]
         /\ \A j \in Keys : store'[j] # None => store'[j].got <= Form!SizeOf(store'[j].file)
         /\ store'[k] # None /\ store'[k].stage = x /\ store'[k].file = store[k].file
         /\ store'[k].got = store[k].got
         /\ \A j \in Keys \ {k} : store'[j] = store[j]
         /\ Unused(store') = Unused(store)
<1> DEFINE e == [store[k] EXCEPT !.stage = x]
<1>1. store' = [store EXCEPT ![k] = e]
  OBVIOUS
<1>2. store[k] \in Form!StoreShape
  BY DEF Form!TypeOK
<1>3. e \in Form!StoreShape /\ e.stage = x /\ e.file = store[k].file /\ e.got = store[k].got
  BY <1>2, EntryWithStage
<1> HIDE DEF e
<1>4. e # None
  BY <1>3, UploadsStored
<1>5. store'[k] = e /\ \A j \in Keys \ {k} : store'[j] = store[j]
  BY <1>1 DEF Form!TypeOK
<1>6. store' \in [Keys -> Form!StoreShape \cup {None}]
  BY <1>1, <1>3 DEF Form!TypeOK
<1>7. \A j \in Keys : store'[j] # None => store'[j].got <= Form!SizeOf(store'[j].file)
  BY <1>3, <1>5 DEF Form!TypeOK
<1>8. Unused(store') = Unused(store)
  BY <1>4, <1>5 DEF Unused
<1> QED
  BY <1>3, <1>4, <1>5, <1>6, <1>7, <1>8

LEMMA FormDomain ==
  ASSUME UploadIInv
  PROVE  /\ DOMAIN form = Form!Pages
         /\ \A p \in Form!Pages : form[p] \in Form!FormShape
         /\ \A l \in FormLinks : rows[l] # None => rows[l] \in Form!RowShape /\ rows[l].key \in Keys
BY RowShapeHas DEF UploadIInv, Form!TypeOK

\* The entry of a form that goes on with it is not another's and no row's.
LEMMA UsedByOne ==
  ASSUME UploadIInv, NEW p \in Form!Pages, NEW k \in Keys, Uses(form[p], k)
  PROVE  /\ \A q \in Form!Pages \ {p} : ~ Uses(form[q], k)
         /\ \A l \in FormLinks : rows[l] # None => rows[l].key # k
         /\ store[k] # None
         /\ form[p].stage = "upload" => store[k].stage = "writing"
         /\ form[p].stage # "upload" => store[k].stage = "whole"
<1>1. FormFits(provider, p \in Create, form[p], store)
  BY DEF UploadIInv
<1>2. k # None
  BY UploadsStored
<1> QED
  BY <1>1, <1>2 DEF UploadIInv, KeysApart, Uses, FormFits, IsWhole

\* The form of a page moves on, and with it the stage of the entry it uses.
LEMMA EntryMoves ==
  ASSUME UploadIInv, NEW p \in Form!Pages, NEW k \in Keys, Uses(form[p], k),
         NEW g \in Form!FormShape, NEW x \in {"cut", "whole", "left", "deleted"},
         form' = [form EXCEPT ![p] = g], store' = [store EXCEPT ![k].stage = x],
         UNCHANGED <<rows, secret, restarts, provider>>,
         FormFits(provider, p \in Create, g, store'),
         \A j \in Keys : Uses(g, j) => Uses(form[p], j),
         g.stage \notin {"intent", "write", "unlink"}
  PROVE  UploadIInv'
<1>0. x \in Form!StoreStages
  BY DEF Form!StoreStages
<1>1. /\ store' \in [Keys -> Form!StoreShape \cup {None}]
      /\ \A j \in Keys : store'[j] # None => store'[j].got <= Form!SizeOf(store'[j].file)
      /\ \A j \in Keys \ {k} : store'[j] = store[j]
      /\ Unused(store') = Unused(store) /\ \A j \in Keys : store[j] # None => store'[j] # None
  BY <1>0, UsedByOne, StageChanges DEF UploadIInv
<1>2. \A j \in Keys \ {k} : Serves(store[j], store'[j])
  BY <1>1 DEF Serves
<1>3. \A q \in Form!Pages \ {p}, j \in Keys : Uses(form[q], j) => Serves(store[j], store'[j])
  BY <1>2, UsedByOne
<1>4. ASSUME NEW l \in FormLinks PROVE RowFits(provider, rows[l], store')
  <2>1. RowFits(provider, rows[l], store)
    BY DEF UploadIInv
  <2>2. rows[l] # None => Serves(store[rows[l].key], store'[rows[l].key])
    BY <1>2, UsedByOne, FormDomain
  <2> QED
    BY <2>1, <2>2, RowStillFits
<1>5. KeysApart(form', rows)
  BY FormDomain, StillApart DEF UploadIInv
<1>6. Asking(form') \subseteq Asking(form)
  BY FormDomain, FewerAsk
<1>7. KeysSuffice(form', store')
  BY <1>1, <1>6, KeysStillSuffice DEF UploadIInv
<1>8. OldsApart(form', rows', store')
  BY <1>1, FormDomain, OldsStillApart DEF UploadIInv
<1> QED
  BY <1>1, <1>3, <1>4, <1>5, <1>7, <1>8, OnePageMoves DEF UploadIInv, Form!TypeOK

-----------------------------------------------------------------------------
(* The steps of an upload *)

LEMMA ChooseFileStep ==
  ASSUME UploadIInv, NEW p \in Form!Pages, NEW f \in Files \cup {None}, Form!ChooseFile(p, f)
  PROVE  UploadIInv'
<1> DEFINE b == form[p].touched \/ form[p].stage = "intent"
           g == [form[p] EXCEPT !.file = f, !.touched = b]
<1>1. form' = [form EXCEPT ![p] = g] /\ UNCHANGED <<store, rows, secret, restarts, provider>>
  BY DEF Form!ChooseFile
<1>2. form[p] \in Form!FormShape /\ FormFits(provider, p \in Create, form[p], store)
  BY FormDomain DEF UploadIInv
<1>3. b \in BOOLEAN /\ (~ b => ~ form[p].touched /\ form[p].stage # "intent")
  BY <1>2, FormHas
<1> HIDE DEF b
<1>4. /\ g \in Form!FormShape /\ g.stage = form[p].stage /\ g.name = form[p].name
      /\ g.key = form[p].key /\ g.sum = form[p].sum /\ g.touched = b /\ g.old = form[p].old
  BY <1>2, <1>3 DEF Form!FormShape
<1> HIDE DEF g
<1>5. FormFits(provider, p \in Create, g, store)
  BY <1>2, <1>3, <1>4 DEF FormFits, IsWhole
<1>6. \A k \in Keys : Uses(g, k) => Uses(form[p], k)
  BY <1>4 DEF Uses
<1>7. KeysSuffice(form', store)
  BY <1>1, <1>4, FormDomain, FewerAsk, KeysStillSuffice DEF UploadIInv
<1> QED
  BY <1>1, <1>4, <1>5, <1>6, <1>7, FormMoves

LEMMA IdleIs ==
  ASSUME NEW f \in Files \cup {None}
  PROVE  /\ Form!Idle(f) \in Form!FormShape
         /\ Form!Idle(f).stage = "open" /\ \A k : ~ Uses(Form!Idle(f), k)
         /\ \A pv, c, st : FormFits(pv, c, Form!Idle(f), st)
<1>1. Form!Idle(f) \in Form!FormShape
  BY DEF Form!Idle, Form!FormShape, Form!Waiting
<1>2. Form!Idle(f).stage = "open"
  BY DEF Form!Idle
<1> QED
  BY <1>1, <1>2 DEF Uses, FormFits

LEMMA FormCardinality == \A S : Form!Cardinality(S) = Cardinality(S)
BY DEF Form!Cardinality, Cardinality

LEMMA SubmitFormStep ==
  ASSUME UploadIInv, NEW p \in Form!Pages, Form!Submit(p)
  PROVE  UploadIInv'
<1> DEFINE i == Form!Idle(form[p].file)
           x == IF form[p].file = None THEN "save" ELSE "intent"
           g == [i EXCEPT !.stage = x, !.name = form[p].file]
<1>1. /\ form' = [form EXCEPT ![p] = g] /\ form[p].stage = "open"
      /\ Form!SizeOf(form[p].file) <= Limit /\ (p \in Create => form[p].file # None)
      /\ UNCHANGED <<store, rows, secret, restarts, provider>>
  BY DEF Form!Submit
<1>2. form[p] \in Form!FormShape /\ form[p].file \in Files \cup {None}
  BY FormDomain, FormHas
<1>3. i \in Form!FormShape /\ i.key = None /\ i.sum = None /\ i.touched = FALSE /\ i.file = form[p].file
  BY <1>2, IdleIs DEF Form!Idle
<1>4. x \in {"save", "intent"} /\ (x = "save" <=> form[p].file = None)
  OBVIOUS
<1> HIDE DEF i, x
<1>5. /\ g \in Form!FormShape /\ g.stage = x /\ g.name = form[p].file /\ g.file = form[p].file
      /\ g.key = None
  BY <1>2, <1>3, <1>4 DEF Form!FormShape, Form!Waiting
<1> HIDE DEF g
<1>6. FormFits(provider, p \in Create, g, store)
  BY <1>1, <1>4, <1>5 DEF FormFits
<1>7. \A k \in Keys : ~ Uses(g, k)
  BY <1>5, UploadsStored DEF Uses
<1>8. KeysSuffice(form', store)
  <2>1. Cardinality(Unused(store)) > Cardinality(Asking(form))
    <3>1. Form!Cardinality(Unused(store)) > Form!Cardinality(Asking(form))
      BY DEF Form!Submit, Form!KeyLeft, Unused, Asking
    <3> QED
      BY <3>1, FormCardinality
  <2>2. Asking(form') \subseteq Asking(form) \cup {p}
    BY <1>1, FormDomain DEF Asking
  <2>3. IsFiniteSet(Asking(form) \cup {p}) /\ Cardinality(Asking(form) \cup {p}) <= Cardinality(Asking(form)) + 1
    <3>1. IsFiniteSet(Asking(form)) /\ Cardinality(Asking(form)) \in Nat
      BY CountsAreNat
    <3>2. /\ IsFiniteSet(Asking(form) \cup {p})
          /\ \/ Cardinality(Asking(form) \cup {p}) = Cardinality(Asking(form))
             \/ Cardinality(Asking(form) \cup {p}) = Cardinality(Asking(form)) + 1
      BY <3>1, FS_AddElement
    <3> QED
      BY <3>1, <3>2
  <2>4. Cardinality(Asking(form')) <= Cardinality(Asking(form) \cup {p})
    BY <2>2, <2>3, FS_Subset
  <2>5. /\ Cardinality(Asking(form')) \in Nat /\ Cardinality(Asking(form)) \in Nat
        /\ Cardinality(Unused(store)) \in Nat /\ Cardinality(Asking(form) \cup {p}) \in Nat
    BY <2>3, CountsAreNat, FS_CardinalityType
  <2> QED
    BY <2>1, <2>3, <2>4, <2>5 DEF KeysSuffice
<1> QED
  BY <1>1, <1>4, <1>5, <1>6, <1>7, <1>8, FormMoves

\* A form that stops.
LEMMA FormStops ==
  ASSUME UploadIInv, NEW p \in Form!Pages, NEW g \in Form!FormShape,
         g.stage \in {"open", "done", "saved", "refused"},
         form' = [form EXCEPT ![p] = g], UNCHANGED <<store, rows, secret, restarts, provider>>
  PROVE  UploadIInv'
<1>1. FormFits(provider, p \in Create, g, store) /\ \A k \in Keys : ~ Uses(g, k)
  BY DEF FormFits, Uses
<1>2. KeysSuffice(form', store)
  BY FormDomain, FewerAsk, KeysStillSuffice DEF UploadIInv
<1> QED
  BY <1>1, <1>2, FormMoves

LEMMA FormWithStage ==
  ASSUME NEW f \in Form!FormShape, NEW x \in Form!Waiting \cup {"open", "done"}
  PROVE  /\ [f EXCEPT !.stage = x] \in Form!FormShape
         /\ [f EXCEPT !.stage = x].stage = x /\ [f EXCEPT !.stage = x].file = f.file
         /\ [f EXCEPT !.stage = x].name = f.name /\ [f EXCEPT !.stage = x].key = f.key
         /\ [f EXCEPT !.stage = x].sum = f.sum /\ [f EXCEPT !.stage = x].touched = f.touched
BY DEF Form!FormShape

\* A form that stops, and its entry goes.
LEMMA FormStopsAndEntryGoes ==
  ASSUME UploadIInv, NEW p \in Form!Pages, NEW k \in Keys, Uses(form[p], k),
         NEW g \in Form!FormShape, g.stage \in {"open", "refused"},
         NEW x \in {"cut", "left", "deleted"},
         form' = [form EXCEPT ![p] = g], store' = [store EXCEPT ![k].stage = x],
         UNCHANGED <<rows, secret, restarts, provider>>
  PROVE  UploadIInv'
<1>1. FormFits(provider, p \in Create, g, store') /\ \A j \in Keys : ~ Uses(g, j)
  BY DEF FormFits, Uses
<1> QED
  BY <1>1, EntryMoves

LEMMA NetworkErrorStep ==
  ASSUME UploadIInv, NEW p \in Form!Pages, Form!NetworkError(p)
  PROVE  UploadIInv'
<1> DEFINE g == Form!Idle(form[p].file)
           k == form[p].key
           x == IF provider = "local" THEN "cut" ELSE "deleted"
<1>1. form' = [form EXCEPT ![p] = g] /\ UNCHANGED <<rows, secret, restarts, provider>>
  BY DEF Form!NetworkError
<1>2. g \in Form!FormShape /\ g.stage = "open"
  BY FormDomain, FormHas, IdleIs
<1>3. IF form[p].stage = "upload" /\ store[k].stage = "writing"
      THEN store' = [store EXCEPT ![k].stage = x] ELSE UNCHANGED store
  BY DEF Form!NetworkError
<1>4. x \in {"cut", "deleted"}
  OBVIOUS
<1> HIDE DEF g, x
<1>5. CASE form[p].stage = "upload"
  <2>1. k \in Keys /\ Uses(form[p], k)
    BY <1>5 DEF UploadIInv, FormFits, Uses
  <2>2. CASE store' = [store EXCEPT ![k].stage = x]
    BY <1>1, <1>2, <1>4, <2>1, <2>2, FormStopsAndEntryGoes
  <2>3. CASE UNCHANGED store
    BY <1>1, <1>2, <2>3, FormStops
  <2> QED
    BY <1>3, <2>2, <2>3
<1>6. CASE form[p].stage # "upload"
  BY <1>1, <1>2, <1>3, <1>6, FormStops
<1> QED
  BY <1>5, <1>6

LEMMA DeleteIs ==
  ASSUME NEW k, Form!Delete(k)
  PROVE  \E x \in {"cut", "left", "deleted"} : store' = [store EXCEPT ![k].stage = x]
BY DEF Form!Delete, Form!AfterDelete

\* A form learns that its upload is refused, and the upload goes if it can.
LEMMA FormRefusedAndDelete ==
  ASSUME UploadIInv, NEW p \in Form!Pages, NEW k \in Keys, Uses(form[p], k),
         form' = [form EXCEPT ![p].stage = "refused"], Form!Delete(k),
         UNCHANGED <<rows, secret, restarts, provider>>
  PROVE  UploadIInv'
<1> DEFINE g == [form[p] EXCEPT !.stage = "refused"]
<1>1. form' = [form EXCEPT ![p] = g]
  OBVIOUS
<1>2. "refused" \in Form!Waiting
  BY DEF Form!Waiting
<1>3. g \in Form!FormShape /\ g.stage = "refused"
  BY <1>2, FormDomain, FormWithStage
<1>4. PICK x \in {"cut", "left", "deleted"} : store' = [store EXCEPT ![k].stage = x]
  BY DeleteIs
<1> HIDE DEF g
<1> QED
  BY <1>1, <1>3, <1>4, FormStopsAndEntryGoes

LEMMA UploadRefusedStep ==
  ASSUME UploadIInv, NEW p \in Form!Pages, Form!UploadRefused(p)
  PROVE  UploadIInv'
<1>1. /\ form' = [form EXCEPT ![p].stage = "refused"] /\ Form!Delete(form[p].key)
      /\ UNCHANGED <<rows, secret, restarts, provider>> /\ form[p].stage = "upload"
  BY DEF Form!UploadRefused
<1>2. form[p].key \in Keys /\ Uses(form[p], form[p].key)
  BY <1>1 DEF UploadIInv, FormFits, Uses
<1> QED
  BY <1>1, <1>2, FormRefusedAndDelete

LEMMA CleanupUploadStep ==
  ASSUME UploadIInv, NEW p \in Form!Pages, Form!CleanupUpload(p)
  PROVE  UploadIInv'
<1>1. /\ form' = [form EXCEPT ![p].stage = "refused"] /\ Form!Delete(form[p].key)
      /\ UNCHANGED <<rows, secret, restarts, provider>> /\ form[p].stage = "cleanup"
  BY DEF Form!CleanupUpload
<1>2. form[p].key # None
  BY <1>1 DEF UploadIInv, FormFits
<1>3. form[p].key \in Keys /\ Uses(form[p], form[p].key)
  BY <1>1, <1>2, FormDomain, FormHas DEF Uses
<1> QED
  BY <1>1, <1>3, FormRefusedAndDelete

LEMMA CreateRefusedStep ==
  ASSUME UploadIInv, NEW p \in Form!Pages, Form!CreateRefused(p)
  PROVE  UploadIInv'
<1> DEFINE g == [form[p] EXCEPT !.stage = "cleanup"]
<1>1. /\ form' = [form EXCEPT ![p] = g] /\ form[p].stage = "save" /\ p \in Create
      /\ UNCHANGED <<store, rows, secret, restarts, provider>>
  BY DEF Form!CreateRefused
<1>2. "cleanup" \in Form!Waiting
  BY DEF Form!Waiting
<1>3. /\ g \in Form!FormShape /\ g.stage = "cleanup" /\ g.key = form[p].key
      /\ g.name = form[p].name /\ g.sum = form[p].sum /\ g.touched = form[p].touched
  BY <1>2, FormDomain, FormWithStage
<1> HIDE DEF g
<1>4. FormFits(provider, p \in Create, form[p], store)
  BY DEF UploadIInv
<1>5. FormFits(provider, p \in Create, g, store)
  BY <1>1, <1>3, <1>4 DEF FormFits, IsWhole
<1>6. \A k \in Keys : Uses(g, k) => Uses(form[p], k)
  BY <1>1, <1>3 DEF Uses
<1>7. KeysSuffice(form', store)
  BY <1>1, <1>3, FormDomain, FewerAsk, KeysStillSuffice DEF UploadIInv
<1> QED
  BY <1>1, <1>3, <1>5, <1>6, <1>7, FormMoves

LEMMA UpdateRefusedStep ==
  ASSUME UploadIInv, NEW p \in Form!Pages, Form!UpdateRefused(p)
  PROVE  UploadIInv'
<1>1. "refused" \in Form!Waiting
  BY DEF Form!Waiting
<1>2. /\ form' = [form EXCEPT ![p] = [form[p] EXCEPT !.stage = "refused"]]
      /\ UNCHANGED <<store, rows, secret, restarts, provider>>
  BY DEF Form!UpdateRefused
<1>3. /\ [form[p] EXCEPT !.stage = "refused"] \in Form!FormShape
      /\ [form[p] EXCEPT !.stage = "refused"].stage = "refused"
  BY <1>1, FormDomain, FormWithStage
<1> QED
  BY <1>2, <1>3, FormStops

LEMMA FormAnsweredStep ==
  ASSUME UploadIInv, NEW p \in Form!Pages, Form!FormAnswered(p)
  PROVE  UploadIInv'
<1>1. /\ form' = [form EXCEPT ![p] = IF form[p].stage = "saved"
                                     THEN [form[p] EXCEPT !.stage = "done"]
                                     ELSE Form!Idle(form[p].file)]
      /\ UNCHANGED <<store, rows, secret, restarts, provider>>
  BY DEF Form!FormAnswered
<1>2. /\ [form[p] EXCEPT !.stage = "done"] \in Form!FormShape
      /\ [form[p] EXCEPT !.stage = "done"].stage = "done"
  BY FormDomain, FormWithStage
<1>3. Form!Idle(form[p].file) \in Form!FormShape /\ Form!Idle(form[p].file).stage = "open"
  BY FormDomain, FormHas, IdleIs
<1>4. CASE form[p].stage = "saved"
  BY <1>1, <1>2, <1>4, FormStops
<1>5. CASE form[p].stage # "saved"
  BY <1>1, <1>3, <1>5, FormStops
<1> QED
  BY <1>4, <1>5

LEMMA NewEntry ==
  ASSUME NEW f \in Files \cup {None}, NEW n \in Nat
  PROVE  LET e == [file |-> f, got |-> 0, secret |-> n, stage |-> "writing"]
         IN  /\ e \in Form!StoreShape /\ e # None
             /\ e.file = f /\ e.got = 0 /\ e.stage = "writing"
BY UploadsStored DEF Form!StoreShape, Form!StoreStages

\* One key fewer for one form fewer that asks.
LEMMA OneAskerGetsOne ==
  ASSUME NEW fm, NEW st, KeysSuffice(fm, st), NEW p \in Asking(fm), NEW k \in Unused(st),
         NEW fn, NEW su, Asking(fn) = Asking(fm) \ {p}, Unused(su) = Unused(st) \ {k}
  PROVE  KeysSuffice(fn, su)
<1>1. /\ IsFiniteSet(Asking(fm)) /\ Cardinality(Asking(fm)) \in Nat
      /\ IsFiniteSet(Unused(st)) /\ Cardinality(Unused(st)) \in Nat
  BY CountsAreNat
<1>2. Cardinality(Asking(fm) \ {p}) = Cardinality(Asking(fm)) - 1
  BY <1>1, FS_RemoveElement
<1>3. Cardinality(Unused(st) \ {k}) = Cardinality(Unused(st)) - 1
  BY <1>1, FS_RemoveElement
<1>4. Cardinality(Asking(fm)) <= Cardinality(Unused(st))
  BY DEF KeysSuffice
<1>5. Cardinality(Asking(fm)) - 1 <= Cardinality(Unused(st)) - 1
  BY <1>1, <1>4
<1> QED
  BY <1>2, <1>3, <1>5 DEF KeysSuffice

\* A form that asks finds a key.
LEMMA AskerFindsOne ==
  ASSUME NEW fm, NEW st, KeysSuffice(fm, st), NEW p \in Asking(fm)
  PROVE  \E k \in Keys : st[k] = None
<1>1. /\ IsFiniteSet(Asking(fm)) /\ Cardinality(Asking(fm)) \in Nat
      /\ IsFiniteSet(Unused(st)) /\ Cardinality(Unused(st)) \in Nat
  BY CountsAreNat
<1>2. Cardinality(Asking(fm)) # 0
  BY <1>1, FS_EmptySet
<1>3. Cardinality(Unused(st)) # 0
  BY <1>1, <1>2 DEF KeysSuffice
<1>4. Unused(st) # {}
  BY <1>3, FS_EmptySet
<1> QED
  BY <1>4 DEF Unused

LEMMA IntentAnsweredStep ==
  ASSUME UploadIInv, NEW p \in Form!Pages, Form!IntentAnswered(p)
  PROVE  UploadIInv'
<1> DEFINE k == CHOOSE j \in Keys : store[j] = None
           e == [file |-> form[p].file, got |-> 0, secret |-> secret, stage |-> "writing"]
           g == [form[p] EXCEPT !.stage = "upload", !.key = k]
<1>1. /\ form' = [form EXCEPT ![p] = g] /\ form[p].stage = "intent"
      /\ store' = [store EXCEPT ![k] = e] /\ UNCHANGED <<rows, secret, restarts, provider>>
  <2>1. DOMAIN form = Form!Pages
    BY FormDomain
  <2>2. /\ form' = [form EXCEPT ![p].stage = "upload", ![p].key = k]
        /\ store' = [store EXCEPT ![k] = e]
    BY DEF Form!IntentAnswered
  <2>3. form[p].stage = "intent" /\ UNCHANGED <<rows, secret, restarts, provider>>
    BY DEF Form!IntentAnswered
  <2> HIDE DEF k, e
  <2>4. form' = [form EXCEPT ![p] = g]
    BY <2>1, <2>2
  <2> QED
    BY <2>2, <2>3, <2>4
<1>2. /\ form[p] \in Form!FormShape /\ form[p].file \in Files \cup {None}
      /\ FormFits(provider, p \in Create, form[p], store) /\ p \in Asking(form)
  BY <1>1, FormDomain, FormHas DEF UploadIInv, Asking
<1>3. k \in Keys /\ store[k] = None
  BY <1>2, AskerFindsOne DEF UploadIInv
<1>4. secret \in Nat
  BY FormAssumption DEF Form!UploadAssumption, UploadIInv, Form!TypeOK
<1>5. e \in Form!StoreShape /\ e # None /\ e.file = form[p].file /\ e.got = 0 /\ e.stage = "writing"
  BY <1>2, <1>4, NewEntry
<1> HIDE DEF k, e
<1>6. /\ g \in Form!FormShape /\ g.stage = "upload" /\ g.key = k /\ g.file = form[p].file
      /\ g.name = form[p].name /\ g.touched = form[p].touched
  BY <1>2, <1>3 DEF Form!FormShape, Form!Waiting
<1> HIDE DEF g
<1>7. /\ store' \in [Keys -> Form!StoreShape \cup {None}]
      /\ store'[k] = e /\ \A j \in Keys \ {k} : store'[j] = store[j]
  BY <1>1, <1>3, <1>5 DEF UploadIInv, Form!TypeOK
<1>8. form' \in [Form!Pages -> Form!FormShape] /\ form'[p] = g /\ \A q \in Form!Pages \ {p} : form'[q] = form[q]
  BY <1>1, <1>6 DEF UploadIInv, Form!TypeOK
<1>9. \A j \in Keys : store'[j] # None => store'[j].got <= Form!SizeOf(store'[j].file)
  BY <1>2, <1>5, <1>7, SizeIsNat DEF UploadIInv, Form!TypeOK
<1>10. FormFits(provider, p \in Create, g, store')
  BY <1>1, <1>2, <1>3, <1>5, <1>6, <1>7 DEF FormFits
<1>11. \A j \in Keys : Serves(store[j], store'[j])
  BY <1>3, <1>7 DEF Serves
<1>12. ASSUME NEW l \in FormLinks PROVE RowFits(provider, rows'[l], store')
  <2>1. RowFits(provider, rows[l], store) /\ (rows[l] # None => rows[l].key \in Keys)
    BY FormDomain DEF UploadIInv
  <2> QED
    BY <1>1, <1>11, <2>1, RowStillFits
<1>13. /\ \A q \in Form!Pages : ~ Uses(form[q], k)
       /\ \A l \in FormLinks : rows[l] # None => rows[l].key # k
  <2>1. \A q \in Form!Pages : ~ Uses(form[q], k)
    BY <1>3, UsedByOne
  <2>2. \A l \in FormLinks : rows[l] # None => rows[l].key # k
    BY <1>3 DEF UploadIInv, RowFits, IsWhole
  <2> QED
    BY <2>1, <2>2
<1>14. \A j \in Keys : Uses(g, j) <=> j = k
  BY <1>6 DEF Uses
<1>15. KeysApart(form', rows')
  <2>1. ASSUME NEW q \in Form!Pages, NEW r \in Form!Pages, NEW j \in Keys,
               Uses(form'[q], j), Uses(form'[r], j)
        PROVE  q = r
    BY <1>8, <1>13, <1>14, <2>1 DEF UploadIInv, KeysApart
  <2>2. ASSUME NEW q \in Form!Pages, NEW l \in FormLinks, rows'[l] # None
        PROVE  ~ Uses(form'[q], rows'[l].key)
    BY <1>1, <1>8, <1>13, <1>14, <2>2, FormDomain DEF UploadIInv, KeysApart
  <2> QED
    BY <1>1, <2>1, <2>2 DEF UploadIInv, KeysApart
<1>16. Asking(form') = Asking(form) \ {p}
  BY <1>6, <1>8 DEF Asking
<1>17. Unused(store') = Unused(store) \ {k} /\ k \in Unused(store)
  BY <1>3, <1>5, <1>7 DEF Unused
<1>18. KeysSuffice(form', store')
  BY <1>2, <1>16, <1>17, OneAskerGetsOne DEF UploadIInv
<1>19. /\ rows' \in [FormLinks -> Form!RowShape \cup {None}] /\ (Edit # {} => rows'[Edited] # None)
  BY <1>1 DEF UploadIInv, Form!TypeOK
<1>20. OldsApart(form', rows', store')
  <2>1. ASSUME NEW q \in Form!Pages, form'[q].stage \in {"write", "unlink"}
        PROVE  /\ form'[q] = form[q] /\ form[q].old \in Keys /\ form[q].old # k
               /\ store[form[q].old] # None
    <3>1. q # p /\ form'[q] = form[q]
      BY <1>6, <1>8, <2>1
    <3>2. form[q].old \in Keys /\ store[form[q].old] # None
      BY <2>1, <3>1 DEF UploadIInv, OldsApart
    <3> QED
      BY <1>3, <3>1, <3>2
  <2>2. ASSUME NEW q \in Form!Pages, form'[q].stage \in {"write", "unlink"}, NEW o \in Form!Pages
        PROVE  ~ Uses(form'[o], form[q].old)
    <3>1. ~ Uses(form[o], form[q].old) /\ form[q].old # k
      BY <2>1, <2>2 DEF UploadIInv, OldsApart
    <3> QED
      BY <1>8, <1>14, <2>1, <2>2, <3>1
  <2>3. ASSUME NEW q \in Form!Pages, form'[q].stage \in {"write", "unlink"}
        PROVE  /\ store'[form[q].old] # None
               /\ \A l \in FormLinks : rows'[l] # None /\ rows'[l].key = form[q].old =>
                    l = Edited /\ form[q].stage = "write"
    BY <1>1, <1>7, <2>1, <2>3 DEF UploadIInv, OldsApart
  <2> QED
    BY <2>1, <2>2, <2>3 DEF OldsApart
<1> QED
  BY <1>1, <1>6, <1>7, <1>9, <1>10, <1>11, <1>12, <1>15, <1>18, <1>19, <1>20, OnePageMoves

LEMMA UploadAnsweredStep ==
  ASSUME UploadIInv, NEW p \in Form!Pages, Form!UploadAnswered(p)
  PROVE  UploadIInv'
<1> DEFINE k == form[p].key
           s == Form!Checksum(k)
           g == [form[p] EXCEPT !.stage = "save", !.sum = s]
<1>1. /\ form' = [form EXCEPT ![p] = g] /\ form[p].stage = "upload"
      /\ store' = [store EXCEPT ![k].stage = "whole"] /\ UNCHANGED <<rows, secret, restarts, provider>>
      /\ Form!AtEnd(k)
  BY DEF Form!UploadAnswered, Form!Stored
<1>2. form[p] \in Form!FormShape /\ FormFits(provider, p \in Create, form[p], store)
  BY FormDomain DEF UploadIInv
<1>3. /\ k \in Keys /\ Uses(form[p], k) /\ store[k] # None
      /\ Form!SizeOf(form[p].name) <= Limit /\ (form[p].touched \/ store[k].file = form[p].name)
  BY <1>1, <1>2 DEF FormFits, Uses
<1>4. /\ store[k] \in Form!StoreShape /\ store[k].file \in Files \cup {None} /\ store[k].got \in Nat
      /\ store[k].got <= Form!SizeOf(store[k].file)
  BY <1>3, EntryHas DEF UploadIInv, Form!TypeOK
<1>5. /\ s \in Form!Digests \cup {None}
      /\ s = IF provider = "local" THEN Form!Digest(store[k].file, store[k].got) ELSE None
  BY <1>4, DigestIs DEF Form!Checksum
<1>6. ~ form[p].touched => store[k].got = Form!SizeOf(store[k].file)
  <2>1. Form!SizeOf(store[k].file) \in Nat /\ Limit \in Nat
    BY <1>4, SizeIsNat, FormAssumption DEF Form!UploadAssumption
  <2> QED
    BY <1>1, <1>3, <1>4, <2>1 DEF Form!AtEnd
<1>7. k # None
  BY <1>3, UploadsStored
<1> HIDE DEF s
<1>8. /\ g \in Form!FormShape /\ g.stage = "save" /\ g.key = k /\ g.sum = s
      /\ g.name = form[p].name /\ g.touched = form[p].touched
  BY <1>2, <1>5 DEF Form!FormShape, Form!Waiting
<1> HIDE DEF g
<1>9. /\ store'[k] # None /\ store'[k].stage = "whole" /\ store'[k].file = store[k].file
      /\ store'[k].got = store[k].got
  BY <1>1, <1>3, StageChanges DEF UploadIInv, Form!StoreStages
<1> HIDE DEF k
<1>10. IsWhole(provider, store'[k], g)
  BY <1>3, <1>5, <1>6, <1>8, <1>9 DEF IsWhole
<1>11. FormFits(provider, p \in Create, g, store')
  BY <1>3, <1>7, <1>8, <1>10 DEF FormFits
<1>12. \A j \in Keys : Uses(g, j) => Uses(form[p], j)
  BY <1>3, <1>8 DEF Uses
<1> QED
  BY <1>1, <1>3, <1>8, <1>11, <1>12, EntryMoves

LEMMA RowOfForm ==
  ASSUME NEW p \in Form!Pages, form[p] \in Form!FormShape, form[p].key \in Keys
  PROVE  /\ Form!Row(p) \in Form!RowShape /\ Form!Row(p) # None
         /\ Form!Row(p).key = form[p].key
         /\ \A e : IsWhole(provider, e, form[p]) => IsWhole(provider, e, Form!Row(p))
<1>1. Form!Row(p) \in Form!RowShape
  BY FormHas DEF Form!Row, Form!RowShape
<1>2. /\ Form!Row(p).key = form[p].key /\ Form!Row(p).name = form[p].name
      /\ Form!Row(p).sum = form[p].sum /\ Form!Row(p).touched = form[p].touched
  BY DEF Form!Row
<1> QED
  BY <1>1, <1>2, UploadsStored DEF IsWhole

LEMMA SavedIs ==
  ASSUME UploadIInv, NEW p \in Form!Pages
  PROVE  LET g == [form[p] EXCEPT !.stage = "saved"]
         IN  /\ g \in Form!FormShape /\ g.stage = "saved" /\ \A k : ~ Uses(g, k)
             /\ \A pv, c, st : FormFits(pv, c, g, st)
             /\ [form EXCEPT ![p].stage = "saved"] = [form EXCEPT ![p] = g]
<1>1. "saved" \in Form!Waiting
  BY DEF Form!Waiting
<1> DEFINE g == [form[p] EXCEPT !.stage = "saved"]
<1>2. g \in Form!FormShape /\ g.stage = "saved"
  BY <1>1, FormDomain, FormWithStage
<1>3. [form EXCEPT ![p].stage = "saved"] = [form EXCEPT ![p] = g]
  OBVIOUS
<1> HIDE DEF g
<1>4. (\A k : ~ Uses(g, k)) /\ \A pv, c, st : FormFits(pv, c, g, st)
  BY <1>2 DEF Uses, FormFits
<1> QED
  BY <1>2, <1>3, <1>4 DEF g

\* A form that has its row written: the row's key is its own.
LEMMA RowTakesKey ==
  ASSUME UploadIInv, NEW p \in Form!Pages, NEW k \in Keys, Uses(form[p], k),
         NEW l \in FormLinks, NEW r, r # None, r.key = k,
         NEW fn, \A q \in Form!Pages \ {p} : fn[q] = form[q], \A j : ~ Uses(fn[p], j),
         NEW rn, rn[l] = r, \A m \in FormLinks \ {l} : rn[m] = rows[m]
  PROVE  KeysApart(fn, rn)
<1>1. ASSUME NEW q \in Form!Pages, NEW o \in Form!Pages, NEW j \in Keys, Uses(fn[q], j), Uses(fn[o], j)
      PROVE  q = o
  BY <1>1 DEF UploadIInv, KeysApart
<1>2. ASSUME NEW q \in Form!Pages, NEW m \in FormLinks, rn[m] # None, Uses(fn[q], rn[m].key)
      PROVE  FALSE
  <2>1. q # p /\ Uses(form[q], rn[m].key)
    BY <1>2
  <2>2. CASE m = l
    BY <2>1, <2>2, UsedByOne
  <2>3. CASE m # l
    BY <1>2, <2>1, <2>3 DEF UploadIInv, KeysApart
  <2> QED
    BY <2>2, <2>3
<1>3. ASSUME NEW m \in FormLinks, NEW n \in FormLinks, rn[m] # None, rn[n] # None, rn[m].key = rn[n].key
      PROVE  m = n
  <2>1. CASE m # l /\ n # l
    BY <1>3, <2>1 DEF UploadIInv, KeysApart
  <2>2. CASE m = l \/ n = l
    BY <1>3, <2>2, UsedByOne
  <2> QED
    BY <2>1, <2>2
<1> QED
  BY <1>1, <1>2, <1>3 DEF KeysApart

\* So is no old file that an edit has found.
LEMMA OldsSeeRow ==
  ASSUME UploadIInv, NEW p \in Form!Pages, NEW k \in Keys, Uses(form[p], k),
         NEW l \in FormLinks, NEW r, r.key = k,
         NEW fn, \A q \in Form!Pages \ {p} : fn[q] = form[q], \A j : ~ Uses(fn[p], j),
         fn[p].stage \in {"write", "unlink"} =>
           form[p].stage = "write" /\ fn[p].old = form[p].old /\ l = Edited,
         NEW rn, rn[l] = r, \A m \in FormLinks \ {l} : rn[m] = rows[m]
  PROVE  OldsApart(fn, rn, store)
<1>1. ASSUME NEW q \in Form!Pages, fn[q].stage \in {"write", "unlink"}
      PROVE  /\ form[q].stage \in {"write", "unlink"} /\ fn[q].old = form[q].old
             /\ q # p => fn[q].stage = form[q].stage
             /\ q = p => l = Edited /\ form[q].stage = "write"
  BY <1>1
<1>2. ASSUME NEW q \in Form!Pages, fn[q].stage \in {"write", "unlink"}
      PROVE  /\ form[q].old \in Keys /\ store[form[q].old] # None /\ form[q].old # k
             /\ \A o \in Form!Pages : ~ Uses(form[o], form[q].old)
             /\ \A m \in FormLinks : rows[m] # None /\ rows[m].key = form[q].old =>
                  m = Edited /\ form[q].stage = "write"
  <2>1. form[q].stage \in {"write", "unlink"}
    BY <1>1, <1>2
  <2> QED
    BY <2>1 DEF UploadIInv, OldsApart
<1>3. ASSUME NEW q \in Form!Pages, fn[q].stage \in {"write", "unlink"}, NEW o \in Form!Pages
      PROVE  ~ Uses(fn[o], fn[q].old)
  BY <1>1, <1>2, <1>3
<1>4. ASSUME NEW q \in Form!Pages, fn[q].stage \in {"write", "unlink"}, NEW m \in FormLinks,
             rn[m] # None, rn[m].key = fn[q].old
      PROVE  m = Edited /\ fn[q].stage = "write"
  <2>1. m # l /\ rn[m] = rows[m]
    BY <1>1, <1>2, <1>4
  <2>2. m = Edited /\ form[q].stage = "write"
    BY <1>1, <1>2, <1>4, <2>1
  <2> QED
    BY <1>1, <1>4, <2>1, <2>2
<1> QED
  BY <1>1, <1>2, <1>3, <1>4 DEF OldsApart

LEMMA LinkCreatedStep ==
  ASSUME UploadIInv, NEW p \in Form!Pages, NEW l \in FormLinks, Form!LinkCreated(p, l)
  PROVE  UploadIInv'
<1> DEFINE g == [form[p] EXCEPT !.stage = "saved"]
           k == form[p].key
           r == Form!Row(p)
<1>1. /\ form' = [form EXCEPT ![p].stage = "saved"] /\ rows' = [rows EXCEPT ![l] = r]
      /\ form[p].stage = "save" /\ p \in Create /\ l # Edited /\ rows[l] = None
      /\ UNCHANGED <<store, secret, restarts, provider>>
  BY DEF Form!LinkCreated
<1>2. /\ g \in Form!FormShape /\ g.stage = "saved" /\ \A j : ~ Uses(g, j)
      /\ \A pv, c, st : FormFits(pv, c, g, st)
      /\ form' = [form EXCEPT ![p] = g]
  BY <1>1, SavedIs
<1> HIDE DEF g
<1>3. k # None /\ IsWhole(provider, store[k], form[p])
  BY <1>1 DEF UploadIInv, FormFits
<1>4. k \in Keys /\ Uses(form[p], k)
  BY <1>1, <1>3, FormDomain, FormHas DEF Uses
<1>5. r \in Form!RowShape /\ r # None /\ r.key = k /\ IsWhole(provider, store[k], r)
  BY <1>3, <1>4, FormDomain, RowOfForm
<1> HIDE DEF r, k
<1>6. rows' \in [FormLinks -> Form!RowShape \cup {None}] /\ rows'[l] = r
      /\ \A m \in FormLinks \ {l} : rows'[m] = rows[m]
  BY <1>1, <1>5 DEF UploadIInv, Form!TypeOK
<1>7. form'[p] = g /\ \A q \in Form!Pages \ {p} : form'[q] = form[q]
  BY <1>2, FormDomain
<1>8. KeysApart(form', rows')
  <2>1. \A j : ~ Uses(form'[p], j)
    BY <1>2, <1>7
  <2> QED
    BY <1>4, <1>5, <1>6, <1>7, <2>1, RowTakesKey
<1>9. \A m \in FormLinks : RowFits(provider, rows'[m], store')
  BY <1>1, <1>5, <1>6 DEF UploadIInv, RowFits
<1>10. KeysSuffice(form', store')
  BY <1>1, <1>2, FormDomain, FewerAsk, KeysStillSuffice DEF UploadIInv
<1>11. \A j \in Keys : Serves(store[j], store'[j])
  BY <1>1 DEF Serves
<1>12. /\ store' \in [Keys -> Form!StoreShape \cup {None}]
       /\ \A j \in Keys : store'[j] # None => store'[j].got <= Form!SizeOf(store'[j].file)
  BY <1>1 DEF UploadIInv, Form!TypeOK
<1>13. Edit # {} => rows'[Edited] # None
  BY <1>1, <1>6, FormAssumption DEF UploadIInv, Form!UploadAssumption
<1>14. OldsApart(form', rows', store')
  <2>1. (\A j : ~ Uses(form'[p], j)) /\ form'[p].stage \notin {"write", "unlink"}
    BY <1>2, <1>7
  <2>2. OldsApart(form', rows', store)
    BY <1>4, <1>5, <1>6, <1>7, <2>1, OldsSeeRow
  <2> QED
    BY <1>1, <2>2
<1> QED
  BY <1>1, <1>2, <1>6, <1>8, <1>9, <1>10, <1>11, <1>12, <1>13, <1>14, OnePageMoves

LEMMA UpdatedIs ==
  ASSUME NEW p \in Form!Pages, form[p] \in Form!FormShape, form[p].key \in Keys,
         NEW o \in Form!RowShape, provider # "local" => o.sum = None
  PROVE  /\ Form!Updated(p, o) \in Form!RowShape /\ Form!Updated(p, o) # None
         /\ Form!Updated(p, o).key = form[p].key
         /\ \A e \in Form!StoreShape :
              IsWhole(provider, e, form[p]) => IsWhole(provider, e, Form!Updated(p, o))
<1> DEFINE r == Form!Row(p)
           s == IF r.sum = None THEN o.sum ELSE r.sum
<1>1. /\ r \in Form!RowShape /\ r.key = form[p].key
      /\ \A e : IsWhole(provider, e, form[p]) => IsWhole(provider, e, r)
  BY RowOfForm
<1>2. Form!Updated(p, o) = [r EXCEPT !.sum = s]
  BY UploadsStored DEF Form!Updated
<1>3. s \in Form!Digests \cup {None}
  BY <1>1, RowShapeHas
<1>4. ASSUME NEW e \in Form!StoreShape, IsWhole(provider, e, r) PROVE s = r.sum
  <2>1. CASE provider = "local"
    <3>1. Form!Digest(e.file, e.got) # None
      BY EntryHas, DigestIs
    <3> QED
      BY <1>4, <2>1, <3>1 DEF IsWhole
  <2>2. CASE provider # "local"
    BY <1>4, <2>2 DEF IsWhole
  <2> QED
    BY <2>1, <2>2
<1> HIDE DEF r, s
<1>5. /\ [r EXCEPT !.sum = s] \in Form!RowShape /\ [r EXCEPT !.sum = s].key = r.key
      /\ [r EXCEPT !.sum = s].name = r.name /\ [r EXCEPT !.sum = s].touched = r.touched
      /\ [r EXCEPT !.sum = s].sum = s
  BY <1>1, <1>3 DEF Form!RowShape
<1> DEFINE u == [r EXCEPT !.sum = s]
<1> HIDE DEF u
<1>6. \A e \in Form!StoreShape : IsWhole(provider, e, r) => IsWhole(provider, e, u)
  BY <1>4, <1>5 DEF IsWhole, u
<1> QED
  BY <1>1, <1>2, <1>5, <1>6, UploadsStored DEF u

LEMMA ReadLinkStep ==
  ASSUME UploadIInv, NEW p \in Form!Pages, Form!ReadLink(p)
  PROVE  UploadIInv'
<1> DEFINE o == rows[Edited].key
           g == [form[p] EXCEPT !.stage = "write", !.old = o]
<1>1. /\ form' = [form EXCEPT ![p] = g] /\ form[p].stage = "save" /\ p \in Edit
      /\ UNCHANGED <<store, rows, secret, restarts, provider>>
  <2>1. DOMAIN form = Form!Pages
    BY FormDomain
  <2> QED
    BY <2>1 DEF Form!ReadLink
<1>2. /\ Edited \in FormLinks /\ rows[Edited] # None /\ o \in Keys /\ p \notin Create
      /\ store[o] # None
  BY <1>1, FormAssumption, FormDomain DEF UploadIInv, Form!UploadAssumption, RowFits, IsWhole
<1> HIDE DEF o
<1>3. /\ g \in Form!FormShape /\ g.stage = "write" /\ g.old = o /\ g.key = form[p].key
      /\ g.name = form[p].name /\ g.sum = form[p].sum /\ g.touched = form[p].touched
  BY <1>2, FormDomain DEF Form!FormShape, Form!Waiting
<1> HIDE DEF g
<1>4. FormFits(provider, p \in Create, form[p], store)
  BY DEF UploadIInv
<1>5. FormFits(provider, p \in Create, g, store')
  BY <1>1, <1>2, <1>3, <1>4 DEF FormFits, IsWhole
<1>6. \A k \in Keys : Uses(g, k) => Uses(form[p], k)
  BY <1>1, <1>3 DEF Uses
<1>7. KeysSuffice(form', store')
  BY <1>1, <1>3, FormDomain, FewerAsk, KeysStillSuffice DEF UploadIInv
<1>8. KeysApart(form', rows')
  BY <1>1, <1>6, FormDomain, StillApart DEF UploadIInv
<1>9. form'[p] = g /\ \A q \in Form!Pages \ {p} : form'[q] = form[q]
  BY <1>1, FormDomain
<1>10. \A q \in Form!Pages, k \in Keys : Uses(form'[q], k) => Uses(form[q], k)
  BY <1>6, <1>9
<1>11. ASSUME NEW q \in Form!Pages, form'[q].stage \in {"write", "unlink"}
       PROVE  /\ form'[q].old \in Keys /\ store'[form'[q].old] # None
              /\ \A m \in Form!Pages : ~ Uses(form'[m], form'[q].old)
              /\ \A l \in FormLinks : rows'[l] # None /\ rows'[l].key = form'[q].old =>
                   l = Edited /\ form'[q].stage = "write"
  <2>1. CASE q = p
    <3>1. \A m \in Form!Pages : ~ Uses(form[m], o)
      BY <1>2 DEF UploadIInv, KeysApart, o
    <3>2. \A l \in FormLinks : rows[l] # None /\ rows[l].key = o => l = Edited
      BY <1>2 DEF UploadIInv, KeysApart, o
    <3> QED
      BY <1>1, <1>2, <1>3, <1>9, <1>10, <2>1, <3>1, <3>2
  <2>2. CASE q # p
    <3>1. form'[q] = form[q]
      BY <1>9, <2>2
    <3>2. /\ form[q].old \in Keys /\ store[form[q].old] # None
          /\ \A m \in Form!Pages : ~ Uses(form[m], form[q].old)
          /\ \A l \in FormLinks : rows[l] # None /\ rows[l].key = form[q].old =>
               l = Edited /\ form[q].stage = "write"
      BY <1>11, <3>1 DEF UploadIInv, OldsApart
    <3> QED
      BY <1>1, <1>10, <3>1, <3>2
  <2> QED
    BY <2>1, <2>2
<1>12. OldsApart(form', rows', store')
  BY <1>11 DEF OldsApart
<1>13. \A k \in Keys : Serves(store[k], store'[k])
  BY <1>1 DEF Serves
<1> QED
  BY <1>1, <1>3, <1>5, <1>7, <1>8, <1>12, <1>13, OnePageMoves DEF UploadIInv, Form!TypeOK

LEMMA WriteLinkStep ==
  ASSUME UploadIInv, NEW p \in Form!Pages, Form!WriteLink(p)
  PROVE  UploadIInv'
<1> DEFINE k == form[p].key
           x == IF k = None THEN "saved" ELSE "unlink"
           g == [form[p] EXCEPT !.stage = x]
           before == rows[Edited]
           r == Form!Updated(p, before)
<1>1. /\ form' = [form EXCEPT ![p] = g] /\ rows' = [rows EXCEPT ![Edited] = r]
      /\ form[p].stage = "write" /\ UNCHANGED <<store, secret, restarts, provider>>
  BY DEF Form!WriteLink
<1>2. /\ x \in Form!Waiting /\ x \in {"saved", "unlink"}
      /\ (k = None => x = "saved") /\ (k # None => x = "unlink")
  BY DEF Form!Waiting
<1> HIDE DEF x
<1>3. /\ g \in Form!FormShape /\ g.stage = x /\ g.old = form[p].old
  <2>1. form[p] \in Form!FormShape
    BY FormDomain
  <2> QED
    BY <1>2, <2>1 DEF Form!FormShape
<1> HIDE DEF g
<1>4. p \in Edit
  BY <1>1 DEF UploadIInv, FormFits, Form!Pages
<1>5. /\ Edited \in FormLinks /\ before # None /\ before \in Form!RowShape
      /\ RowFits(provider, before, store)
  BY <1>4, FormAssumption, FormDomain DEF UploadIInv, Form!UploadAssumption
<1>6. CASE k = None
  <2>1. r = before
    BY <1>6 DEF Form!Updated
  <2>2. UNCHANGED <<rows, store>>
    BY <1>1, <1>5, <2>1 DEF UploadIInv, Form!TypeOK
  <2> QED
    BY <1>1, <1>2, <1>3, <1>6, <2>2, FormStops
<1>7. CASE k # None
  <2>1. k \in Keys /\ Uses(form[p], k) /\ IsWhole(provider, store[k], form[p])
    <3>1. IsWhole(provider, store[k], form[p])
      BY <1>1, <1>7 DEF UploadIInv, FormFits
    <3> QED
      BY <1>1, <1>7, <3>1, FormDomain, FormHas DEF Uses
  <2>2. store[k] \in Form!StoreShape
    BY <2>1 DEF UploadIInv, Form!TypeOK, IsWhole
  <2>3. provider # "local" => before.sum = None
    BY <1>5 DEF RowFits, IsWhole
  <2>4. r \in Form!RowShape /\ r # None /\ r.key = k /\ IsWhole(provider, store[k], r)
    BY <1>5, <2>1, <2>2, <2>3, FormDomain, UpdatedIs
  <2> HIDE DEF r, k, before
  <2>5. rows' \in [FormLinks -> Form!RowShape \cup {None}] /\ rows'[Edited] = r
        /\ \A m \in FormLinks \ {Edited} : rows'[m] = rows[m]
    BY <1>1, <1>5, <2>4 DEF UploadIInv, Form!TypeOK
  <2>6. form'[p] = g /\ \A q \in Form!Pages \ {p} : form'[q] = form[q]
    BY <1>1, FormDomain
  <2>7. (\A j : ~ Uses(form'[p], j)) /\ form'[p].stage = "unlink" /\ form'[p].old = form[p].old
    BY <1>2, <1>3, <1>7, <2>6 DEF Uses
  <2>8. KeysApart(form', rows')
    BY <1>5, <2>1, <2>4, <2>5, <2>6, <2>7, RowTakesKey
  <2>9. OldsApart(form', rows', store')
    <3>1. OldsApart(form', rows', store)
      BY <1>1, <1>5, <2>1, <2>4, <2>5, <2>6, <2>7, OldsSeeRow
    <3> QED
      BY <1>1, <3>1
  <2>10. ASSUME NEW m \in FormLinks PROVE RowFits(provider, rows'[m], store')
    <3>1. CASE m = Edited
      BY <1>1, <2>4, <2>5, <3>1 DEF RowFits
    <3>2. CASE m # Edited
      BY <1>1, <2>5, <3>2 DEF UploadIInv
    <3> QED
      BY <3>1, <3>2
  <2>11. KeysSuffice(form', store')
    <3>1. Asking(form') \subseteq Asking(form)
      BY <1>1, <1>2, <1>3, FormDomain, FewerAsk
    <3> QED
      BY <1>1, <3>1, KeysStillSuffice DEF UploadIInv
  <2>12. \A j \in Keys : Serves(store[j], store'[j])
    BY <1>1 DEF Serves
  <2>13. FormFits(provider, p \in Create, g, store')
    BY <1>2, <1>3, <1>7 DEF FormFits
  <2>14. /\ store' \in [Keys -> Form!StoreShape \cup {None}]
         /\ \A j \in Keys : store'[j] # None => store'[j].got <= Form!SizeOf(store'[j].file)
    BY <1>1 DEF UploadIInv, Form!TypeOK
  <2>15. Edit # {} => rows'[Edited] # None
    BY <2>4, <2>5
  <2> QED
    BY <1>1, <1>3, <2>5, <2>8, <2>9, <2>10, <2>11, <2>12, <2>13, <2>14, <2>15, OnePageMoves
<1> QED
  BY <1>6, <1>7

LEMMA UnlinkOldStep ==
  ASSUME UploadIInv, NEW p \in Form!Pages, Form!UnlinkOld(p)
  PROVE  UploadIInv'
<1> DEFINE g == [form[p] EXCEPT !.stage = "saved"]
           o == form[p].old
<1>1. /\ form' = [form EXCEPT ![p].stage = "saved"] /\ form[p].stage = "unlink" /\ Form!Delete(o)
      /\ UNCHANGED <<rows, secret, restarts, provider>>
  BY DEF Form!UnlinkOld
<1>2. /\ g \in Form!FormShape /\ g.stage = "saved" /\ \A j : ~ Uses(g, j)
      /\ \A pv, c, st : FormFits(pv, c, g, st)
      /\ form' = [form EXCEPT ![p] = g]
  BY <1>1, SavedIs
<1> HIDE DEF g
<1>3. /\ o \in Keys /\ store[o] # None /\ \A q \in Form!Pages : ~ Uses(form[q], o)
      /\ \A l \in FormLinks : rows[l] # None => rows[l].key # o
  BY <1>1 DEF UploadIInv, OldsApart
<1> HIDE DEF o
<1>4. PICK x \in {"cut", "left", "deleted"} : store' = [store EXCEPT ![o].stage = x]
  BY <1>1, DeleteIs
<1>5. /\ store' \in [Keys -> Form!StoreShape \cup {None}]
      /\ \A j \in Keys : store'[j] # None => store'[j].got <= Form!SizeOf(store'[j].file)
      /\ \A j \in Keys \ {o} : store'[j] = store[j]
      /\ Unused(store') = Unused(store) /\ \A j \in Keys : store[j] # None => store'[j] # None
  <2>1. x \in Form!StoreStages /\ Form!TypeOK
    BY DEF Form!StoreStages, UploadIInv
  <2> QED
    BY <1>3, <1>4, <2>1, StageChanges
<1>6. \A j \in Keys \ {o} : Serves(store[j], store'[j])
  BY <1>5 DEF Serves
<1>7. \A q \in Form!Pages \ {p}, j \in Keys : Uses(form[q], j) => Serves(store[j], store'[j])
  BY <1>3, <1>6
<1>8. ASSUME NEW l \in FormLinks PROVE RowFits(provider, rows'[l], store')
  <2>1. RowFits(provider, rows[l], store) /\ (rows[l] # None => rows[l].key \in Keys)
    BY FormDomain DEF UploadIInv
  <2>2. rows[l] # None => Serves(store[rows[l].key], store'[rows[l].key])
    BY <1>3, <1>6, <2>1
  <2>3. RowFits(provider, rows[l], store')
    BY <2>1, <2>2, RowStillFits
  <2> QED
    BY <1>1, <2>3
<1>9. KeysApart(form', rows')
  <2>1. KeysApart(form', rows)
    BY <1>2, FormDomain, StillApart DEF UploadIInv
  <2> QED
    BY <1>1, <2>1
<1>10. KeysSuffice(form', store')
  <2>1. Asking(form') \subseteq Asking(form)
    BY <1>2, FormDomain, FewerAsk
  <2> QED
    BY <1>5, <2>1, KeysStillSuffice DEF UploadIInv
<1>11. OldsApart(form', rows', store')
  <2>1. OldsApart(form', rows, store')
    BY <1>2, <1>5, FormDomain, OldsStillApart DEF UploadIInv
  <2> QED
    BY <1>1, <2>1
<1>12. /\ rows' \in [FormLinks -> Form!RowShape \cup {None}] /\ (Edit # {} => rows'[Edited] # None)
  BY <1>1 DEF UploadIInv, Form!TypeOK
<1> QED
  BY <1>1, <1>2, <1>5, <1>7, <1>8, <1>9, <1>10, <1>11, <1>12, OnePageMoves

\* No form or row changes, and every entry serves whoever relies on it.
LEMMA StoreMoves ==
  ASSUME UploadIInv, UNCHANGED <<form, rows, secret, restarts, provider>>,
         store' \in [Keys -> Form!StoreShape \cup {None}],
         \A k \in Keys : store'[k] # None => store'[k].got <= Form!SizeOf(store'[k].file),
         \A k \in Keys : Serves(store[k], store'[k]),
         Unused(store') = Unused(store)
  PROVE  UploadIInv'
<1>1. Form!TypeOK'
  BY DEF UploadIInv, Form!TypeOK
<1>2. ASSUME NEW p \in Form!Pages PROVE FormFits(provider, p \in Create, form[p], store')
  <2>1. FormFits(provider, p \in Create, form[p], store) /\ form[p].key \in Keys \cup {None}
    BY FormDomain, FormHas DEF UploadIInv
  <2> QED
    BY <2>1, FormStillFits
<1>3. ASSUME NEW l \in FormLinks PROVE RowFits(provider, rows[l], store')
  <2>1. RowFits(provider, rows[l], store) /\ (rows[l] # None => rows[l].key \in Keys)
    BY FormDomain DEF UploadIInv
  <2> QED
    BY <2>1, RowStillFits
<1>4. KeysSuffice(form, store')
  BY DEF UploadIInv, KeysSuffice
<1>5. OldsApart(form, rows, store')
  BY DEF UploadIInv, OldsApart, Serves
<1> QED
  BY <1>1, <1>2, <1>3, <1>4, <1>5 DEF UploadIInv

LEMMA ReceiveBytesStep ==
  ASSUME UploadIInv, NEW k \in Keys, Form!ReceiveBytes(k)
  PROVE  UploadIInv'
<1> DEFINE n == store[k].got + 1
           e == [store[k] EXCEPT !.got = n]
<1>1. /\ store' = [store EXCEPT ![k] = e] /\ store[k] # None /\ store[k].stage = "writing"
      /\ store[k].got # Form!SizeOf(store[k].file)
      /\ UNCHANGED <<form, rows, secret, restarts, provider>>
  BY DEF Form!ReceiveBytes, Form!Writing, Form!AtEnd
<1>2. /\ store[k] \in Form!StoreShape /\ store[k].got \in Nat /\ Form!SizeOf(store[k].file) \in Nat
      /\ store[k].got <= Form!SizeOf(store[k].file)
  BY <1>1, EntryHas, SizeIsNat DEF UploadIInv, Form!TypeOK
<1>3. n \in Nat /\ n <= Form!SizeOf(store[k].file)
  BY <1>1, <1>2
<1> HIDE DEF n
<1>4. e \in Form!StoreShape /\ e.stage = store[k].stage /\ e.file = store[k].file /\ e.got = n
  BY <1>2, <1>3 DEF Form!StoreShape
<1> HIDE DEF e
<1>5. /\ store' \in [Keys -> Form!StoreShape \cup {None}]
      /\ store'[k] = e /\ \A j \in Keys \ {k} : store'[j] = store[j]
  BY <1>1, <1>4 DEF UploadIInv, Form!TypeOK
<1>6. \A j \in Keys : store'[j] # None => store'[j].got <= Form!SizeOf(store'[j].file)
  BY <1>3, <1>4, <1>5 DEF UploadIInv, Form!TypeOK
<1>7. e # None
  BY <1>4, UploadsStored
<1>8. \A j \in Keys : Serves(store[j], store'[j])
  BY <1>1, <1>4, <1>5, <1>7 DEF Serves
<1>9. Unused(store') = Unused(store)
  BY <1>1, <1>5, <1>7 DEF Unused
<1> QED
  BY <1>1, <1>5, <1>6, <1>8, <1>9, StoreMoves

LEMMA RestartStep ==
  ASSUME UploadIInv, NEW rotate \in BOOLEAN, Form!Restart(rotate)
  PROVE  UploadIInv'
<1> DEFINE x == IF provider = "local" THEN "cut" ELSE "deleted"
           Next1(p) == IF form[p].stage \in Form!Waiting THEN Form!Idle(form[p].file) ELSE form[p]
           Cut(k) == [store[k] EXCEPT !.stage = x]
           Then(k) == IF Form!Writing(k) THEN Cut(k) ELSE store[k]
<1>1. /\ form' = [p \in Form!Pages |-> Next1(p)] /\ store' = [k \in Keys |-> Then(k)]
      /\ restarts < MaxRestarts /\ restarts' = restarts + 1
      /\ secret' \in {secret, secret + 1} /\ UNCHANGED <<rows, provider>>
  BY DEF Form!Restart
<1>2. x \in {"cut", "deleted"}
  OBVIOUS
<1> HIDE DEF x
<1>3. ASSUME NEW p \in Form!Pages
      PROVE  /\ form'[p] \in Form!FormShape /\ form'[p].stage \in {"open", "done"}
             /\ \A k : ~ Uses(form'[p], k)
             /\ FormFits(provider, p \in Create, form'[p], store')
  <2>1. form[p] \in Form!FormShape /\ form[p].file \in Files \cup {None}
    BY FormDomain, FormHas
  <2>2. form'[p] = Next1(p)
    BY <1>1
  <2>3. form'[p] \in Form!FormShape /\ form'[p].stage \in {"open", "done"}
    BY <2>1, <2>2, IdleIs, FormHas
  <2> QED
    BY <2>3 DEF Uses, FormFits
<1>4. ASSUME NEW k \in Keys
      PROVE  /\ store'[k] \in Form!StoreShape \cup {None}
             /\ store'[k] # None => store'[k].got <= Form!SizeOf(store'[k].file)
             /\ store'[k] = None <=> store[k] = None
             /\ store[k] # None /\ store[k].stage # "writing" => store'[k] = store[k]
  <2>1. store'[k] = Then(k)
    BY <1>1
  <2>2. CASE Form!Writing(k)
    <3>1. store[k] # None /\ store[k] \in Form!StoreShape /\ store[k].stage = "writing"
      BY <2>2 DEF UploadIInv, Form!TypeOK, Form!Writing
    <3>2. Cut(k) \in Form!StoreShape /\ Cut(k).file = store[k].file /\ Cut(k).got = store[k].got
      <4>1. store[k] \in Form!StoreShape /\ x \in Form!StoreStages
        BY <1>2, <3>1 DEF Form!StoreStages
      <4> QED
        BY <4>1, EntryWithStage
    <3>3. store'[k] = Cut(k)
      BY <2>1, <2>2
    <3>4. Cut(k) # None
      BY <3>2, UploadsStored
    <3> QED
      BY <3>1, <3>2, <3>3, <3>4 DEF UploadIInv, Form!TypeOK
  <2>3. CASE ~ Form!Writing(k)
    BY <2>1, <2>3 DEF UploadIInv, Form!TypeOK
  <2> QED
    BY <2>2, <2>3
<1> HIDE DEF Next1, Then
<1>5. Form!TypeOK'
  <2>1. form' \in [Form!Pages -> Form!FormShape] /\ store' \in [Keys -> Form!StoreShape \cup {None}]
    BY <1>1, <1>3, <1>4
  <2>2. secret' \in 0 .. restarts' /\ restarts' \in 0 .. MaxRestarts
    BY <1>1, FormAssumption DEF UploadIInv, Form!TypeOK, Form!UploadAssumption
  <2>3. rows' \in [FormLinks -> Form!RowShape \cup {None}] /\ provider' \in {"local", "cloud"}
    BY <1>1 DEF UploadIInv, Form!TypeOK
  <2> QED
    BY <1>4, <2>1, <2>2, <2>3 DEF Form!TypeOK
<1>6. ASSUME NEW l \in FormLinks PROVE RowFits(provider, rows[l], store')
  <2>1. RowFits(provider, rows[l], store) /\ (rows[l] # None => rows[l].key \in Keys)
    BY FormDomain DEF UploadIInv
  <2> QED
    BY <1>4, <2>1 DEF RowFits, IsWhole
<1>7. KeysApart(form', rows)
  BY <1>3 DEF UploadIInv, KeysApart
<1>8. KeysSuffice(form', store')
  <2>1. Asking(form') = {} /\ Unused(store') = Unused(store)
    BY <1>3, <1>4 DEF Asking, Unused
  <2>2. Asking(form') \subseteq Asking(form)
    BY <2>1
  <2> QED
    BY <2>1, <2>2, KeysStillSuffice DEF UploadIInv
<1>9. OldsApart(form', rows, store')
  BY <1>3 DEF OldsApart
<1> QED
  BY <1>1, <1>3, <1>5, <1>6, <1>7, <1>8, <1>9 DEF UploadIInv

LEMMA UploadStarts ==
  ASSUME Form!Init
  PROVE  UploadIInv
<1>1. PICK k \in Keys, f \in Files :
        /\ provider = "local" => f \in Signed /\ Size[f] <= Limit
        /\ store = [j \in Keys |-> IF j = k /\ Edit # {}
                                   THEN [file |-> f, got |-> Size[f], secret |-> 0, stage |-> "whole"]
                                   ELSE None]
        /\ rows = [l \in FormLinks |-> IF l = Edited /\ Edit # {}
                                   THEN [key |-> k, name |-> f, touched |-> FALSE, sum |->
                                           IF provider = "local" THEN Form!Digest(f, Size[f]) ELSE None]
                                   ELSE None]
  BY DEF Form!Init
<1>2. /\ provider \in {"local", "cloud"} /\ form = [p \in Form!Pages |-> Form!Idle(None)]
      /\ secret = 0 /\ restarts = 0
  BY DEF Form!Init
<1> DEFINE s == IF provider = "local" THEN Form!Digest(f, Size[f]) ELSE None
           e == [file |-> f, got |-> Size[f], secret |-> 0, stage |-> "whole"]
           r == [key |-> k, name |-> f, touched |-> FALSE, sum |-> s]
<1>3. Size[f] \in Nat /\ Form!SizeOf(f) = Size[f] /\ Edited \in FormLinks /\ MaxRestarts \in Nat
  BY FormAssumption, UploadsStored DEF Form!UploadAssumption, Form!SizeOf
<1>4. s \in Form!Digests \cup {None}
  BY <1>3, DigestIs
<1>5. store = [j \in Keys |-> IF j = k /\ Edit # {} THEN e ELSE None]
  BY <1>1
<1>6. rows = [l \in FormLinks |-> IF l = Edited /\ Edit # {} THEN r ELSE None]
  BY <1>1
<1>7. /\ e \in Form!StoreShape /\ e # None /\ e.stage = "whole" /\ e.file = f /\ e.got = Size[f]
  BY <1>3, UploadsStored DEF Form!StoreShape, Form!StoreStages
<1>8. s = IF provider = "local" THEN Form!Digest(e.file, e.got) ELSE None
  BY <1>7
<1> HIDE DEF s, e
<1>9. r \in Form!RowShape /\ r # None /\ r.key = k /\ r.name = f /\ r.sum = s
  BY <1>4, UploadsStored DEF Form!RowShape
<1> HIDE DEF r
<1>10. \A p \in Form!Pages : /\ form[p] \in Form!FormShape /\ form[p].stage = "open"
                             /\ \A j : ~ Uses(form[p], j)
                             /\ FormFits(provider, p \in Create, form[p], store)
  BY <1>2, IdleIs
<1>11. /\ store \in [Keys -> Form!StoreShape \cup {None}]
       /\ \A j \in Keys : store[j] # None => store[j].got <= Form!SizeOf(store[j].file)
  BY <1>3, <1>5, <1>7
<1>12. rows \in [FormLinks -> Form!RowShape \cup {None}]
  BY <1>6, <1>9
<1>13. Form!TypeOK
  <2>1. form \in [Form!Pages -> Form!FormShape]
    BY <1>2, <1>10
  <2>2. secret \in 0 .. restarts /\ restarts \in 0 .. MaxRestarts
    BY <1>2, <1>3
  <2> QED
    BY <1>2, <1>11, <1>12, <2>1, <2>2 DEF Form!TypeOK
<1>14. ASSUME NEW l \in FormLinks, rows[l] # None PROVE l = Edited /\ Edit # {} /\ rows[l] = r
  BY <1>6, <1>14
<1>15. IsWhole(provider, e, r)
  <2>1. r.touched = FALSE
    BY DEF r
  <2> QED
    BY <1>3, <1>7, <1>8, <1>9 DEF IsWhole
<1>16. ASSUME NEW l \in FormLinks PROVE RowFits(provider, rows[l], store)
  <2>1. ASSUME rows[l] # None PROVE store[rows[l].key] = e /\ rows[l] = r
    BY <1>5, <1>9, <1>14, <2>1
  <2> QED
    BY <1>15, <2>1 DEF RowFits
<1>17. KeysApart(form, rows)
  BY <1>10, <1>14 DEF KeysApart
<1>18. KeysSuffice(form, store)
  <2>1. Asking(form) = {}
    BY <1>10 DEF Asking
  <2>2. Cardinality({}) = 0
    BY FS_EmptySet
  <2>3. Cardinality(Unused(store)) \in Nat
    BY CountsAreNat
  <2> QED
    BY <2>1, <2>2, <2>3 DEF KeysSuffice
<1>19. Edit # {} => rows[Edited] # None
  BY <1>3, <1>6, <1>9
<1>20. OldsApart(form, rows, store)
  BY <1>10 DEF OldsApart
<1> QED
  BY <1>10, <1>13, <1>16, <1>17, <1>18, <1>19, <1>20 DEF UploadIInv

LEMMA UploadStep ==
  ASSUME UploadIInv, Form!Next
  PROVE  UploadIInv'
<1>1. ASSUME NEW p \in Form!Pages, Form!PageStep(p) PROVE UploadIInv'
  BY <1>1, IntentAnsweredStep, UploadAnsweredStep, UploadRefusedStep, LinkCreatedStep,
     CreateRefusedStep, CleanupUploadStep, ReadLinkStep, WriteLinkStep, UnlinkOldStep,
     UpdateRefusedStep, FormAnsweredStep DEF Form!PageStep
<1>2. ASSUME NEW p \in Form!Pages, Form!Submit(p) \/ Form!NetworkError(p) PROVE UploadIInv'
  BY <1>2, SubmitFormStep, NetworkErrorStep
<1> QED
  BY <1>1, <1>2, ChooseFileStep, ReceiveBytesStep, RestartStep DEF Form!Next

LEMMA UploadStutter ==
  ASSUME UploadIInv, UNCHANGED formVars
  PROVE  UploadIInv'
<1>1. UNCHANGED <<form, store, rows, secret, restarts, provider>>
  BY DEF formVars
<1>2. \A k \in Keys : Serves(store[k], store'[k])
  BY <1>1 DEF Serves
<1>3. Unused(store') = Unused(store)
  BY <1>1
<1> QED
  BY <1>1, <1>2, <1>3, StoreMoves DEF UploadIInv, Form!TypeOK

-----------------------------------------------------------------------------
(* No file is lost sight of *)

\* The form f is still about to do something with the file under k.
Holds(f, k) == Uses(f, k) \/ (f.stage = "unlink" /\ f.old = k)

LEMMA KnownIs ==
  ASSUME NEW k
  PROVE  /\ Form!Known(k) <=> \/ \E l \in FormLinks : rows[l] # None /\ rows[l].key = k
                             \/ \E p \in Form!Pages : Holds(form[p], k)
         /\ Form!Known(k)' <=> \/ \E l \in FormLinks : rows'[l] # None /\ rows'[l].key = k
                              \/ \E p \in Form!Pages : Holds(form'[p], k)
BY DEF Form!Known, Holds, Uses

LEMMA DeletedIsNotWhole ==
  ASSUME UploadIInv, NEW k \in Keys, store[k] # None, Form!Delete(k)
  PROVE  store'[k].stage # "whole"
<1>1. PICK x \in {"cut", "left", "deleted"} : store' = [store EXCEPT ![k].stage = x]
  BY DeleteIs
<1>2. x \in Form!StoreStages /\ Form!TypeOK
  BY DEF Form!StoreStages, UploadIInv
<1>3. store'[k].stage = x
  BY <1>1, <1>2, StageChanges
<1> QED
  BY <1>3

\* The page that moves still knows a file, or has lost it in one of the three ways.
LEMMA MoverKeeps ==
  ASSUME UploadIInv, NEW p \in Form!Pages, NEW k \in Keys, Holds(form[p], k),
         store'[k].stage = "whole",
         (\E f \in Files \cup {None} : Form!ChooseFile(p, f)) \/ Form!Submit(p) \/ Form!NetworkError(p)
           \/ Form!PageStep(p)
  PROVE  Form!Known(k)' \/ Form!LostBy(p, k)
<1>1. DOMAIN form = Form!Pages /\ form[p] \in Form!FormShape /\ k # None
  BY FormDomain, UploadsStored
<1>2. /\ form[p].stage \in {"upload", "save", "write", "cleanup", "unlink"}
      /\ form[p].stage # "unlink" => form[p].key = k /\ Uses(form[p], k)
      /\ form[p].stage = "unlink" => form[p].old = k
  BY DEF Holds, Uses
<1>3. store[k] # None
  BY <1>2, UsedByOne DEF UploadIInv, OldsApart
<1>4. ASSUME Holds(form'[p], k) PROVE Form!Known(k)'
  BY <1>4, KnownIs
<1>5. ASSUME NEW f \in Files \cup {None}, Form!ChooseFile(p, f) PROVE Form!Known(k)'
  <2>1. form' = [form EXCEPT ![p] = [form[p] EXCEPT !.file = f,
                                       !.touched = form[p].touched \/ form[p].stage = "intent"]]
    BY <1>5, <1>1 DEF Form!ChooseFile
  <2>2. form'[p].key = form[p].key /\ form'[p].stage = form[p].stage /\ form'[p].old = form[p].old
    BY <1>1, <2>1 DEF Form!FormShape
  <2>3. Holds(form'[p], k)
    BY <2>2 DEF Holds, Uses
  <2> QED
    BY <1>4, <2>3
<1>6. CASE Form!Submit(p) \/ Form!IntentAnswered(p) \/ Form!FormAnswered(p)
  BY <1>2, <1>6 DEF Form!Submit, Form!IntentAnswered, Form!FormAnswered
<1>7. CASE Form!NetworkError(p)
  <2>1. form'[p] = Form!Idle(form[p].file)
    BY <1>1, <1>7 DEF Form!NetworkError
  <2> QED
    BY <1>2, <2>1 DEF Form!Idle, Form!LostBy
<1>8. CASE Form!UploadAnswered(p)
  <2>1. form' = [form EXCEPT ![p] = [form[p] EXCEPT !.stage = "save",
                                                    !.sum = Form!Checksum(form[p].key)]]
        /\ form[p].stage = "upload"
    BY <1>1, <1>8 DEF Form!UploadAnswered
  <2>2. form'[p].stage = "save" /\ form'[p].key = form[p].key
    BY <1>1, <2>1 DEF Form!FormShape
  <2>3. Holds(form'[p], k)
    BY <1>2, <2>1, <2>2 DEF Holds, Uses
  <2> QED
    BY <1>4, <2>3
<1>9. CASE Form!UploadRefused(p) \/ Form!CleanupUpload(p)
  <2>1. Form!Delete(form[p].key) /\ form[p].stage \in {"upload", "cleanup"}
    BY <1>9 DEF Form!UploadRefused, Form!CleanupUpload
  <2> QED
    BY <1>2, <1>3, <2>1, DeletedIsNotWhole
<1>10. CASE Form!UnlinkOld(p)
  <2>1. Form!Delete(form[p].old) /\ form[p].stage = "unlink"
    BY <1>10 DEF Form!UnlinkOld
  <2> QED
    BY <1>2, <1>3, <2>1, DeletedIsNotWhole
<1>11. ASSUME NEW l \in FormLinks, Form!LinkCreated(p, l) PROVE Form!Known(k)'
  <2>1. rows'[l] = Form!Row(p) /\ form[p].stage = "save"
    BY <1>11 DEF Form!LinkCreated, UploadIInv, Form!TypeOK
  <2>2. rows'[l] # None /\ rows'[l].key = k
    BY <1>1, <1>2, <2>1, RowOfForm
  <2> QED
    BY <2>2, KnownIs
<1>12. CASE Form!CreateRefused(p)
  <2>1. form' = [form EXCEPT ![p] = [form[p] EXCEPT !.stage = "cleanup"]] /\ form[p].stage = "save"
    BY <1>12 DEF Form!CreateRefused
  <2>2. form'[p].stage = "cleanup" /\ form'[p].key = form[p].key
    BY <1>1, <2>1 DEF Form!FormShape
  <2>3. Holds(form'[p], k)
    BY <1>2, <2>1, <2>2 DEF Holds, Uses
  <2> QED
    BY <1>4, <2>3
<1>13. CASE Form!ReadLink(p)
  <2>1. form' = [form EXCEPT ![p] = [form[p] EXCEPT !.stage = "write", !.old = rows[Edited].key]]
        /\ form[p].stage = "save"
    BY <1>1, <1>13 DEF Form!ReadLink
  <2>2. form'[p].stage = "write" /\ form'[p].key = form[p].key
    BY <1>1, <2>1 DEF Form!FormShape
  <2>3. Holds(form'[p], k)
    BY <1>2, <2>1, <2>2 DEF Holds, Uses
  <2> QED
    BY <1>4, <2>3
<1>14. CASE Form!WriteLink(p)
  <2>1. /\ rows' = [rows EXCEPT ![Edited] = Form!Updated(p, rows[Edited])]
        /\ form[p].stage = "write"
    BY <1>14 DEF Form!WriteLink
  <2>2. form[p].key = k
    BY <1>2, <2>1
  <2>3. p \in Edit
    BY <2>1 DEF UploadIInv, FormFits, Form!Pages
  <2>4. /\ Edited \in FormLinks /\ rows[Edited] # None /\ rows[Edited] \in Form!RowShape
        /\ RowFits(provider, rows[Edited], store) /\ DOMAIN rows = FormLinks
    BY <2>3, FormAssumption, FormDomain DEF UploadIInv, Form!UploadAssumption, Form!TypeOK
  <2>5. provider # "local" => rows[Edited].sum = None
    BY <2>4 DEF RowFits, IsWhole
  <2>6. Form!Updated(p, rows[Edited]) # None /\ Form!Updated(p, rows[Edited]).key = k
    BY <1>1, <2>2, <2>4, <2>5, UpdatedIs
  <2>7. rows'[Edited] = Form!Updated(p, rows[Edited])
    BY <2>1, <2>4
  <2> QED
    BY <2>4, <2>6, <2>7, KnownIs
<1>15. CASE Form!UpdateRefused(p)
  <2>1. form' = [form EXCEPT ![p] = [form[p] EXCEPT !.stage = "refused"]] /\ p \in Edit
        /\ form[p].stage \in {"save", "write"}
    BY <1>15 DEF Form!UpdateRefused
  <2>2. form'[p].stage = "refused"
    BY <1>1, <2>1 DEF Form!FormShape
  <2> QED
    BY <1>2, <2>1, <2>2 DEF Form!LostBy
<1> QED
  BY <1>5, <1>6, <1>7, <1>8, <1>9, <1>10, <1>11, <1>12, <1>13, <1>14, <1>15 DEF Form!PageStep

\* So does a row, unless an edit that has not seen its file replaces it.
LEMMA RowKeeps ==
  ASSUME UploadIInv, NEW p \in Form!Pages, NEW k \in Keys,
         NEW l \in FormLinks, rows[l] # None, rows[l].key = k,
         (\E f \in Files \cup {None} : Form!ChooseFile(p, f)) \/ Form!Submit(p) \/ Form!NetworkError(p)
           \/ Form!PageStep(p)
  PROVE  Form!Known(k)' \/ Form!LostBy(p, k)
<1>1. ASSUME rows'[l] = rows[l] PROVE Form!Known(k)'
  BY <1>1, KnownIs
<1>2. ASSUME NEW m \in FormLinks, Form!LinkCreated(p, m) PROVE rows'[l] = rows[l]
  BY <1>2 DEF Form!LinkCreated
<1>3. CASE Form!WriteLink(p)
  <2>1. /\ rows' = [rows EXCEPT ![Edited] = Form!Updated(p, rows[Edited])]
        /\ form' = [form EXCEPT ![p].stage = IF form[p].key = None THEN "saved" ELSE "unlink"]
        /\ form[p].stage = "write" /\ DOMAIN rows = FormLinks
        /\ DOMAIN form = Form!Pages /\ form[p] \in Form!FormShape
    BY <1>3, FormDomain DEF Form!WriteLink, UploadIInv, Form!TypeOK
  <2>2. CASE l # Edited \/ form[p].key = None
    <3>1. rows'[l] = rows[l]
      BY <2>1, <2>2 DEF Form!Updated
    <3> QED
      BY <1>1, <3>1
  <2>3. CASE l = Edited /\ form[p].key # None
    <3>1. form' = [form EXCEPT ![p] = [form[p] EXCEPT !.stage = "unlink"]]
      BY <2>1, <2>3
    <3>2. form'[p].stage = "unlink" /\ form'[p].old = form[p].old
      BY <2>1, <3>1 DEF Form!FormShape
    <3>3. CASE form[p].old = k
      <4>1. Holds(form'[p], k)
        BY <3>2, <3>3 DEF Holds
      <4> QED
        BY <4>1, KnownIs
    <3>4. CASE form[p].old # k
      BY <2>1, <3>2, <3>4 DEF Form!LostBy
    <3> QED
      BY <3>3, <3>4
  <2> QED
    BY <2>2, <2>3
<1>4. ASSUME ~ Form!WriteLink(p), \A m \in FormLinks : ~ Form!LinkCreated(p, m) PROVE UNCHANGED rows
  BY <1>4 DEF Form!ChooseFile, Form!Submit, Form!NetworkError, Form!PageStep,
     Form!IntentAnswered, Form!UploadAnswered, Form!UploadRefused, Form!CreateRefused,
     Form!CleanupUpload, Form!ReadLink, Form!UnlinkOld, Form!UpdateRefused, Form!FormAnswered
<1> QED
  BY <1>1, <1>2, <1>3, <1>4

LEMMA PageKeeps ==
  ASSUME UploadIInv, NEW p \in Form!Pages, NEW k \in Keys, Form!Known(k),
         store'[k].stage = "whole",
         (\E f \in Files \cup {None} : Form!ChooseFile(p, f)) \/ Form!Submit(p) \/ Form!NetworkError(p)
           \/ Form!PageStep(p)
  PROVE  Form!Known(k)' \/ Form!LostBy(p, k)
<1>1. \A q \in Form!Pages \ {p} : form'[q] = form[q]
  BY FormDomain DEF Form!ChooseFile, Form!Submit, Form!NetworkError, Form!PageStep,
     Form!IntentAnswered, Form!UploadAnswered, Form!UploadRefused, Form!LinkCreated,
     Form!CreateRefused, Form!CleanupUpload, Form!ReadLink, Form!WriteLink, Form!UnlinkOld,
     Form!UpdateRefused, Form!FormAnswered
<1>2. ASSUME NEW q \in Form!Pages \ {p}, Holds(form[q], k) PROVE Form!Known(k)'
  BY <1>1, <1>2, KnownIs
<1> QED
  BY <1>2, MoverKeeps, RowKeeps, KnownIs

LEMMA StepKeeps ==
  ASSUME UploadIInv, Form!Next, NEW k \in Keys, Form!Known(k), store'[k].stage = "whole"
  PROVE  Form!Known(k)' \/ \E p \in Form!Pages : Form!LostBy(p, k)
<1>1. ASSUME NEW j \in Keys, Form!ReceiveBytes(j) PROVE Form!Known(k)'
  BY <1>1 DEF Form!ReceiveBytes, Form!Known
<1>2. ASSUME NEW rotate \in BOOLEAN, Form!Restart(rotate)
      PROVE  Form!Known(k)' \/ \E p \in Form!Pages : Form!LostBy(p, k)
  <2>1. /\ form' = [p \in Form!Pages |->
                      IF form[p].stage \in Form!Waiting THEN Form!Idle(form[p].file) ELSE form[p]]
        /\ UNCHANGED rows
    BY <1>2 DEF Form!Restart
  <2>2. ASSUME NEW p \in Form!Pages, Holds(form[p], k)
        PROVE  Form!LostBy(p, k)
    <3>1. form[p].stage \in Form!Waiting /\ k \in {form[p].key, form[p].old}
      BY <2>2 DEF Holds, Uses, Form!Waiting
    <3>2. form'[p].stage = "open"
      BY <2>1, <3>1 DEF Form!Idle
    <3> QED
      BY <3>1, <3>2 DEF Form!LostBy
  <2> QED
    BY <2>1, <2>2, KnownIs
<1> QED
  BY <1>1, <1>2, PageKeeps DEF Form!Next

-----------------------------------------------------------------------------
(* The specification of the uploads *)

LEMMA UploadsStart == UploadsInit => UploadIInv /\ TypesIInv
BY UploadStarts, TypesStart DEF UploadsInit, TransfersInit

LEMMA UploadsStep ==
  ASSUME UploadIInv, TypesIInv, [TransfersNext]_allVars
  PROVE  UploadIInv' /\ TypesIInv'
<1>1. [Form!Next]_formVars /\ [Types!Next]_typeVars
  BY DEF TransfersNext, allVars
<1> QED
  BY <1>1, UploadStep, UploadStutter, TypesStep

LEMMA UploadsStay == UploadsSpec => [](UploadIInv /\ TypesIInv)
BY UploadsStart, UploadsStep, PTL DEF UploadsSpec

LEMMA UploadsHold ==
  ASSUME UploadIInv, TypesIInv
  PROVE  UploadsInv
<1>1. ASSUME NEW l \in FormLinks, rows[l] # None
      PROVE  IsWhole(provider, store[rows[l].key], rows[l])
  BY <1>1 DEF UploadIInv, RowFits
<1>2. Form!RowHasWholeFile /\ Form!RowIsWhatWasChosen
  BY <1>1 DEF IsWhole, Form!RowHasWholeFile, Form!RowIsWhatWasChosen
<1>3. Form!SumIsOfFile
  BY <1>1 DEF IsWhole, Form!SumIsOfFile
<1> QED
  BY <1>2, <1>3, TypesHold DEF UploadIInv, UploadsInv

\* What is uploaded, createLink and updateLink: every link has the whole of the file that
\* was chosen, and a checksum of what is stored; and the tables of types agree with
\* each other where a file is stored, shown and served.
THEOREM UploadsAreWhole == UploadsSpec => []UploadsInv
BY UploadsStay, UploadsHold, PTL

\* saveLocalStream, createLink, updateLink and the form: of a file that was stored to its
\* end, a form or a row knows until its deletion was tried, but for a request that breaks
\* off, a refused edit and edits of one link that overlap.
THEOREM FilesAreKeptOrDeleted == UploadsSpec => KeptOrDeleted
<1>1. ASSUME UploadIInv, [TransfersNext]_allVars
      PROVE  [\A k \in Keys : Form!Known(k) /\ store'[k].stage = "whole" =>
                Form!Known(k)' \/ \E p \in Form!Pages : Form!LostBy(p, k)]_Form!vars
  <2>1. Form!Next \/ UNCHANGED formVars
    BY <1>1 DEF TransfersNext, allVars
  <2>2. formVars = Form!vars
    BY DEF formVars, Form!vars
  <2>3. CASE Form!Next
    BY <1>1, <2>3, StepKeeps
  <2> QED
    BY <2>1, <2>2, <2>3 DEF formVars, Form!vars
<1> QED
  BY <1>1, UploadsStay, PTL DEF UploadsSpec, KeptOrDeleted, Form!KeptOrDeleted
=============================================================================
