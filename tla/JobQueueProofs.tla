--------------------------- MODULE JobQueueProofs ---------------------------
(***************************************************************************)
(* Proofs about JobQueue, for every value of its constants.                *)
(*                                                                         *)
(* Poll and addJob both run the loop, the one on the queues as they are,   *)
(* the other on the queues with the new job.  Ready says what the loop     *)
(* needs to find; that one round of the loop keeps the invariant is proved *)
(* from it, once for both.  The concurrency limit is a counting argument:  *)
(* the jobs that a round starts are numbered by how many of them come      *)
(* before each, and those numbers are below the count of free places.      *)
(*                                                                         *)
(* The last section compares Taken with the loop as it is written, turn by *)
(* turn, which JobLoop defines as a recursive function: in each turn the   *)
(* loop takes the first of the jobs that Taken has left.                   *)
(***************************************************************************)
EXTENDS JobLoop, FiniteSetTheorems, NaturalsInduction, WellFoundedInduction, TLAPS

-----------------------------------------------------------------------------
(* What the loop finds *)

\* The jobs jb, in the arrays q, with n pushes made, are what the loop may find.
Ready(q, jb, n) ==
  /\ q \in [Priorities -> SUBSET Jobs]
  /\ jb \in [Jobs -> Job \cup {NoJob}]
  /\ n \in Nat
  /\ \A j \in Jobs : jb[j] = NoJob <=>
       j \notin Queued(q) \cup active \cup completed \cup failedJobs
  /\ \A p \in Priorities :
       /\ \A i, j \in q[p] : jb[i].pushed = jb[j].pushed => i = j
       /\ q[p] \cap (active \cup completed \cup failedJobs) = {}
       /\ \A r \in Priorities : p # r => q[p] \cap q[r] = {}
  /\ active \cap (completed \cup failedJobs) = {}
  /\ completed \cap failedJobs = {}
  /\ \A j \in Jobs : IF jb[j] = NoJob THEN tries[j] = 0 ELSE
       /\ jb[j].pushed < n
       /\ tries[j] > 0 => jb[j].type \in handlers
       /\ j \in active => tries[j] = jb[j].retries + 1
       /\ j \in Queued(q) => tries[j] = jb[j].retries
       /\ j \in active \cup Queued(q) => jb[j].retries = 0 \/ jb[j].retries < jb[j].max

\* The invariant, with the place of every job spelled out.
LEMMA ReadyMeans ==
  TypeOK /\ Flags /\ ConcurrencyLimit /\ CleanShutdownIsFinal =>
    (OnePlace /\ TriesCounted /\ PushedApart <=> Ready(queues, job, pushes))
<1> SUFFICES ASSUME TypeOK, Flags
             PROVE  OnePlace /\ TriesCounted /\ PushedApart <=> Ready(queues, job, pushes)
  OBVIOUS
<1>1. /\ In("active") = active /\ In("completed") = completed /\ In("failed") = failedJobs
      /\ \A p \in Priorities : In(p) = queues[p]
  BY DEF In, Priorities
<1>2. Places = Priorities \cup {"active", "completed", "failed"} /\ Priorities = {"high", "normal", "low"}
  BY DEF Places, Priorities
<1>3. \A j : j \in Queued(queues) <=> \E p \in Priorities : j \in queues[p]
  BY DEF Queued
<1>4. \A j : j \in Accepted <=> j \in Jobs /\ job[j] # NoJob
  BY DEF Accepted
<1>5. \A place \in Places : In(place) \subseteq Accepted
  BY DEF Flags
<1>6. Queued(queues) \cup active \cup completed \cup failedJobs \subseteq Accepted
  BY <1>1, <1>2, <1>3, <1>5
<1>7. ASSUME OnePlace, TriesCounted, PushedApart
      PROVE  Ready(queues, job, pushes)
  <2>1. \A j \in Accepted, p, r \in Places : j \in In(p) /\ j \in In(r) => p = r
    BY <1>7 DEF OnePlace
  <2>2. \A p, r \in Places : p # r => In(p) \cap In(r) = {}
    BY <2>1, <1>5
  <2>3. \A j \in Accepted : j \in Queued(queues) \cup active \cup completed \cup failedJobs
    <3>1. \A j \in Accepted : \E p \in Places : j \in In(p)
      BY <1>7 DEF OnePlace
    <3>2. QED
      BY <3>1, <1>1, <1>2, <1>3
  <2>4. /\ active \cap (completed \cup failedJobs) = {}
        /\ completed \cap failedJobs = {}
    BY <1>1, <1>2, <2>2
  <2>5. \A p \in Priorities :
           /\ queues[p] \cap (active \cup completed \cup failedJobs) = {}
           /\ \A r \in Priorities : p # r => queues[p] \cap queues[r] = {}
    BY <1>1, <1>2, <2>2
  <2>6. QED
    BY <1>4, <1>6, <1>7, <2>3, <2>4, <2>5 DEF Ready, TypeOK, TriesCounted, PushedApart
<1>8. ASSUME Ready(queues, job, pushes)
      PROVE  OnePlace /\ TriesCounted /\ PushedApart
  <2>1. TriesCounted /\ PushedApart
    BY <1>3, <1>4, <1>6, <1>8 DEF Ready, TriesCounted, PushedApart
  <2>2. \A j \in Accepted : \E p \in Places : j \in In(p)
    BY <1>1, <1>2, <1>3, <1>4, <1>8 DEF Ready
  <2>3. \A p, r \in Places : p # r => In(p) \cap In(r) = {}
    BY <1>1, <1>2, <1>8 DEF Ready
  <2>4. OnePlace
    BY <2>2, <2>3 DEF OnePlace
  <2>5. QED
    BY <2>1, <2>4
<1>9. QED
  BY <1>7, <1>8

-----------------------------------------------------------------------------
(* The concurrency limit *)

\* getNextJob looks at the queued jobs in one order, from first to last.
LEMMA AheadIsAnOrder ==
  ASSUME NEW q, NEW jb, NEW n, Ready(q, jb, n)
  PROVE  /\ \A i, j \in Queued(q) : i # j => Ahead(i, j, q, jb) \/ Ahead(j, i, q, jb)
         /\ \A i \in Queued(q) : ~Ahead(i, i, q, jb)
         /\ \A i, j, k \in Queued(q) :
              Ahead(i, j, q, jb) /\ Ahead(j, k, q, jb) => Ahead(i, k, q, jb)
<1>1. \A j \in Queued(q) : j \in Jobs /\ jb[j].pushed \in Nat
  BY DEF Ready, Queued, Job
<1>2. \A p \in Priorities : Rank[p] \in Nat
  BY DEF Priorities, Rank
<1>3. \A p, r \in Priorities : Rank[p] = Rank[r] => p = r
  BY DEF Priorities, Rank
<1>4. \A j \in Queued(q) : \E p \in Priorities : j \in q[p]
  BY DEF Queued
<1>5. \A p, r \in Priorities, j \in Queued(q) : j \in q[p] /\ j \in q[r] => p = r
  BY DEF Ready
<1>6. \A p \in Priorities : \A i, j \in q[p] : jb[i].pushed = jb[j].pushed => i = j
  BY DEF Ready
<1>7. ASSUME NEW i \in Queued(q), NEW j \in Queued(q), i # j
      PROVE  Ahead(i, j, q, jb) \/ Ahead(j, i, q, jb)
  BY <1>1, <1>2, <1>3, <1>4, <1>6, <1>7 DEF Ahead
<1>8. \A i \in Queued(q) : ~Ahead(i, i, q, jb)
  BY <1>1, <1>2, <1>5 DEF Ahead
<1>9. ASSUME NEW i \in Queued(q), NEW j \in Queued(q), NEW k \in Queued(q),
             Ahead(i, j, q, jb), Ahead(j, k, q, jb)
      PROVE  Ahead(i, k, q, jb)
  <2>1. PICK p, r \in Priorities :
          /\ i \in q[p] /\ j \in q[r]
          /\ Rank[p] < Rank[r] \/ (p = r /\ jb[i].pushed < jb[j].pushed)
    BY <1>9 DEF Ahead
  <2>2. PICK s \in Priorities :
          /\ k \in q[s]
          /\ Rank[r] < Rank[s] \/ (r = s /\ jb[j].pushed < jb[k].pushed)
    BY <1>5, <1>9, <2>1 DEF Ahead
  <2>3. Rank[p] < Rank[s] \/ (p = s /\ jb[i].pushed < jb[k].pushed)
    BY <1>1, <1>2, <2>1, <2>2
  <2>4. QED
    BY <2>1, <2>2, <2>3 DEF Ahead
<1>10. QED
  BY <1>7, <1>8, <1>9

\* The number of jobs that take a place before a job.
LEMMA BeforeIsFinite ==
  ASSUME NEW q, NEW jb, NEW n, Ready(q, jb, n), NEW j
  PROVE  IsFiniteSet(Before(j, q, jb)) /\ Cardinality(Before(j, q, jb)) \in Nat
<1>1. Before(j, q, jb) \in SUBSET Jobs
  BY DEF Before, Due, Queued, Ready
<1>2. IsFiniteSet(Before(j, q, jb))
  BY <1>1, QueueAssumption, FS_Subset
<1>3. QED
  BY <1>2, FS_CardinalityType

\* A due job with a handler has fewer such jobs before it than the jobs behind
\* it have before them.
LEMMA BeforeGrows ==
  ASSUME NEW q, NEW jb, NEW n, Ready(q, jb, n),
         NEW i \in Due(q, jb), jb[i].type \in handlers, NEW j \in Due(q, jb),
         Ahead(i, j, q, jb)
  PROVE  Cardinality(Before(i, q, jb)) < Cardinality(Before(j, q, jb))
<1>1. i \in Queued(q) /\ j \in Queued(q)
  BY DEF Due
<1>2. Before(i, q, jb) \in SUBSET Before(j, q, jb)
  BY <1>1, AheadIsAnOrder DEF Before, Due
<1>3. i \in Before(j, q, jb) /\ i \notin Before(i, q, jb)
  BY <1>1, AheadIsAnOrder DEF Before
<1>4. Cardinality(Before(i, q, jb)) <= Cardinality(Before(j, q, jb))
  BY <1>2, BeforeIsFinite, FS_Subset
<1>5. Cardinality(Before(i, q, jb)) # Cardinality(Before(j, q, jb))
  BY <1>2, <1>3, BeforeIsFinite, FS_Subset
<1>6. QED
  BY <1>4, <1>5, BeforeIsFinite

\* The jobs that a round starts.
Started(q, jb) == {j \in Taken(q, jb) : jb[j].type \in handlers}

\* A round starts as many jobs as join the running ones.
LEMMA StartedCount ==
  ASSUME NEW q, NEW jb, NEW n, Ready(q, jb, n), TypeOK
  PROVE  /\ IsFiniteSet(Started(q, jb)) /\ Cardinality(Started(q, jb)) \in Nat
         /\ Cardinality(active) \in Nat
         /\ Cardinality(active \cup Started(q, jb)) =
              Cardinality(active) + Cardinality(Started(q, jb))
<1>1. IsFiniteSet(active) /\ Cardinality(active) \in Nat
  BY QueueAssumption, FS_Subset, FS_CardinalityType DEF TypeOK
<1>2. Started(q, jb) \in SUBSET Jobs
  BY DEF Started, Taken, Due, Queued, Ready
<1>3. IsFiniteSet(Started(q, jb)) /\ Cardinality(Started(q, jb)) \in Nat
  BY <1>2, QueueAssumption, FS_Subset, FS_CardinalityType
<1>4. active \cap Started(q, jb) = {}
  BY DEF Started, Taken, Due, Queued, Ready
<1>5. Cardinality(active \cup Started(q, jb)) =
        Cardinality(active) + Cardinality(Started(q, jb))
  BY <1>1, <1>3, <1>4, FS_Union, FS_EmptySet
<1>6. QED
  BY <1>1, <1>3, <1>5

\* One round of the loop starts no more jobs than there are free places
\* (processLoop tests activeJobs.size before each).
LEMMA TakenFits ==
  ASSUME NEW q, NEW jb, NEW n, Ready(q, jb, n), TypeOK, ConcurrencyLimit
  PROVE  Cardinality(active \cup Started(q, jb)) <= Concurrency
<1> DEFINE free == Concurrency - Cardinality(active)
           number == [j \in Started(q, jb) |-> Cardinality(Before(j, q, jb))]
<1>1. \A j \in Started(q, jb) :
        /\ j \in Due(q, jb) /\ jb[j].type \in handlers
        /\ Cardinality(active) + Cardinality(Before(j, q, jb)) < Concurrency
  BY DEF Started, Taken
<1>2. Cardinality(active) \in Nat /\ free \in Nat
  <2>1. Cardinality(active) \in Nat
    BY StartedCount
  <2>2. Concurrency \in Nat
    BY QueueAssumption
  <2>3. QED
    BY <2>1, <2>2 DEF ConcurrencyLimit
<1>3. number \in [Started(q, jb) -> 0..(free - 1)]
  <2>1. ASSUME NEW j \in Started(q, jb)
        PROVE  Cardinality(Before(j, q, jb)) \in 0..(free - 1)
    BY <1>1, <1>2, BeforeIsFinite, QueueAssumption
  <2>2. QED
    BY <2>1
<1>4. \A i, j \in Started(q, jb) : number[i] = number[j] => i = j
  <2>1. \A i, j \in Started(q, jb) : i # j => Ahead(i, j, q, jb) \/ Ahead(j, i, q, jb)
    BY <1>1, AheadIsAnOrder DEF Due
  <2>2. \A i, j \in Started(q, jb) : Ahead(i, j, q, jb) => number[i] < number[j]
    BY <1>1, BeforeGrows
  <2>3. \A j \in Started(q, jb) : number[j] \in Int
    BY BeforeIsFinite
  <2> HIDE DEF number
  <2>4. QED
    BY <2>1, <2>2, <2>3
<1>5. number \in Injection(Started(q, jb), 0..(free - 1))
  <2> HIDE DEF number, free
  <2>1. QED
    BY <1>3, <1>4 DEF Injection, IsInjective
<1>6. IsFiniteSet(0..(free - 1)) /\ Cardinality(0..(free - 1)) = free
  <2> HIDE DEF free
  <2>1. 0 \in Int /\ free - 1 \in Int
    BY <1>2
  <2>2. /\ IsFiniteSet(0..(free - 1))
        /\ Cardinality(0..(free - 1)) = IF 0 > free - 1 THEN 0 ELSE free - 1 - 0 + 1
    BY <2>1, FS_Interval
  <2>3. QED
    BY <1>2, <2>2
<1>7. Cardinality(Started(q, jb)) <= free
  BY <1>5, <1>6, FS_Injection
<1>8. QED
  BY <1>2, <1>7, StartedCount, QueueAssumption

\* A round that leaves a due job behind has filled every place: the first job
\* it leaves has only started jobs before it.
LEMMA RoundFillsPlaces ==
  ASSUME NEW q, NEW jb, NEW n, Ready(q, jb, n), TypeOK, ConcurrencyLimit,
         NEW left \in Due(q, jb) \ Taken(q, jb)
  PROVE  Cardinality(active \cup Started(q, jb)) >= Concurrency
<1> DEFINE counts == {Cardinality(Before(j, q, jb)) : j \in Due(q, jb) \ Taken(q, jb)}
<1>1. counts \subseteq Nat /\ counts # {}
  BY BeforeIsFinite
<1>2. \E least \in counts : \A m \in counts : <<m, least>> \notin OpToRel(<, Nat)
  <2> HIDE DEF counts
  <2>1. QED
    BY <1>1, NatLessThanWellFounded, WFMin
<1>3. PICK j \in Due(q, jb) \ Taken(q, jb) :
        \A m \in counts : <<m, Cardinality(Before(j, q, jb))>> \notin OpToRel(<, Nat)
  BY <1>2
<1>4. \A m \in counts : ~(m < Cardinality(Before(j, q, jb)))
  BY <1>1, <1>3, BeforeIsFinite DEF OpToRel
<1>5. Before(j, q, jb) \subseteq Started(q, jb)
  <2>1. SUFFICES ASSUME NEW i \in Before(j, q, jb)
                 PROVE  i \in Taken(q, jb)
    BY DEF Before, Started
  <2>2. i \in Due(q, jb) /\ jb[i].type \in handlers /\ Ahead(i, j, q, jb)
    BY DEF Before
  <2>3. Cardinality(Before(i, q, jb)) < Cardinality(Before(j, q, jb))
    BY <2>2, BeforeGrows
  <2>4. QED
    BY <1>4, <2>2, <2>3
<1>6. Cardinality(Before(j, q, jb)) <= Cardinality(Started(q, jb))
  BY <1>5, StartedCount, FS_Subset
<1>7. Cardinality(active) + Cardinality(Before(j, q, jb)) >= Concurrency
  <2>1. ~(Cardinality(active) + Cardinality(Before(j, q, jb)) < Concurrency)
    BY DEF Taken
  <2>2. Cardinality(active) \in Nat /\ Cardinality(Before(j, q, jb)) \in Nat
    BY StartedCount, BeforeIsFinite
  <2>3. Concurrency \in Nat
    BY QueueAssumption
  <2>4. QED
    BY <2>1, <2>2, <2>3
<1>8. QED
  BY <1>6, <1>7, StartedCount, BeforeIsFinite, QueueAssumption

-----------------------------------------------------------------------------
(* One round of the loop *)

\* A round moves what it takes from the arrays, to the running jobs or to the
\* dead letters, and leaves the rest as it was.
LEMMA RoundKeepsReady ==
  ASSUME NEW q, NEW jb, NEW n, Ready(q, jb, n), TypeOK, RunLoop(q, jb),
         job' = jb, pushes' = n, UNCHANGED <<handlers, completed>>
  PROVE  Ready(queues, job, pushes)'
<1> DEFINE taken == Taken(q, jb)
           started == {j \in taken : jb[j].type \in handlers}
<1>1. /\ queues' = [p \in Priorities |-> q[p] \ taken]
      /\ active' = active \cup started
      /\ failedJobs' = failedJobs \cup (taken \ started)
      /\ tries' = [j \in Jobs |-> IF j \in started THEN tries[j] + 1 ELSE tries[j]]
  BY DEF RunLoop
<1>2. taken \subseteq Queued(q) /\ started \subseteq taken
  BY DEF Taken, Due
<1>3. \A j : j \in Queued(q) <=> \E p \in Priorities : j \in q[p]
  BY DEF Queued
<1>4. \A j : j \in Queued(queues') <=> j \in Queued(q) /\ j \notin taken
  BY <1>1, <1>3 DEF Queued
<1>5. \A j \in started : jb[j].type \in handlers
  OBVIOUS
<1> HIDE DEF taken, started
<1>6. Queued(q) \subseteq Jobs
  BY <1>3 DEF Ready
<1>7. Queued(q) \cap (active \cup completed \cup failedJobs) = {}
  BY <1>3 DEF Ready
<1>8. /\ queues' \in [Priorities -> SUBSET Jobs]
      /\ job' \in [Jobs -> Job \cup {NoJob}]
      /\ pushes' \in Nat
  BY <1>1 DEF Ready
<1>9. \A j \in Jobs : job'[j] = NoJob <=>
        j \notin Queued(queues') \cup active' \cup completed' \cup failedJobs'
  BY <1>1, <1>2, <1>4 DEF Ready
<1>10. \A p \in Priorities :
         /\ \A i, j \in queues'[p] : job'[i].pushed = job'[j].pushed => i = j
         /\ queues'[p] \cap (active' \cup completed' \cup failedJobs') = {}
         /\ \A r \in Priorities : p # r => queues'[p] \cap queues'[r] = {}
  BY <1>1, <1>2 DEF Ready
<1>11. /\ active' \cap (completed' \cup failedJobs') = {}
       /\ completed' \cap failedJobs' = {}
  BY <1>1, <1>2, <1>7 DEF Ready
<1>12. ASSUME NEW j \in Jobs
       PROVE  IF job'[j] = NoJob THEN tries'[j] = 0 ELSE
                /\ job'[j].pushed < pushes'
                /\ tries'[j] > 0 => job'[j].type \in handlers'
                /\ j \in active' => tries'[j] = job'[j].retries + 1
                /\ j \in Queued(queues') => tries'[j] = job'[j].retries
                /\ j \in active' \cup Queued(queues') =>
                     job'[j].retries = 0 \/ job'[j].retries < job'[j].max
  <2>1. j \in started => j \in Queued(q) /\ j \notin active /\ jb[j].type \in handlers
    BY <1>2, <1>5, <1>7
  <2>2. j \in active => j \notin started
    BY <2>1
  <2>3. tries[j] \in Nat
    BY DEF TypeOK
  <2>4. tries'[j] = IF j \in started THEN tries[j] + 1 ELSE tries[j]
    BY <1>1
  <2>5. CASE j \in started
    <3>1. job'[j] # NoJob /\ j \notin Queued(queues')
      BY <1>2, <1>4, <2>1, <2>5 DEF Ready
    <3>2. QED
      BY <2>1, <2>3, <2>4, <2>5, <3>1 DEF Ready
  <2>6. CASE j \notin started
    <3>1. /\ tries'[j] = tries[j]
          /\ j \in active' <=> j \in active
          /\ j \in Queued(queues') => j \in Queued(q)
      BY <1>1, <1>4, <2>4, <2>6
    <3>2. QED
      BY <3>1 DEF Ready
  <2>7. QED
    BY <2>5, <2>6
<1>13. QED
  BY <1>8, <1>9, <1>10, <1>11, <1>12 DEF Ready

\* The shutdown flags and what surrounds the arrays.
Frame == TypeOK /\ Flags /\ ConcurrencyLimit /\ CleanShutdownIsFinal

\* The invariant is the frame and what the loop needs to find.
LEMMA InvariantMeans == IInv <=> Frame /\ Ready(queues, job, pushes)
  BY ReadyMeans DEF IInv, Frame

\* A round of the loop, run while nothing is shutting down, keeps the frame.
LEMMA RoundKeepsFrame ==
  ASSUME NEW q, NEW jb, NEW n, Ready(q, jb, n), TypeOK, Flags, ConcurrencyLimit,
         RunLoop(q, jb), job' = jb, pushes' = n, UNCHANGED <<handlers, completed>>,
         UNCHANGED <<shutdown, patience, isShuttingDown>>,
         ~isShuttingDown, isProcessing' = TRUE
  PROVE  Frame'
<1>1. Ready(queues, job, pushes)'
  BY RoundKeepsReady
<1>2. Taken(q, jb) \subseteq Jobs
  BY DEF Taken, Due, Queued, Ready
<1>3. TypeOK'
  BY <1>1, <1>2, QueueAssumption DEF TypeOK, RunLoop, Ready
<1>4. ConcurrencyLimit'
  BY TakenFits DEF ConcurrencyLimit, RunLoop, Started
<1>5. Flags' /\ CleanShutdownIsFinal'
  <2>1. \A p \in Priorities : queues'[p] \subseteq Accepted'
    BY <1>1 DEF Ready, Accepted, Queued
  <2>2. active' \cup completed' \cup failedJobs' \subseteq Accepted'
    BY <1>1, <1>3 DEF Ready, Accepted, TypeOK
  <2>3. \A place \in Places : In(place)' \subseteq Accepted'
    BY <2>1, <2>2 DEF Places, In
  <2>4. QED
    BY <2>3 DEF Flags, CleanShutdownIsFinal
<1>6. QED
  BY <1>3, <1>4, <1>5 DEF Frame

-----------------------------------------------------------------------------
(* Every step keeps the invariant *)

\* A job that leaves activeJobs frees a place.
LEMMA FewerRunning ==
  ASSUME TypeOK, NEW j \in active, ConcurrencyLimit
  PROVE  Cardinality(active \ {j}) <= Concurrency
<1>1. IsFiniteSet(active) /\ Cardinality(active) \in Nat
  BY QueueAssumption, FS_Subset, FS_CardinalityType DEF TypeOK
<1>2. Cardinality(active \ {j}) = Cardinality(active) - 1
  BY <1>1, FS_RemoveElement
<1>3. QED
  BY <1>1, <1>2, QueueAssumption DEF ConcurrencyLimit

\* addJob with a priority that has an array leaves the arrays ready for a round
\* of the loop.
LEMMA AddedIsReady ==
  ASSUME Ready(queues, job, pushes), TypeOK, NEW j \in Jobs, NEW type \in Types,
         NEW priority \in PriorityArgs, NEW max \in Limits, NEW delay \in Delays,
         job[j] = NoJob
  PROVE  Ready(Push(queues, priority, j),
               [job EXCEPT ![j] = NewJob(type, priority, max, delay)], pushes + 1)
<1> DEFINE new == NewJob(type, priority, max, delay)
           jb == [job EXCEPT ![j] = new]
           q == Push(queues, priority, j)
<1>1. /\ new \in Job /\ new # NoJob
      /\ new.pushed = pushes /\ new.retries = 0
  BY QueueAssumption DEF NewJob, Job, Ready
<1>2. PICK p \in Priorities : q = [queues EXCEPT ![p] = @ \cup {j}]
  BY DEF Push, Priorities
<1>3. \A i : i \in Queued(q) <=> i = j \/ i \in Queued(queues)
  BY <1>2 DEF Queued, Ready
<1>4. j \notin Queued(queues) \cup active \cup completed \cup failedJobs
  BY DEF Ready
<1>5. tries[j] = 0
  BY DEF Ready
<1>6. \A i \in Queued(queues) : job[i] # NoJob /\ job[i].pushed < pushes
  BY DEF Ready, Queued
<1>7. \A r \in Priorities : queues[r] \subseteq Queued(queues)
  BY DEF Queued
<1>8. \A i \in Jobs : jb[i] = IF i = j THEN new ELSE job[i]
  BY DEF Ready
<1>9. \A r \in Priorities : q[r] = IF r = p THEN queues[r] \cup {j} ELSE queues[r]
  BY <1>2 DEF Ready
<1>10. /\ q \in [Priorities -> SUBSET Jobs]
       /\ jb \in [Jobs -> Job \cup {NoJob}]
       /\ pushes + 1 \in Nat
  BY <1>1, <1>2 DEF Ready
<1> HIDE DEF new, jb, q
<1>11. \A i \in Jobs : jb[i] = NoJob <=>
         i \notin Queued(q) \cup active \cup completed \cup failedJobs
  BY <1>1, <1>3, <1>8 DEF Ready
<1>12. ASSUME NEW r \in Priorities
       PROVE  \A i, k \in q[r] : jb[i].pushed = jb[k].pushed => i = k
  <2>1. \A i \in queues[r] : /\ i \in Jobs /\ i # j /\ jb[i] = job[i]
                             /\ job[i].pushed \in Nat /\ job[i].pushed < pushes
    BY <1>4, <1>6, <1>7, <1>8 DEF Ready, Job
  <2>2. jb[j].pushed = pushes /\ pushes \in Nat
    BY <1>1, <1>8 DEF Ready
  <2>3. \A i, k \in queues[r] : job[i].pushed = job[k].pushed => i = k
    BY DEF Ready
  <2>4. q[r] \subseteq queues[r] \cup {j}
    BY <1>9
  <2>5. QED
    BY <2>1, <2>2, <2>3, <2>4
<1>13. ASSUME NEW r \in Priorities
       PROVE  /\ q[r] \cap (active \cup completed \cup failedJobs) = {}
              /\ \A s \in Priorities : r # s => q[r] \cap q[s] = {}
  <2>1. \A s \in Priorities : j \notin queues[s]
    BY <1>4, <1>7
  <2>2. \A s, t \in Priorities : s # t => queues[s] \cap queues[t] = {}
    BY DEF Ready
  <2>3. queues[r] \cap (active \cup completed \cup failedJobs) = {}
    BY DEF Ready
  <2>4. q[r] \cap (active \cup completed \cup failedJobs) = {}
    BY <1>4, <1>9, <2>3
  <2>5. \A s \in Priorities : r # s => q[r] \cap q[s] = {}
    BY <1>9, <2>1, <2>2
  <2>6. QED
    BY <2>4, <2>5
<1>14. ASSUME NEW i \in Jobs, jb[i] # NoJob
       PROVE  /\ jb[i].pushed < pushes + 1
              /\ tries[i] > 0 => jb[i].type \in handlers
              /\ i \in active => tries[i] = jb[i].retries + 1
              /\ i \in Queued(q) => tries[i] = jb[i].retries
              /\ i \in active \cup Queued(q) => jb[i].retries = 0 \/ jb[i].retries < jb[i].max
  <2>1. CASE i = j
    BY <1>1, <1>4, <1>5, <1>8, <2>1 DEF Ready
  <2>2. CASE i # j
    <3>1. jb[i] = job[i] /\ (i \in Queued(q) <=> i \in Queued(queues))
      BY <1>3, <1>8, <2>2
    <3>2. job[i].pushed \in Nat
      BY <1>14, <3>1 DEF Ready, Job
    <3>3. QED
      BY <1>14, <3>1, <3>2 DEF Ready
  <2>3. QED
    BY <2>1, <2>2
<1>15. \A i \in Jobs : jb[i] = NoJob => tries[i] = 0
  BY <1>1, <1>8 DEF Ready
<1>16. Ready(q, jb, pushes + 1)
  BY <1>10, <1>11, <1>12, <1>13, <1>14, <1>15 DEF Ready
<1>17. QED
  BY <1>16 DEF q, jb, new

\* addJob keeps the invariant.
LEMMA AddJobStep ==
  ASSUME IInv, NEW j \in Jobs, NEW type \in Types, NEW priority \in PriorityArgs,
         NEW max \in Limits, NEW delay \in Delays,
         AddJob(j, type, priority, max, delay)
  PROVE  Frame' /\ Ready(queues, job, pushes)'
<1> DEFINE jb == [job EXCEPT ![j] = NewJob(type, priority, max, delay)]
           q == Push(queues, priority, j)
<1>1. /\ Ready(queues, job, pushes)
      /\ TypeOK /\ Flags /\ ConcurrencyLimit /\ CleanShutdownIsFinal
  BY InvariantMeans DEF Frame
<1>2. /\ Ready(q, jb, pushes + 1)
      /\ job' = jb /\ pushes' = pushes + 1
      /\ UNCHANGED <<handlers, completed, isShuttingDown, shutdown, patience>>
  BY <1>1, AddedIsReady DEF AddJob
<1> HIDE DEF jb, q
<1>3. CASE isProcessing \/ isShuttingDown
  <2>1. queues' = q /\ UNCHANGED <<active, failedJobs, tries, isProcessing, sleep>>
    BY <1>3 DEF AddJob, q
  <2>2. Ready(queues, job, pushes)'
    BY <1>2, <2>1 DEF Ready, Queued
  <2>3. TypeOK' /\ ConcurrencyLimit' /\ CleanShutdownIsFinal'
    BY <1>1, <1>2, <2>1, <2>2
    DEF TypeOK, Ready, ConcurrencyLimit, CleanShutdownIsFinal
  <2>4. \A place \in Places : In(place)' \subseteq Accepted'
    BY <2>2, <2>3 DEF Ready, Accepted, TypeOK, Queued, Places, In
  <2>5. QED
    BY <1>1, <1>2, <2>1, <2>2, <2>3, <2>4 DEF Frame, Flags
<1>4. CASE ~(isProcessing \/ isShuttingDown)
  <2>1. isProcessing' = TRUE /\ RunLoop(q, jb)
    BY <1>4 DEF AddJob, jb, q
  <2>2. Frame'
    BY <1>1, <1>2, <1>4, <2>1, RoundKeepsFrame
  <2>3. QED
    BY <1>1, <1>2, <2>1, <2>2, RoundKeepsReady
<1>5. QED
  BY <1>3, <1>4

\* A wake-up of the loop keeps the invariant.
LEMMA PollStep ==
  ASSUME IInv, Poll
  PROVE  Frame' /\ Ready(queues, job, pushes)'
<1>1. /\ Ready(queues, job, pushes)
      /\ TypeOK /\ Flags /\ ConcurrencyLimit
  BY InvariantMeans DEF Frame
<1>2. /\ RunLoop(queues, job) /\ job' = job /\ pushes' = pushes
      /\ UNCHANGED <<handlers, completed, isShuttingDown, shutdown, patience>>
      /\ ~isShuttingDown /\ isProcessing' = TRUE
  BY <1>1 DEF Poll, TypeOK
<1>3. QED
  BY <1>1, <1>2, RoundKeepsFrame, RoundKeepsReady

\* A handler that resolves keeps the invariant.
LEMMA SucceedStep ==
  ASSUME IInv, NEW j \in Jobs, Succeed(j)
  PROVE  Frame' /\ Ready(queues, job, pushes)'
<1>1. /\ Ready(queues, job, pushes)
      /\ TypeOK /\ Flags /\ ConcurrencyLimit /\ CleanShutdownIsFinal
  BY InvariantMeans DEF Frame
<1>2. /\ j \in active /\ active' = active \ {j} /\ completed' = completed \cup {j}
      /\ UNCHANGED <<handlers, job, queues, failedJobs, tries, pushes,
                     isProcessing, isShuttingDown, sleep, shutdown, patience>>
  BY DEF Succeed
<1>3. j \notin Queued(queues)
  BY <1>1, <1>2 DEF Ready, Queued
<1>4. Ready(queues, job, pushes)'
  BY <1>1, <1>2, <1>3 DEF Ready, Queued
<1>5. TypeOK' /\ CleanShutdownIsFinal'
  BY <1>1, <1>2 DEF TypeOK, CleanShutdownIsFinal
<1>6. ConcurrencyLimit'
  BY <1>1, <1>2, FewerRunning DEF ConcurrencyLimit
<1>7. \A place \in Places : In(place)' \subseteq Accepted'
  BY <1>4, <1>5 DEF Ready, Accepted, TypeOK, Queued, Places, In
<1>8. QED
  BY <1>1, <1>2, <1>4, <1>5, <1>6, <1>7 DEF Frame, Flags

\* A handler that rejects keeps the invariant: its job has a try less, and goes
\* to the end of its array or to the dead letters.
LEMMA FailStep ==
  ASSUME IInv, PriorityArgs \subseteq Priorities, NEW j \in Jobs, Fail(j)
  PROVE  Frame' /\ Ready(queues, job, pushes)'
<1> DEFINE n == job[j].retries + 1
           again == n < job[j].max
           p == job[j].priority
<1>1. /\ Ready(queues, job, pushes)
      /\ TypeOK /\ Flags /\ ConcurrencyLimit /\ CleanShutdownIsFinal
  BY InvariantMeans DEF Frame
<1>2. j \in active /\ active' = active \ {j}
  BY DEF Fail
<1>3. job[j] \in Job /\ p \in Priorities
  BY <1>1, <1>2 DEF Ready, Job
<1>4. j \notin Queued(queues) \cup completed \cup failedJobs
  BY <1>1, <1>2 DEF Ready, Queued
<1>5. /\ job' = [job EXCEPT ![j].retries = n,
                            ![j].wait = IF again THEN Backoff(n) ELSE @,
                            ![j].pushed = IF again THEN pushes ELSE @]
      /\ queues' = IF again THEN [queues EXCEPT ![p] = @ \cup {j}] ELSE queues
      /\ pushes' = IF again THEN pushes + 1 ELSE pushes
      /\ failedJobs' = IF again THEN failedJobs ELSE failedJobs \cup {j}
      /\ UNCHANGED <<handlers, completed, tries, isProcessing, isShuttingDown,
                     sleep, shutdown, patience>>
  BY <1>3 DEF Fail, Push
<1>6. again => Backoff(n) \in Nat
  <2>1. job[j].max \in Limits /\ job[j].max \in Nat /\ n \in Nat /\ n >= 1
    <3>1. job[j].max \in Limits /\ job[j].retries \in Nat
      BY <1>3 DEF Job
    <3>2. Limits \subseteq Nat
      BY QueueAssumption
    <3>3. n \in Nat /\ n >= 1
      BY <3>1
    <3>4. job[j].max \in Nat
      BY <3>1, <3>2
    <3>5. QED
      BY <3>1, <3>3, <3>4
  <2>2. again => n \in 1..job[j].max
    BY <2>1
  <2>3. QED
    BY <2>1, <2>2, BackoffAssumption DEF Backoff
<1>7. /\ job'[j] \in Job
      /\ job'[j].retries = n /\ job'[j].max = job[j].max /\ job'[j].type = job[j].type
      /\ job'[j].pushed = IF again THEN pushes ELSE job[j].pushed
      /\ \A i \in Jobs : i # j => job'[i] = job[i]
  <2>1. job'[j] = [job[j] EXCEPT !.retries = n,
                                !.wait = IF again THEN Backoff(n) ELSE @,
                                !.pushed = IF again THEN pushes ELSE @]
    BY <1>1, <1>5 DEF TypeOK
  <2>2. n \in Nat /\ pushes \in Nat
    BY <1>1, <1>3 DEF Job, TypeOK
  <2> HIDE DEF n, again
  <2>3. \A i \in Jobs : i # j => job'[i] = job[i]
    BY <1>1, <1>5 DEF TypeOK
  <2>4. QED
    BY <1>3, <1>6, <2>1, <2>2, <2>3 DEF Job
<1>8. job[j] # NoJob /\ job'[j] # NoJob
  BY <1>3, <1>7, QueueAssumption
<1>9. \A i : i \in Queued(queues') <=> (i = j /\ again) \/ i \in Queued(queues)
  BY <1>1, <1>3, <1>5 DEF Queued, TypeOK
<1>10. \A r \in Priorities : queues'[r] = IF r = p /\ again THEN queues[r] \cup {j}
                                          ELSE queues[r]
  BY <1>1, <1>5 DEF TypeOK
<1>11. \A r \in Priorities : queues[r] \subseteq Queued(queues)
  BY DEF Queued
<1>12. n \in Nat /\ tries[j] = n /\ job[j].type \in handlers
  BY <1>1, <1>2, <1>3, <1>8 DEF Ready, Job
<1> HIDE DEF n, again, p
<1>13. TypeOK'
  <2>1. job' \in [Jobs -> Job \cup {NoJob}]
    <3>1. \A i \in Jobs : job'[i] \in Job \cup {NoJob}
      BY <1>1, <1>7 DEF TypeOK
    <3>2. job' = [i \in Jobs |-> job'[i]]
      BY <1>1, <1>5 DEF TypeOK
    <3>3. QED
      BY <3>1, <3>2
  <2>2. queues' \in [Priorities -> SUBSET Jobs]
    BY <1>1, <1>5 DEF TypeOK
  <2>3. pushes' \in Nat /\ failedJobs' \subseteq Jobs
    BY <1>1, <1>5 DEF TypeOK
  <2>4. QED
    BY <1>1, <1>2, <1>5, <2>1, <2>2, <2>3 DEF TypeOK
<1>14. \A i \in Jobs : job'[i] = NoJob <=>
         i \notin Queued(queues') \cup active' \cup completed' \cup failedJobs'
  BY <1>1, <1>2, <1>5, <1>7, <1>8, <1>9 DEF Ready
<1>15. ASSUME NEW r \in Priorities
       PROVE  \A i, k \in queues'[r] : job'[i].pushed = job'[k].pushed => i = k
  <2>1. \A i \in queues[r] : /\ i \in Jobs /\ i # j /\ job'[i] = job[i]
                             /\ job[i].pushed \in Nat /\ job[i].pushed < pushes
    BY <1>1, <1>4, <1>7, <1>11 DEF Ready, Job
  <2>2. \A i, k \in queues[r] : job[i].pushed = job[k].pushed => i = k
    BY <1>1 DEF Ready
  <2>3. CASE again
    <3>1. job'[j].pushed = pushes /\ pushes \in Nat /\ queues'[r] \subseteq queues[r] \cup {j}
      BY <1>1, <1>7, <1>10, <2>3 DEF TypeOK
    <3>2. QED
      BY <2>1, <2>2, <3>1
  <2>4. CASE ~again
    BY <1>10, <2>1, <2>2, <2>4
  <2>5. QED
    BY <2>3, <2>4
<1>16. ASSUME NEW r \in Priorities
       PROVE  /\ queues'[r] \cap (active' \cup completed' \cup failedJobs') = {}
              /\ \A s \in Priorities : r # s => queues'[r] \cap queues'[s] = {}
  <2>1. \A s \in Priorities : j \notin queues[s]
    BY <1>4, <1>11
  <2>2. \A s, t \in Priorities : s # t => queues[s] \cap queues[t] = {}
    BY <1>1 DEF Ready
  <2>3. queues[r] \cap (active \cup completed \cup failedJobs) = {}
    BY <1>1 DEF Ready
  <2>4. queues'[r] \cap (active' \cup completed' \cup failedJobs') = {}
    BY <1>2, <1>4, <1>5, <1>10, <2>1, <2>3
  <2>5. \A s \in Priorities : r # s => queues'[r] \cap queues'[s] = {}
    BY <1>10, <2>1, <2>2
  <2>6. QED
    BY <2>4, <2>5
<1>17. /\ active' \cap (completed' \cup failedJobs') = {}
       /\ completed' \cap failedJobs' = {}
  BY <1>1, <1>2, <1>4, <1>5 DEF Ready
<1>18. ASSUME NEW i \in Jobs, job'[i] # NoJob
       PROVE  /\ job'[i].pushed < pushes'
              /\ tries'[i] > 0 => job'[i].type \in handlers'
              /\ i \in active' => tries'[i] = job'[i].retries + 1
              /\ i \in Queued(queues') => tries'[i] = job'[i].retries
              /\ i \in active' \cup Queued(queues') =>
                   job'[i].retries = 0 \/ job'[i].retries < job'[i].max
  <2>1. pushes \in Nat /\ (pushes' = pushes + 1 \/ pushes' = pushes)
    BY <1>1, <1>5 DEF TypeOK
  <2>2. CASE i = j
    <3>1. /\ job'[j].pushed < pushes'
      BY <1>1, <1>3, <1>5, <1>7, <1>8, <2>1 DEF Ready, Job
    <3>2. j \notin active' /\ tries'[j] = n /\ job'[j].type \in handlers'
      BY <1>2, <1>5, <1>7, <1>12
    <3>3. j \in Queued(queues') => again
      BY <1>4, <1>9
    <3>4. again => n < job'[j].max
      BY <1>7 DEF again
    <3>5. QED
      BY <1>7, <2>2, <3>1, <3>2, <3>3, <3>4
  <2>3. CASE i # j
    <3>1. job'[i] = job[i] /\ job[i].pushed < pushes /\ job[i].pushed \in Nat
      BY <1>1, <1>7, <1>18, <2>3 DEF Ready, Job
    <3>2. i \in active' <=> i \in active
      BY <1>2, <2>3
    <3>3. i \in Queued(queues') <=> i \in Queued(queues)
      BY <1>9, <2>3
    <3>4. job[i] # NoJob /\ handlers' = handlers /\ tries' = tries
      BY <1>5, <1>18, <3>1
    <3>5. QED
      BY <1>1, <2>1, <3>1, <3>2, <3>3, <3>4 DEF Ready
  <2>4. QED
    BY <2>2, <2>3
<1>19. \A i \in Jobs : job'[i] = NoJob => tries'[i] = 0
  BY <1>1, <1>5, <1>7, <1>8 DEF Ready
<1>20. Ready(queues, job, pushes)'
  BY <1>13, <1>14, <1>15, <1>16, <1>17, <1>18, <1>19 DEF Ready, TypeOK
<1>21. ConcurrencyLimit' /\ CleanShutdownIsFinal'
  BY <1>1, <1>2, <1>5, FewerRunning DEF ConcurrencyLimit, CleanShutdownIsFinal
<1>22. \A place \in Places : In(place)' \subseteq Accepted'
  BY <1>20, <1>13 DEF Ready, Accepted, TypeOK, Queued, Places, In
<1>23. QED
  BY <1>1, <1>5, <1>13, <1>20, <1>21, <1>22 DEF Frame, Flags

\* Registering a handler, calling shutdown, its return and the passing of time
\* keep the invariant.
LEMMA SmallStep ==
  ASSUME IInv,
         \/ \E type \in Types : RegisterJobHandler(type)
         \/ Shutdown \/ ShutdownReturns \/ Tick
         \/ UNCHANGED vars
  PROVE  Frame' /\ Ready(queues, job, pushes)'
<1>1. /\ Ready(queues, job, pushes)
      /\ TypeOK /\ Flags /\ ConcurrencyLimit /\ CleanShutdownIsFinal
  BY InvariantMeans DEF Frame
<1>2. CASE \E type \in Types : RegisterJobHandler(type)
  <2>1. Ready(queues, job, pushes)'
    BY <1>1, <1>2 DEF RegisterJobHandler, Ready, Queued
  <2>2. TypeOK' /\ ConcurrencyLimit' /\ CleanShutdownIsFinal'
    BY <1>1, <1>2 DEF RegisterJobHandler, TypeOK, ConcurrencyLimit, CleanShutdownIsFinal
  <2>3. Flags'
    BY <1>1, <1>2 DEF RegisterJobHandler, Flags, In, Accepted
  <2>4. QED
    BY <2>1, <2>2, <2>3 DEF Frame
<1>3. CASE Shutdown
  <2>1. Ready(queues, job, pushes)'
    BY <1>1, <1>3 DEF Shutdown, Ready, Queued
  <2>2. TypeOK' /\ ConcurrencyLimit' /\ CleanShutdownIsFinal'
    BY <1>1, <1>3, QueueAssumption DEF Shutdown, TypeOK, ConcurrencyLimit, CleanShutdownIsFinal
  <2>3. Flags'
    BY <1>1, <1>3 DEF Shutdown, Flags, In, Accepted
  <2>4. QED
    BY <2>1, <2>2, <2>3 DEF Frame
<1>4. CASE ShutdownReturns
  <2>1. Ready(queues, job, pushes)'
    BY <1>1, <1>4 DEF ShutdownReturns, Ready, Queued
  <2>2. TypeOK' /\ ConcurrencyLimit' /\ CleanShutdownIsFinal'
    BY <1>1, <1>4 DEF ShutdownReturns, TypeOK, ConcurrencyLimit, CleanShutdownIsFinal
  <2>3. Flags'
    BY <1>1, <1>4 DEF ShutdownReturns, Flags, In, Accepted
  <2>4. QED
    BY <2>1, <2>2, <2>3 DEF Frame
<1>5. CASE Tick
  <2>1. UNCHANGED <<handlers, queues, active, failedJobs, completed, tries, pushes,
                    isProcessing, isShuttingDown, shutdown>>
    BY <1>5 DEF Tick
  <2>2. \A m \in Nat : Less(m) \in Nat
    BY DEF Less
  <2>3. ASSUME NEW j \in Jobs, job[j] # NoJob
        PROVE  /\ job'[j] \in Job /\ job'[j] # NoJob
               /\ \A field \in {"type", "priority", "max", "retries", "pushed"} :
                    job'[j][field] = job[j][field]
    <3>1. job[j] \in Job
      BY <1>1, <2>3 DEF TypeOK
    <3>2. job'[j] = [job[j] EXCEPT !.wait = Less(@)] \/ job'[j] = job[j]
      BY <1>5 DEF Tick
    <3>3. QED
      BY <2>2, <3>1, <3>2, QueueAssumption DEF Job
  <2>4. ASSUME NEW j \in Jobs, job[j] = NoJob
        PROVE  job'[j] = NoJob
    BY <1>1, <1>5, <2>4 DEF Tick, Ready
  <2>5. job' \in [Jobs -> Job \cup {NoJob}]
    <3>1. \A j \in Jobs : job'[j] \in Job \cup {NoJob}
      BY <2>3, <2>4
    <3>2. job' = [j \in Jobs |-> job'[j]]
      BY <1>5 DEF Tick
    <3>3. QED
      BY <3>1, <3>2
  <2>6. \A j \in Jobs :
          /\ job'[j] = NoJob <=> job[j] = NoJob
          /\ job[j] # NoJob => /\ job'[j].type = job[j].type
                               /\ job'[j].max = job[j].max
                               /\ job'[j].retries = job[j].retries
                               /\ job'[j].pushed = job[j].pushed
    BY <2>3, <2>4
  <2>7. \A p \in Priorities : \A j \in queues[p] : j \in Jobs /\ job[j] # NoJob
    BY <1>1 DEF Ready, Queued
  <2>8. Queued(queues)' = Queued(queues)
    BY <2>1 DEF Queued
  <2>9. Ready(queues, job, pushes)'
    <3>1. \A p \in Priorities :
            \A i, j \in queues[p] : job'[i].pushed = job'[j].pushed => i = j
      BY <1>1, <2>6, <2>7 DEF Ready
    <3>2. \A j \in Jobs : job'[j] = NoJob <=>
            j \notin Queued(queues) \cup active \cup completed \cup failedJobs
      BY <1>1, <2>6 DEF Ready
    <3>3. ASSUME NEW j \in Jobs
          PROVE  IF job'[j] = NoJob THEN tries[j] = 0 ELSE
                   /\ job'[j].pushed < pushes
                   /\ tries[j] > 0 => job'[j].type \in handlers
                   /\ j \in active => tries[j] = job'[j].retries + 1
                   /\ j \in Queued(queues) => tries[j] = job'[j].retries
                   /\ j \in active \cup Queued(queues) =>
                        job'[j].retries = 0 \/ job'[j].retries < job'[j].max
      BY <1>1, <2>6 DEF Ready
    <3>4. QED
      BY <1>1, <2>1, <2>5, <2>8, <3>1, <3>2, <3>3 DEF Ready
  <2>10. TypeOK' /\ ConcurrencyLimit' /\ CleanShutdownIsFinal'
    <3>1. sleep' \in Nat /\ patience' \in Nat
      BY <1>1, <1>5, <2>2 DEF Tick, TypeOK
    <3>2. QED
      BY <1>1, <2>1, <2>5, <3>1 DEF TypeOK, ConcurrencyLimit, CleanShutdownIsFinal
  <2>11. Flags'
    <3>1. Accepted' = Accepted
      BY <2>6 DEF Accepted
    <3>2. QED
      BY <1>1, <2>1, <3>1 DEF Flags, In
  <2>12. QED
    BY <2>9, <2>10, <2>11 DEF Frame
<1>6. CASE UNCHANGED vars
  BY <1>1, <1>6 DEF vars, Frame, Ready, TypeOK, Flags, ConcurrencyLimit,
                    CleanShutdownIsFinal, In, Accepted, Queued
<1>7. QED
  BY <1>2, <1>3, <1>4, <1>5, <1>6

\* A started process, with nothing queued, satisfies the invariant.
LEMMA InitHolds == Init => IInv
<1> SUFFICES ASSUME Init
             PROVE  IInv
  OBVIOUS
<1>1. Queued(queues) = {} /\ Accepted = {}
  BY DEF Init, Queued, Accepted
<1>2. TypeOK
  BY DEF Init, TypeOK
<1>3. Cardinality({}) = 0
  BY FS_EmptySet
<1>4. ConcurrencyLimit /\ CleanShutdownIsFinal
  BY <1>3, QueueAssumption DEF Init, ConcurrencyLimit, CleanShutdownIsFinal
<1>5. Flags
  BY <1>1 DEF Init, Flags, In, Places
<1>6. Ready(queues, job, pushes)
  BY <1>1, <1>2 DEF Init, Ready, TypeOK
<1>7. QED
  BY <1>2, <1>4, <1>5, <1>6, InvariantMeans DEF Frame

\* Every step of the queue keeps the invariant, when callers name priorities
\* that addJob knows.
LEMMA InvariantStep ==
  ASSUME IInv, PriorityArgs \subseteq Priorities, [Next]_vars
  PROVE  IInv'
<1>1. Frame' /\ Ready(queues, job, pushes)'
  <2>1. ASSUME NEW j \in Jobs, NEW type \in Types, NEW priority \in PriorityArgs,
               NEW max \in Limits, NEW delay \in Delays,
               AddJob(j, type, priority, max, delay)
        PROVE  Frame' /\ Ready(queues, job, pushes)'
    BY <2>1, AddJobStep
  <2>2. ASSUME NEW j \in Jobs, Succeed(j)
        PROVE  Frame' /\ Ready(queues, job, pushes)'
    BY <2>2, SucceedStep
  <2>3. ASSUME NEW j \in Jobs, Fail(j)
        PROVE  Frame' /\ Ready(queues, job, pushes)'
    BY <2>3, FailStep
  <2>4. QED
    BY <2>1, <2>2, <2>3, PollStep, SmallStep DEF Next
<1>2. (IInv <=> Frame /\ Ready(queues, job, pushes))'
  BY InvariantMeans, PTL
<1>3. QED
  BY <1>1, <1>2

-----------------------------------------------------------------------------
(* What the queue keeps *)

\* The bookkeeping of the queue stays consistent: places, retries, order and
\* shutdown flags.
THEOREM Inductive ==
  ASSUME PriorityArgs \subseteq Priorities
  PROVE  Spec => []IInv
<1>1. IInv /\ [Next]_vars => IInv'
  BY InvariantStep
<1>2. QED
  BY InitHolds, <1>1, PTL DEF Spec

\* A job that was accepted is in exactly one place, whatever fails and however
\* often (jobs/jobQueue.js: addJob, getNextJob, processJob).
THEOREM JobsAreNeverLost ==
  ASSUME PriorityArgs \subseteq Priorities
  PROVE  Spec => []OnePlace
<1>1. IInv => OnePlace
  BY DEF IInv
<1>2. QED
  BY Inductive, <1>1, PTL

\* No interleaving of polls, retries and added jobs runs more handlers at once
\* than config.concurrency.
THEOREM LimitHolds ==
  ASSUME PriorityArgs \subseteq Priorities
  PROVE  Spec => []ConcurrencyLimit
<1>1. IInv => ConcurrencyLimit
  BY DEF IInv
<1>2. QED
  BY Inductive, <1>1, PTL

\* After a shutdown that saw nothing running, nothing runs.
THEOREM ShutdownIsFinal ==
  ASSUME PriorityArgs \subseteq Priorities
  PROVE  Spec => []CleanShutdownIsFinal
<1>1. IInv => CleanShutdownIsFinal
  BY DEF IInv
<1>2. QED
  BY Inductive, <1>1, PTL

\* A step either runs the loop for one round, on the arrays as addJob or the
\* timer leaves them, or starts nothing and sets no timer of the loop.
LEMMA RoundOrNone ==
  ASSUME IInv, [Next]_vars
  PROVE  \/ \E j \in Jobs, type \in Types, priority \in PriorityArgs, max \in Limits,
               delay \in Delays :
              LET jb == [job EXCEPT ![j] = NewJob(type, priority, max, delay)]
                  q == Push(queues, priority, j)
              IN  /\ job[j] = NoJob /\ job' = jb /\ pushes' = pushes + 1
                  /\ Ready(q, jb, pushes + 1) /\ RunLoop(q, jb)
         \/ /\ job' = job /\ pushes' = pushes
            /\ Ready(queues, job, pushes) /\ RunLoop(queues, job)
         \/ active' \subseteq active /\ sleep' <= sleep
<1>1. TypeOK /\ Ready(queues, job, pushes) /\ sleep \in Nat
  BY InvariantMeans DEF Frame, TypeOK
<1>2. ASSUME NEW j \in Jobs, NEW type \in Types, NEW priority \in PriorityArgs,
             NEW max \in Limits, NEW delay \in Delays,
             AddJob(j, type, priority, max, delay)
      PROVE  LET jb == [job EXCEPT ![j] = NewJob(type, priority, max, delay)]
                 q == Push(queues, priority, j)
             IN  \/ /\ job[j] = NoJob /\ job' = jb /\ pushes' = pushes + 1
                    /\ Ready(q, jb, pushes + 1) /\ RunLoop(q, jb)
                 \/ active' \subseteq active /\ sleep' <= sleep
  <2> DEFINE jb == [job EXCEPT ![j] = NewJob(type, priority, max, delay)]
             q == Push(queues, priority, j)
  <2>1. job[j] = NoJob /\ job' = jb /\ pushes' = pushes + 1
    BY <1>2 DEF AddJob
  <2>2. \/ RunLoop(q, jb)
        \/ UNCHANGED <<active, sleep>>
    BY <1>2 DEF AddJob
  <2>3. Ready(q, jb, pushes + 1)
    BY <1>1, <2>1, AddedIsReady
  <2> HIDE DEF q, jb
  <2>4. UNCHANGED <<active, sleep>> => active' \subseteq active /\ sleep' <= sleep
    BY <1>1
  <2>5. QED
    BY <2>1, <2>2, <2>3, <2>4 DEF q, jb
<1>3. CASE Poll
  BY <1>1, <1>3 DEF Poll
<1>4. ASSUME \/ \E type \in Types : RegisterJobHandler(type)
             \/ \E j \in Jobs : Succeed(j) \/ Fail(j)
             \/ Shutdown \/ ShutdownReturns \/ UNCHANGED vars
      PROVE  active' \subseteq active /\ sleep' <= sleep
  <2>1. active' \subseteq active /\ sleep' = sleep
    BY <1>4 DEF RegisterJobHandler, Succeed, Fail, Shutdown, ShutdownReturns, vars
  <2>2. QED
    BY <1>1, <2>1
<1>5. ASSUME Tick
      PROVE  active' \subseteq active /\ sleep' <= sleep
  BY <1>1, <1>5 DEF Tick, Less
<1>6. QED
  BY <1>2, <1>3, <1>4, <1>5 DEF Next

\* The loop does not go to sleep on a place that is free and a job that is due.
THEOREM PlacesAreFilled ==
  ASSUME PriorityArgs \subseteq Priorities
  PROVE  Spec => NoIdleCapacity
<1>1. ASSUME NEW q, NEW jb, NEW n, IInv, Ready(q, jb, n), RunLoop(q, jb), job' = jb
      PROVE  \/ Cardinality(active') >= Concurrency
             \/ \A j \in Queued(queues') : job'[j].wait > 0
  <2>1. TypeOK /\ ConcurrencyLimit
    BY <1>1 DEF IInv
  <2>2. active' = active \cup Started(q, jb) /\ Queued(queues') = Queued(q) \ Taken(q, jb)
    BY <1>1 DEF RunLoop, Started, Queued
  <2>3. CASE Due(q, jb) \ Taken(q, jb) = {}
    <3>1. \A j \in Queued(q) \ Taken(q, jb) : jb[j].wait # 0
      BY <2>3 DEF Due
    <3>2. \A j \in Queued(q) : jb[j].wait \in Nat
      BY <1>1 DEF Ready, Queued, Job
    <3>3. QED
      BY <1>1, <2>2, <3>1, <3>2
  <2>4. CASE Due(q, jb) \ Taken(q, jb) # {}
    BY <1>1, <2>1, <2>2, <2>4, RoundFillsPlaces
  <2>5. QED
    BY <2>3, <2>4
<1>2. ASSUME IInv, Next, sleep' > sleep
      PROVE  \/ Cardinality(active') >= Concurrency
             \/ \A j \in Queued(queues') : job'[j].wait > 0
  <2>1. sleep \in Nat /\ sleep' \in Nat
    BY <1>2, InvariantStep DEF IInv, TypeOK
  <2>2. ~(sleep' <= sleep)
    BY <1>2, <2>1
  <2>3. QED
    BY <1>1, <1>2, <2>2, RoundOrNone
<1>3. IInv /\ [Next]_vars =>
        [sleep' > sleep =>
           \/ Cardinality(active') >= Concurrency
           \/ \A j \in Queued(queues') : job'[j].wait > 0]_vars
  BY <1>2
<1>4. QED
  BY Inductive, <1>3, PTL DEF Spec, NoIdleCapacity

\* A round takes with a job every due job that comes before it.
LEMMA TakenFirst ==
  ASSUME NEW q, NEW jb, NEW n, Ready(q, jb, n), TypeOK, NEW j \in Taken(q, jb),
         NEW i \in Due(q, jb), Ahead(i, j, q, jb)
  PROVE  i \in Taken(q, jb)
<1>1. i \in Queued(q) /\ j \in Due(q, jb) /\ j \in Queued(q)
  BY DEF Taken, Due
<1>2. Before(i, q, jb) \in SUBSET Before(j, q, jb)
  BY <1>1, AheadIsAnOrder DEF Before, Due
<1>3. Cardinality(Before(i, q, jb)) <= Cardinality(Before(j, q, jb))
  BY <1>2, BeforeIsFinite, FS_Subset
<1>4. Cardinality(active) + Cardinality(Before(j, q, jb)) < Concurrency
  BY DEF Taken
<1>5. Cardinality(active) + Cardinality(Before(i, q, jb)) < Concurrency
  <2>1. /\ Cardinality(Before(i, q, jb)) \in Nat /\ Cardinality(Before(j, q, jb)) \in Nat
        /\ Cardinality(active) \in Nat /\ Concurrency \in Nat
    BY BeforeIsFinite, StartedCount, QueueAssumption
  <2>2. QED
    BY <1>3, <1>4, <2>1
<1>6. QED
  BY <1>5 DEF Taken

\* A job is never started past one that is due and comes before it.
THEOREM OrderHolds ==
  ASSUME PriorityArgs \subseteq Priorities
  PROVE  Spec => FirstThingsFirst
<1>1. ASSUME NEW q, NEW jb, NEW n, Ready(q, jb, n), TypeOK, RunLoop(q, jb),
             NEW i \in Queued(queues'), NEW j \in active' \ active,
             i \in Due(q, jb)
      PROVE  ~Ahead(i, j, q, jb)
  <2>1. j \in Taken(q, jb) /\ i \notin Taken(q, jb)
    BY <1>1 DEF RunLoop, Queued
  <2>2. QED
    BY <1>1, <2>1, TakenFirst
<1>2. ASSUME IInv, Next, NEW j \in active' \ active,
             NEW i \in Queued(queues) \cap Queued(queues'),
             j \in Queued(queues), job[i].wait = 0
      PROVE  ~Ahead(i, j, queues, job)
  <2>1. CASE \E k \in Jobs, type \in Types, priority \in PriorityArgs, max \in Limits,
                delay \in Delays :
               LET jb == [job EXCEPT ![k] = NewJob(type, priority, max, delay)]
                   q == Push(queues, priority, k)
               IN  /\ job[k] = NoJob /\ job' = jb /\ pushes' = pushes + 1
                   /\ Ready(q, jb, pushes + 1) /\ RunLoop(q, jb)
    <3>1. PICK k \in Jobs, type \in Types, priority \in PriorityArgs, max \in Limits,
               delay \in Delays :
               LET jb == [job EXCEPT ![k] = NewJob(type, priority, max, delay)]
                   q == Push(queues, priority, k)
               IN  /\ job[k] = NoJob
                   /\ Ready(q, jb, pushes + 1) /\ RunLoop(q, jb)
      BY <2>1
    <3> DEFINE jb == [job EXCEPT ![k] = NewJob(type, priority, max, delay)]
               q == Push(queues, priority, k)
    <3>2. Ready(queues, job, pushes)
      BY <1>2, InvariantMeans
    <3>3. \A l \in Queued(queues) : l \in Jobs /\ l # k /\ jb[l] = job[l]
      BY <3>1, <3>2 DEF Ready, Queued
    <3>4. \A p \in Priorities : queues[p] \subseteq q[p]
      BY <3>2 DEF Push, Priorities, Ready
    <3>5. i \in Due(q, jb)
      BY <1>2, <3>3, <3>4 DEF Due, Queued
    <3>6. ~Ahead(i, j, q, jb)
      BY <1>1, <1>2, <3>1, <3>5 DEF IInv
    <3>7. Ahead(i, j, queues, job) => Ahead(i, j, q, jb)
      <4> HIDE DEF q, jb
      <4>1. QED
        BY <1>2, <3>3, <3>4 DEF Ahead
    <3>8. QED
      BY <3>6, <3>7
  <2>2. CASE Ready(queues, job, pushes) /\ RunLoop(queues, job)
    BY <1>1, <1>2, <2>2 DEF Due, IInv
  <2>3. QED
    BY <1>2, <2>1, <2>2, RoundOrNone
<1>3. IInv /\ [Next]_vars =>
        [\A j \in active' \ active, i \in Queued(queues) \cap Queued(queues') :
           j \in Queued(queues) /\ job[i].wait = 0 => ~Ahead(i, j, queues, job)]_vars
  BY <1>2
<1>4. QED
  BY Inductive, <1>3, PTL DEF Spec, FirstThingsFirst

-----------------------------------------------------------------------------
(* The queue keeps the promise of JobPromise *)

\* Where a job is, read off the arrays and lists.
LEMMA PhaseMeans ==
  Ready(queues, job, pushes) =>
    \A j \in Jobs :
      /\ j \in Queued(queues) => Phase(j) = "waiting"
      /\ j \in active => Phase(j) = "running"
      /\ j \in completed => Phase(j) = "done"
      /\ j \in failedJobs => Phase(j) = "dead"
      /\ job[j] = NoJob => Phase(j) = "new" /\ Limit(j) = 0
      /\ job[j] # NoJob => Limit(j) = IF job[j].max = 0 THEN 1 ELSE job[j].max
  BY DEF Ready, Queued, Phase, Limit

\* A step of the promise, for one job of the queue.
Moves(j) ==
  \/ Phase(j)' = Phase(j) /\ Limit(j)' = Limit(j) /\ tries'[j] = tries[j]
  \/ /\ Phase(j) = "new" /\ Phase(j)' \in {"waiting", "running", "dead"}
     /\ \E max \in Limits : Limit(j)' = IF max = 0 THEN 1 ELSE max
     /\ tries'[j] = IF Phase(j)' = "running" THEN 1 ELSE 0
  \/ /\ Phase(j) = "waiting" /\ Phase(j)' = "running" /\ Limit(j)' = Limit(j)
     /\ tries[j] < Limit(j) /\ tries'[j] = tries[j] + 1
  \/ /\ Phase(j) = "waiting" /\ Phase(j)' = "dead" /\ Limit(j)' = Limit(j)
     /\ tries[j] = 0 /\ tries'[j] = 0
  \/ /\ Phase(j) = "running"
     /\ \/ Phase(j)' = "done"
        \/ Phase(j)' = "waiting" /\ tries[j] < Limit(j)
        \/ Phase(j)' = "dead" /\ tries[j] = Limit(j)
     /\ Limit(j)' = Limit(j) /\ tries'[j] = tries[j]

\* What a round of the loop does with a job that it finds.
LEMMA RoundMoves ==
  ASSUME NEW q, NEW jb, NEW n, Ready(q, jb, n), TypeOK, RunLoop(q, jb), NEW j \in Jobs
  PROVE  \/ /\ j \in Queued(q) <=> j \in Queued(queues')
            /\ j \in active <=> j \in active'
            /\ j \in failedJobs <=> j \in failedJobs'
            /\ tries'[j] = tries[j]
         \/ /\ j \in Queued(q) /\ j \in active'
            /\ tries'[j] = tries[j] + 1 /\ tries[j] = jb[j].retries
            /\ jb[j].retries = 0 \/ jb[j].retries < jb[j].max
         \/ /\ j \in Queued(q) /\ j \in failedJobs'
            /\ tries[j] = 0 /\ tries'[j] = 0
<1>1. /\ Queued(queues') = Queued(q) \ Taken(q, jb)
      /\ active' = active \cup Started(q, jb)
      /\ failedJobs' = failedJobs \cup (Taken(q, jb) \ Started(q, jb))
      /\ tries'[j] = IF j \in Started(q, jb) THEN tries[j] + 1 ELSE tries[j]
  BY DEF RunLoop, Started, Queued
<1>2. Taken(q, jb) \subseteq Queued(q) /\ Started(q, jb) \subseteq Taken(q, jb)
  BY DEF Taken, Due, Started
<1>3. j \in Taken(q, jb) /\ j \notin Started(q, jb) => jb[j].type \notin handlers
  BY DEF Started
<1>4. j \in Queued(q) => /\ jb[j] # NoJob
                         /\ tries[j] > 0 => jb[j].type \in handlers
                         /\ tries[j] = jb[j].retries
                         /\ jb[j].retries = 0 \/ jb[j].retries < jb[j].max
  BY DEF Ready
<1>5. tries[j] \in Nat
  BY DEF TypeOK
<1>6. CASE j \notin Taken(q, jb)
  BY <1>1, <1>2, <1>6
<1>7. CASE j \in Started(q, jb)
  <2>1. j \in Queued(q) /\ j \in active' /\ tries'[j] = tries[j] + 1
    BY <1>1, <1>2, <1>7
  <2>2. QED
    BY <1>4, <2>1
<1>8. CASE j \in Taken(q, jb) /\ j \notin Started(q, jb)
  <2>1. j \in Queued(q) /\ j \in failedJobs' /\ tries'[j] = tries[j]
    BY <1>1, <1>2, <1>8
  <2>2. ~(tries[j] > 0)
    BY <1>3, <1>4, <1>8, <2>1
  <2>3. tries[j] = 0
    BY <1>5, <2>2
  <2>4. QED
    BY <2>1, <2>3
<1>9. QED
  BY <1>6, <1>7, <1>8

\* Each step of the queue moves each job as the promise allows.
LEMMA EveryJobMoves ==
  ASSUME IInv, PriorityArgs \subseteq Priorities, [Next]_vars, NEW k \in Jobs
  PROVE  Moves(k)
<1>1. TypeOK /\ Ready(queues, job, pushes)
  BY InvariantMeans DEF Frame
<1>2. IInv'
  BY InvariantStep
<1>3. (IInv <=> Frame /\ Ready(queues, job, pushes))'
  BY InvariantMeans, PTL
<1>4. TypeOK' /\ Ready(queues, job, pushes)'
  BY <1>2, <1>3 DEF IInv
<1>5. /\ k \in Queued(queues) => Phase(k) = "waiting"
      /\ k \in active => Phase(k) = "running"
      /\ k \in completed => Phase(k) = "done"
      /\ k \in failedJobs => Phase(k) = "dead"
      /\ job[k] = NoJob => Phase(k) = "new" /\ Limit(k) = 0
      /\ job[k] # NoJob => Limit(k) = IF job[k].max = 0 THEN 1 ELSE job[k].max
  BY <1>1, PhaseMeans
<1>6. (Ready(queues, job, pushes) =>
         \A j \in Jobs :
           /\ j \in Queued(queues) => Phase(j) = "waiting"
           /\ j \in active => Phase(j) = "running"
           /\ j \in completed => Phase(j) = "done"
           /\ j \in failedJobs => Phase(j) = "dead"
           /\ job[j] = NoJob => Phase(j) = "new" /\ Limit(j) = 0
           /\ job[j] # NoJob => Limit(j) = IF job[j].max = 0 THEN 1 ELSE job[j].max)'
  BY PhaseMeans, PTL
<1>7. /\ k \in Queued(queues)' => Phase(k)' = "waiting"
      /\ k \in active' => Phase(k)' = "running"
      /\ k \in completed' => Phase(k)' = "done"
      /\ k \in failedJobs' => Phase(k)' = "dead"
      /\ job'[k] = NoJob => Phase(k)' = "new" /\ Limit(k)' = 0
      /\ job'[k] # NoJob => Limit(k)' = IF job'[k].max = 0 THEN 1 ELSE job'[k].max
  BY <1>4, <1>6
<1>8. /\ job[k] = NoJob <=> k \notin Queued(queues) \cup active \cup completed \cup failedJobs
      /\ job'[k] = NoJob <=> k \notin Queued(queues)' \cup active' \cup completed' \cup failedJobs'
  BY <1>1, <1>4 DEF Ready
\* A step that leaves the job where it is, with the limit its caller asked for.
<1>9. ASSUME /\ k \in Queued(queues) <=> k \in Queued(queues)'
             /\ k \in active <=> k \in active'
             /\ k \in completed <=> k \in completed'
             /\ k \in failedJobs <=> k \in failedJobs'
             /\ tries'[k] = tries[k]
             /\ job[k] # NoJob => job'[k].max = job[k].max
      PROVE  Moves(k)
  BY <1>5, <1>7, <1>8, <1>9 DEF Moves
<1>10. job[k] # NoJob => job[k] \in Job /\ job[k].max \in Nat /\ job[k].retries \in Nat
  <2>1. job[k] # NoJob => job[k] \in Job
    BY <1>1 DEF TypeOK
  <2>2. \A x \in Job : x.max \in Nat /\ x.retries \in Nat
    BY QueueAssumption DEF Job
  <2>3. QED
    BY <2>1, <2>2
<1>11. ASSUME NEW j \in Jobs, NEW type \in Types, NEW priority \in PriorityArgs,
              NEW max \in Limits, NEW delay \in Delays,
              AddJob(j, type, priority, max, delay)
       PROVE  Moves(k)
  <2> DEFINE jb == [job EXCEPT ![j] = NewJob(type, priority, max, delay)]
             q == Push(queues, priority, j)
  <2>1. /\ job[j] = NoJob /\ job' = jb /\ completed' = completed
        /\ Ready(q, jb, pushes + 1)
    BY <1>1, <1>11, AddedIsReady DEF AddJob
  <2>2. \/ RunLoop(q, jb)
        \/ queues' = q /\ UNCHANGED <<active, failedJobs, tries>>
    BY <1>11 DEF AddJob
  <2>3. j # k => (k \in Queued(q) <=> k \in Queued(queues)) /\ jb[k] = job[k]
    BY <1>1 DEF Push, Queued, Ready, Priorities
  <2>4. j \in Queued(q)
    BY <1>1 DEF Push, Queued, Ready, Priorities
  <2>5. jb[j].max = max /\ jb[j].retries = 0
    BY <1>1 DEF NewJob, Ready
  <2>6. job[j] = NoJob => tries[j] = 0
    BY <1>1 DEF Ready
  <2> HIDE DEF q, jb
  <2>7. \/ /\ k \in Queued(q) <=> k \in Queued(queues')
           /\ k \in active <=> k \in active'
           /\ k \in failedJobs <=> k \in failedJobs'
           /\ tries'[k] = tries[k]
        \/ /\ k \in Queued(q) /\ k \in active'
           /\ tries'[k] = tries[k] + 1 /\ tries[k] = jb[k].retries
           /\ jb[k].retries = 0 \/ jb[k].retries < jb[k].max
        \/ /\ k \in Queued(q) /\ k \in failedJobs'
           /\ tries[k] = 0 /\ tries'[k] = 0
    <3>1. CASE RunLoop(q, jb)
      BY <1>1, <2>1, <3>1, RoundMoves
    <3>2. CASE queues' = q /\ UNCHANGED <<active, failedJobs, tries>>
      BY <3>2
    <3>3. QED
      BY <2>2, <3>1, <3>2
  <2>8. CASE k = j
    <3>1. job[k] = NoJob /\ Phase(k) = "new" /\ tries[k] = 0
      BY <1>5, <2>1, <2>6, <2>8
    <3>2. k \notin active /\ k \in Queued(q)
      BY <1>8, <2>4, <2>8, <3>1
    <3>3. Phase(k)' \in {"waiting", "running", "dead"} /\
          tries'[k] = IF Phase(k)' = "running" THEN 1 ELSE 0
      BY <1>7, <2>7, <3>1, <3>2
    <3>4. job'[k] # NoJob /\ job'[k].max = max
      BY <1>7, <2>1, <2>5, <2>8, <3>3
    <3>5. QED
      BY <1>7, <3>1, <3>3, <3>4 DEF Moves
  <2>9. CASE k # j
    <3>1. job'[k] = job[k] /\ jb[k] = job[k] /\ (k \in Queued(q) <=> k \in Queued(queues))
      BY <2>1, <2>3, <2>9
    <3>2. QED
      BY <1>5, <1>7, <1>8, <1>9, <1>10, <2>1, <2>7, <3>1 DEF Moves
  <2>10. QED
    BY <2>8, <2>9
<1>12. CASE Poll
  <2>1. RunLoop(queues, job) /\ job' = job /\ completed' = completed
    BY <1>12 DEF Poll
  <2>2. \/ /\ k \in Queued(queues) <=> k \in Queued(queues')
           /\ k \in active <=> k \in active'
           /\ k \in failedJobs <=> k \in failedJobs'
           /\ tries'[k] = tries[k]
        \/ /\ k \in Queued(queues) /\ k \in active'
           /\ tries'[k] = tries[k] + 1 /\ tries[k] = job[k].retries
           /\ job[k].retries = 0 \/ job[k].retries < job[k].max
        \/ /\ k \in Queued(queues) /\ k \in failedJobs'
           /\ tries[k] = 0 /\ tries'[k] = 0
    BY <1>1, <2>1, RoundMoves
  <2>3. QED
    BY <1>5, <1>7, <1>8, <1>9, <1>10, <2>1, <2>2 DEF Moves
<1>13. ASSUME NEW j \in Jobs, Succeed(j)
       PROVE  Moves(k)
  <2>1. /\ j \in active /\ active' = active \ {j} /\ completed' = completed \cup {j}
        /\ UNCHANGED <<job, queues, failedJobs, tries>> /\ Queued(queues') = Queued(queues)
    BY <1>13 DEF Succeed
  <2>2. QED
    BY <1>5, <1>7, <1>8, <1>9, <2>1 DEF Moves
<1>14. ASSUME NEW j \in Jobs, Fail(j)
       PROVE  Moves(k)
  <2> DEFINE n == job[j].retries + 1
  <2>1. j \in active /\ active' = active \ {j} /\ UNCHANGED <<completed, tries>>
    BY <1>14 DEF Fail
  <2>2. job[j] # NoJob /\ job[j] \in Job /\ job[j].priority \in Priorities
    BY <1>1, <2>1 DEF Ready, Job
  <2>3. job'[j].max = job[j].max /\ \A i \in Jobs : i # j => job'[i] = job[i]
    BY <1>1, <1>14, <2>2 DEF Fail, TypeOK, Job
  <2>4. CASE k # j
    <3>1. k \in Queued(queues) <=> k \in Queued(queues')
      BY <1>1, <1>14, <2>4 DEF Fail, Push, Queued, Ready, Priorities
    <3>2. k \in failedJobs <=> k \in failedJobs'
      BY <1>14, <2>4 DEF Fail
    <3>3. QED
      BY <1>9, <2>1, <2>3, <2>4, <3>1, <3>2
  <2>5. CASE k = j
    <3>1. tries[k] = n /\ (job[k].retries = 0 \/ job[k].retries < job[k].max)
      BY <1>1, <2>1, <2>2, <2>5 DEF Ready
    <3>2. job'[k] # NoJob /\ Limit(k)' = Limit(k)
          /\ Limit(k) = IF job[k].max = 0 THEN 1 ELSE job[k].max
      <4>1. job'[k] # NoJob
        <5>1. k \in Queued(queues') \/ k \in failedJobs'
          BY <1>1, <1>14, <2>2, <2>5 DEF Fail, Push, Queued, Ready
        <5>2. QED
          BY <1>8, <5>1
      <4>2. QED
        BY <1>5, <1>7, <2>2, <2>3, <2>5, <4>1
    <3>3. CASE n < job[j].max
      <4>1. k \in Queued(queues')
        BY <1>1, <1>14, <2>2, <2>5, <3>3 DEF Fail, Push, Queued, Ready
      <4>2. tries[k] < Limit(k)
        BY <1>10, <2>2, <2>5, <3>1, <3>2, <3>3
      <4>3. QED
        BY <1>5, <1>7, <2>1, <2>5, <3>2, <4>1, <4>2 DEF Moves
    <3>4. CASE ~(n < job[j].max)
      <4>1. k \in failedJobs'
        BY <1>14, <2>5, <3>4 DEF Fail
      <4>2. tries[k] = Limit(k)
        BY <1>10, <2>2, <2>5, <3>1, <3>2, <3>4
      <4>3. QED
        BY <1>5, <1>7, <2>1, <2>5, <3>2, <4>1, <4>2 DEF Moves
    <3>5. QED
      BY <3>3, <3>4
  <2>6. QED
    BY <2>4, <2>5
<1>15. CASE Tick
  <2>1. job[k] # NoJob => job'[k].max = job[k].max
    <3>1. job[k] # NoJob => /\ job[k] \in Job
                            /\ job'[k] = [job[k] EXCEPT !.wait = Less(@)] \/ job'[k] = job[k]
      BY <1>10, <1>15 DEF Tick
    <3>2. QED
      BY <3>1 DEF Job
  <2>2. QED
    BY <1>9, <1>15, <2>1 DEF Tick, Queued
<1>16. CASE \/ \E type \in Types : RegisterJobHandler(type)
           \/ Shutdown \/ ShutdownReturns \/ UNCHANGED vars
  <2>1. UNCHANGED <<job, queues, active, failedJobs, completed, tries>>
    BY <1>16 DEF RegisterJobHandler, Shutdown, ShutdownReturns, vars
  <2>2. QED
    BY <1>9, <2>1 DEF Queued
<1>17. QED
  BY <1>11, <1>12, <1>13, <1>14, <1>15, <1>16 DEF Next

\* The queue implements JobPromise: a job that addJob accepted waits, runs and
\* ends as its caller may expect, and is given up only after all its tries.
THEOREM QueueKeepsPromise ==
  ASSUME PriorityArgs \subseteq Priorities
  PROVE  Spec => KeepsPromise
<1>1. Init => Promised!PromiseInit
  BY DEF Init, Promised!PromiseInit, Phase, Limit, Queued
<1>2. IInv /\ [Next]_vars => [Promised!PromiseNext]_(Promised!promiseVars)
  <2>1. SUFFICES ASSUME IInv, [Next]_vars, NEW j \in Jobs
                 PROVE  \/ Promised!Stay(j) \/ Promised!Accept(j) \/ Promised!Start(j)
                        \/ Promised!Refuse(j) \/ Promised!Finish(j)
    BY DEF Promised!PromiseNext
  <2>2. Moves(j)
    BY <2>1, EveryJobMoves
  <2>3. QED
    BY <2>2 DEF Moves, Promised!Stay, Promised!Accept, Promised!Start,
                Promised!Refuse, Promised!Finish, Promised!TriesFor
<1>3. QED
  BY Inductive, <1>1, <1>2, PTL DEF Spec, KeepsPromise, Promised!Promise

-----------------------------------------------------------------------------
(* The loop of jobs/jobQueue.js, turn by turn (module JobLoop)               *)

\* What is not empty and bounded below has a least element.
LEMMA LeastOf ==
  ASSUME NEW S \in SUBSET Nat, S # {}
  PROVE  \E least \in S : \A m \in S : least <= m
<1>1. PICK least \in S : \A m \in S : <<m, least>> \notin OpToRel(<, Nat)
  BY NatLessThanWellFounded, WFMin
<1>2. \A m \in S : ~(m < least)
  BY <1>1 DEF OpToRel
<1>3. QED
  BY <1>2

\* The jobs taken so far are the first due ones, each with a place to go to.
Prefix(taken, q, jb) ==
  /\ taken \subseteq Due(q, jb)
  /\ \A j \in taken, i \in Due(q, jb) : Ahead(i, j, q, jb) => i \in taken
  /\ \A j \in taken : Cardinality(active) + Cardinality(Before(j, q, jb)) < Concurrency

\* What is left in the arrays, and what has been started.
LeftOf(taken, q) == [p \in Priorities |-> q[p] \ taken]
StartedOf(taken, jb) == {j \in taken : jb[j].type \in handlers}

\* An array that has a due job has a first one.
LEMMA ArrayHasFirst ==
  ASSUME NEW q, NEW jb, NEW n, Ready(q, jb, n), NEW p \in Priorities,
         NEW array \in SUBSET q[p], NEW j \in array, jb[j].wait = 0
  PROVE  FirstDue(array, jb) # {}
<1> DEFINE stamps == {jb[i].pushed : i \in {k \in array : jb[k].wait = 0}}
<1>1. \A i \in array : jb[i].pushed \in Nat
  <2>1. \A i \in array : i \in Jobs /\ jb[i] # NoJob
    BY DEF Ready, Queued
  <2>2. QED
    BY <2>1 DEF Ready, Job
<1>2. stamps \in SUBSET Nat /\ stamps # {}
  BY <1>1
<1>3. PICK least \in stamps : \A m \in stamps : least <= m
  <2> HIDE DEF stamps
  <2>1. QED
    BY <1>2, LeastOf
<1>4. PICK i \in array : jb[i].wait = 0 /\ jb[i].pushed = least
  BY <1>3
<1>5. i \in FirstDue(array, jb)
  BY <1>3, <1>4 DEF FirstDue
<1>6. QED
  BY <1>5

\* getNextJob finds the one due job that no other due job is ahead of, if any job
\* is due among those that were not taken.
LEMMA NextIsFirst ==
  ASSUME NEW q, NEW jb, NEW n, Ready(q, jb, n), NEW taken \in SUBSET Due(q, jb)
  PROVE  LET next == NextJob(LeftOf(taken, q), jb)
             left == Due(q, jb) \ taken
         IN  /\ next \subseteq left
             /\ (next = {} <=> left = {})
             /\ \A j \in next, i \in left : ~Ahead(i, j, q, jb)
             /\ \A i, j \in next : i = j
<1> DEFINE rest == LeftOf(taken, q)
           next == NextJob(rest, jb)
           left == Due(q, jb) \ taken
<1>1. \A p \in Priorities : rest[p] \in SUBSET q[p] /\ rest[p] = q[p] \ taken
  BY DEF LeftOf
<1> HIDE DEF rest
<1>2. {"high", "normal", "low"} = Priorities
  BY DEF Priorities
<1>3. \A p \in Priorities : \A i \in rest[p] : jb[i].wait = 0 => FirstDue(rest[p], jb) # {}
  BY <1>1, ArrayHasFirst
<1>4. \A p \in Priorities : FirstDue(rest[p], jb) \subseteq left
  BY <1>1 DEF FirstDue, Due, Queued
<1>5. \A j \in left : \E p \in Priorities : j \in rest[p] /\ jb[j].wait = 0
  BY <1>1 DEF Due, Queued
<1>6. Rank["high"] = 1 /\ Rank["normal"] = 2 /\ Rank["low"] = 3
  BY DEF Rank, Priorities
<1>7. CASE next = {}
  <2>1. \A p \in Priorities : FirstDue(rest[p], jb) = {}
    BY <1>2, <1>7 DEF NextJob
  <2>2. left = {}
    BY <2>1, <1>3, <1>5
  <2>3. QED
    BY <1>7, <2>2 DEF rest
<1>8. CASE next # {}
  <2>1. PICK p \in Priorities :
          /\ next = FirstDue(rest[p], jb)
          /\ \A r \in Priorities : Rank[r] < Rank[p] => FirstDue(rest[r], jb) = {}
    <3>1. CASE FirstDue(rest["high"], jb) # {}
      <4>1. next = FirstDue(rest["high"], jb)
        BY <3>1 DEF NextJob
      <4>2. \A r \in Priorities : ~(Rank[r] < Rank["high"])
        BY <1>2, <1>6
      <4>3. QED
        BY <1>2, <4>1, <4>2
    <3>2. CASE FirstDue(rest["high"], jb) = {} /\ FirstDue(rest["normal"], jb) # {}
      <4>1. next = FirstDue(rest["normal"], jb)
        BY <3>2 DEF NextJob
      <4>2. \A r \in Priorities : Rank[r] < Rank["normal"] => r = "high"
        BY <1>2, <1>6
      <4>3. QED
        BY <1>2, <3>2, <4>1, <4>2
    <3>3. CASE FirstDue(rest["high"], jb) = {} /\ FirstDue(rest["normal"], jb) = {}
      <4>1. next = FirstDue(rest["low"], jb)
        BY <3>3 DEF NextJob
      <4>2. \A r \in Priorities : Rank[r] < Rank["low"] => r \in {"high", "normal"}
        BY <1>2, <1>6
      <4>3. QED
        BY <1>2, <3>3, <4>1, <4>2
    <3>4. QED
      BY <3>1, <3>2, <3>3
  <2>2. next \subseteq left
    BY <2>1, <1>4
  <2>3. \A j \in next : j \in q[p] /\ j \in rest[p] /\ jb[j].wait = 0
    BY <2>1, <1>1 DEF FirstDue
  <2>4. \A i \in q[p] : jb[i].pushed \in Nat
    <3>1. \A i \in q[p] : i \in Jobs /\ jb[i] # NoJob
      BY DEF Ready, Queued
    <3>2. QED
      BY <3>1 DEF Ready, Job
  <2>5. \A i, j \in next : i = j
    <3>1. \A i, j \in next : jb[i].pushed <= jb[j].pushed
      BY <2>1, <2>3 DEF FirstDue
    <3>2. \A i, j \in next : jb[i].pushed = jb[j].pushed
      BY <3>1, <2>3, <2>4
    <3>3. QED
      BY <3>2, <2>3 DEF Ready
  <2>6. ASSUME NEW j \in next, NEW i \in left, Ahead(i, j, q, jb)
        PROVE  FALSE
    <3>1. PICK s, r \in Priorities :
            /\ i \in q[s] /\ j \in q[r]
            /\ Rank[s] < Rank[r] \/ (s = r /\ jb[i].pushed < jb[j].pushed)
      BY <2>6 DEF Ahead
    <3>2. r = p
      BY <2>3, <3>1 DEF Ready
    <3>3. i \in rest[s] /\ jb[i].wait = 0
      BY <3>1, <1>1 DEF Due
    <3>4. CASE Rank[s] < Rank[r]
      BY <3>2, <3>3, <3>4, <2>1, <1>3
    <3>5. CASE s = r /\ jb[i].pushed < jb[j].pushed
      <4>1. jb[j].pushed <= jb[i].pushed
        BY <3>2, <3>3, <3>5, <2>1 DEF FirstDue
      <4>2. QED
        BY <4>1, <3>1, <3>2, <3>5, <2>3, <2>4
    <3>6. QED
      BY <3>1, <3>4, <3>5
  <2>7. left # {}
    BY <1>8, <2>2
  <2>8. QED
    BY <1>8, <2>2, <2>5, <2>6, <2>7 DEF rest
<1>9. QED
  BY <1>7, <1>8

\* The state of the loop after it has taken some jobs, read field by field.
LEMMA AfterHas ==
  ASSUME NEW q, NEW jb, NEW taken
  PROVE  /\ After(taken, q, jb).queues = LeftOf(taken, q)
         /\ After(taken, q, jb).active = active \cup StartedOf(taken, jb)
         /\ After(taken, q, jb).failed = failedJobs \cup (taken \ StartedOf(taken, jb))
<1>1. {j \in taken : jb[j].type \notin handlers} = taken \ {j \in taken : jb[j].type \in handlers}
  OBVIOUS
<1>2. QED
  BY <1>1 DEF After, LeftOf, StartedOf

\* A record with these fields is that state.
LEMMA AfterIs ==
  ASSUME NEW q, NEW jb, NEW taken, NEW started, started = StartedOf(taken, jb),
         NEW left, left = LeftOf(taken, q)
  PROVE  [queues |-> left, active |-> active \cup started,
          failed |-> failedJobs \cup (taken \ started)] = After(taken, q, jb)
<1>1. {j \in taken : jb[j].type \notin handlers} = taken \ {j \in taken : jb[j].type \in handlers}
  OBVIOUS
<1>2. QED
  BY <1>1 DEF After, LeftOf, StartedOf

\* How many jobs run when some have been taken.
LEMMA RunningAfter ==
  ASSUME NEW q, NEW jb, NEW n, Ready(q, jb, n), TypeOK, NEW taken \in SUBSET Due(q, jb)
  PROVE  /\ Cardinality(active) \in Nat
         /\ IsFiniteSet(StartedOf(taken, jb)) /\ Cardinality(StartedOf(taken, jb)) \in Nat
         /\ Cardinality(After(taken, q, jb).active) =
              Cardinality(active) + Cardinality(StartedOf(taken, jb))
<1> DEFINE started == StartedOf(taken, jb)
<1>1. IsFiniteSet(active) /\ Cardinality(active) \in Nat
  BY QueueAssumption, FS_Subset, FS_CardinalityType DEF TypeOK
<1>2. started \in SUBSET Jobs /\ active \cap started = {}
  BY DEF Due, Queued, Ready, StartedOf
<1> HIDE DEF started
<1>3. IsFiniteSet(started) /\ Cardinality(started) \in Nat
  BY <1>2, QueueAssumption, FS_Subset, FS_CardinalityType
<1>4. Cardinality(active \cup started) = Cardinality(active) + Cardinality(started)
  <2>1. Cardinality(active \cap started) = 0
    BY <1>2, FS_EmptySet
  <2>2. Cardinality(active \cup started) =
          Cardinality(active) + Cardinality(started) - Cardinality(active \cap started)
    BY <1>1, <1>3, FS_Union
  <2>3. QED
    BY <1>1, <1>3, <2>1, <2>2
<1>5. After(taken, q, jb).active = active \cup started
  BY AfterHas DEF started
<1>6. QED
  BY <1>1, <1>3, <1>4, <1>5 DEF started

\* A turn takes the first due job that is left, if a place is free, and keeps
\* what it has taken a prefix of the due jobs.
LEMMA TurnTakesOne ==
  ASSUME NEW q, NEW jb, NEW n, Ready(q, jb, n), TypeOK, NEW taken, Prefix(taken, q, jb),
         Cardinality(After(taken, q, jb).active) < Concurrency,
         taken # Due(q, jb)
  PROVE  \E j \in Due(q, jb) \ taken :
           /\ Prefix(taken \cup {j}, q, jb)
           /\ Turn(After(taken, q, jb), jb) = After(taken \cup {j}, q, jb)
<1> DEFINE loop == After(taken, q, jb)
           next == NextJob(LeftOf(taken, q), jb)
<1>1. taken \in SUBSET Due(q, jb)
  BY DEF Prefix
<1>2. /\ next \subseteq Due(q, jb) \ taken
      /\ next # {}
      /\ \A j \in next, i \in Due(q, jb) \ taken : ~Ahead(i, j, q, jb)
      /\ \A i, j \in next : i = j
  BY <1>1, NextIsFirst
<1>3. PICK j \in Due(q, jb) \ taken : next = {j}
  <2> HIDE DEF next
  <2>1. PICK j \in next : TRUE
    BY <1>2
  <2>2. QED
    BY <1>2, <2>1
<1>4. /\ loop.queues = LeftOf(taken, q)
      /\ loop.active = active \cup StartedOf(taken, jb)
      /\ loop.failed = failedJobs \cup (taken \ StartedOf(taken, jb))
  BY AfterHas
<1>5. \A i \in Due(q, jb) \ taken : ~Ahead(i, j, q, jb)
  BY <1>2, <1>3
<1>6. \A i \in taken : Ahead(i, j, q, jb)
  <2>1. \A i \in taken : Ahead(i, j, q, jb) \/ Ahead(j, i, q, jb)
    BY <1>1, <1>3, AheadIsAnOrder DEF Due
  <2>2. QED
    BY <1>3, <2>1 DEF Prefix
<1>7. Before(j, q, jb) = StartedOf(taken, jb)
  BY <1>1, <1>5, <1>6 DEF Before, StartedOf
<1>8. /\ Cardinality(active) \in Nat /\ Cardinality(StartedOf(taken, jb)) \in Nat
      /\ Cardinality(loop.active) = Cardinality(active) + Cardinality(StartedOf(taken, jb))
  BY <1>1, RunningAfter
<1>9. Prefix(taken \cup {j}, q, jb)
  <2>1. Cardinality(active) + Cardinality(Before(j, q, jb)) < Concurrency
    BY <1>7, <1>8
  <2>2. QED
    BY <1>1, <1>5, <2>1 DEF Prefix
<1>10. ~(Cardinality(loop.active) >= Concurrency)
  <2>1. Concurrency \in Nat
    BY QueueAssumption
  <2> HIDE DEF loop
  <2>2. QED
    BY <1>8, <2>1 DEF loop
<1> HIDE DEF loop, next
<1>11. NextJob(loop.queues, jb) = {j}
  BY <1>3, <1>4 DEF next
<1>12. Turn(loop, jb) =
         [queues |-> [p \in Priorities |-> loop.queues[p] \ {j}],
          active |-> loop.active \cup StartedOf({j}, jb),
          failed |-> loop.failed \cup ({j} \ StartedOf({j}, jb))]
  BY <1>10, <1>11 DEF Turn, StartedOf
<1>13. [p \in Priorities |-> loop.queues[p] \ {j}] = LeftOf(taken \cup {j}, q)
  BY <1>4 DEF LeftOf
<1>14. StartedOf(taken \cup {j}, jb) = StartedOf(taken, jb) \cup StartedOf({j}, jb)
  BY DEF StartedOf
<1>15. StartedOf(taken, jb) \subseteq taken /\ StartedOf({j}, jb) \subseteq {j} /\ j \notin taken
  BY <1>3 DEF StartedOf
<1>16. /\ loop.active \cup StartedOf({j}, jb) = active \cup StartedOf(taken \cup {j}, jb)
       /\ loop.failed \cup ({j} \ StartedOf({j}, jb)) =
            failedJobs \cup ((taken \cup {j}) \ StartedOf(taken \cup {j}, jb))
  BY <1>4, <1>14, <1>15
<1>17. Turn(loop, jb) = After(taken \cup {j}, q, jb)
  <2>1. [queues |-> LeftOf(taken \cup {j}, q),
         active |-> active \cup StartedOf(taken \cup {j}, jb),
         failed |-> failedJobs \cup ((taken \cup {j}) \ StartedOf(taken \cup {j}, jb))] =
           After(taken \cup {j}, q, jb)
    BY AfterIs, Zenon
  <2>2. QED
    BY <1>12, <1>13, <1>16, <2>1
<1>18. QED
  BY <1>9, <1>17 DEF loop

\* With every place taken or no due job left the loop goes to sleep, and what it
\* has taken is what Taken says.
LEMMA LoopSleeps ==
  ASSUME NEW q, NEW jb, NEW n, Ready(q, jb, n), TypeOK, NEW taken, Prefix(taken, q, jb),
         \/ Cardinality(After(taken, q, jb).active) >= Concurrency
         \/ taken = Due(q, jb)
  PROVE  /\ Turn(After(taken, q, jb), jb) = After(taken, q, jb)
         /\ taken = Taken(q, jb)
<1>1. taken \in SUBSET Due(q, jb)
  BY DEF Prefix
<1>2. taken = Due(q, jb) => NextJob(After(taken, q, jb).queues, jb) = {}
  <2>1. After(taken, q, jb).queues = LeftOf(taken, q)
    BY AfterHas
  <2>2. NextJob(LeftOf(taken, q), jb) = {} <=> Due(q, jb) \ taken = {}
    BY <1>1, NextIsFirst
  <2>3. QED
    BY <2>1, <2>2
<1>3. Turn(After(taken, q, jb), jb) = After(taken, q, jb)
  BY <1>2 DEF Turn
<1>4. taken \subseteq Taken(q, jb)
  BY DEF Taken, Prefix
<1>5. ASSUME NEW j \in Taken(q, jb), j \notin taken
      PROVE  FALSE
  <2>1. j \in Due(q, jb) /\ Cardinality(active) + Cardinality(Before(j, q, jb)) < Concurrency
    BY <1>5 DEF Taken
  <2>2. Cardinality(After(taken, q, jb).active) >= Concurrency
    BY <1>5, <2>1
  <2>3. \A i \in taken : Ahead(i, j, q, jb)
    <3>1. \A i \in taken : Ahead(i, j, q, jb) \/ Ahead(j, i, q, jb)
      BY <1>1, <1>5, <2>1, AheadIsAnOrder DEF Due
    <3>2. QED
      BY <1>5, <2>1, <3>1 DEF Prefix
  <2>4. StartedOf(taken, jb) \in SUBSET Before(j, q, jb)
    BY <1>1, <2>3 DEF Before, StartedOf
  <2>5. /\ Cardinality(active) \in Nat /\ Cardinality(StartedOf(taken, jb)) \in Nat
        /\ Cardinality(After(taken, q, jb).active) =
             Cardinality(active) + Cardinality(StartedOf(taken, jb))
    BY <1>1, RunningAfter
  <2>6. Cardinality(StartedOf(taken, jb)) <= Cardinality(Before(j, q, jb))
    BY <2>1, <2>4, BeforeIsFinite, FS_Subset
  <2>7. Cardinality(Before(j, q, jb)) \in Nat /\ Concurrency \in Nat
    BY <2>1, BeforeIsFinite, QueueAssumption
  <2>8. QED
    BY <2>1, <2>2, <2>5, <2>6, <2>7
<1>6. QED
  BY <1>3, <1>4, <1>5

\* The turns of one round, one after the other.
LEMMA TurnsAre ==
  ASSUME NEW q, NEW jb, Cardinality(Queued(q)) \in Nat
  PROVE  Turns(q, jb) =
           [n \in 0..Cardinality(Queued(q)) |->
              IF n = 0 THEN [queues |-> q, active |-> active, failed |-> failedJobs]
              ELSE Turn(Turns(q, jb)[n - 1], jb)]
<1> DEFINE start == [queues |-> q, active |-> active, failed |-> failedJobs]
           N == Cardinality(Queued(q))
           IsRun(f, m) == f = [n \in 0..m |-> IF n = 0 THEN start ELSE Turn(f[n - 1], jb)]
           missing == {m \in 0..N : ~(\E f : IsRun(f, m))}
<1>1. \E f : IsRun(f, N)
  <2>1. SUFFICES ASSUME missing # {} PROVE FALSE
    <3>1. N \in 0..N
      OBVIOUS
    <3>2. QED
      BY <3>1, <2>1
  <2>2. PICK m \in missing : \A k \in missing : m <= k
    <3>1. missing \in SUBSET Nat
      OBVIOUS
    <3> HIDE DEF missing
    <3>2. QED
      BY <2>1, <3>1, LeastOf
  <2>3. m \in 0..N /\ ~(\E f : IsRun(f, m))
    OBVIOUS
  <2> HIDE DEF missing
  <2>4. m # 0
    <3>1. IsRun([n \in 0..0 |-> start], 0)
      OBVIOUS
    <3> HIDE DEF IsRun
    <3>2. QED
      BY <2>3, <3>1
  <2>5. m - 1 \in 0..N /\ ~(m <= m - 1)
    BY <2>3, <2>4
  <2>6. PICK f : IsRun(f, m - 1)
    <3>1. m - 1 \notin missing
      BY <2>2, <2>5
    <3> HIDE DEF IsRun
    <3>2. QED
      BY <2>5, <3>1 DEF missing
  <2> DEFINE g == [n \in 0..m |-> IF n = m THEN Turn(f[m - 1], jb) ELSE f[n]]
  <2>7. IsRun(g, m)
    <3>1. ASSUME NEW n \in 0..m
          PROVE  g[n] = IF n = 0 THEN start ELSE Turn(g[n - 1], jb)
      <4>1. CASE n = m
        <5>1. n - 1 \in 0..m /\ n - 1 # m /\ n # 0
          BY <2>3, <2>4, <4>1
        <5>2. g[n - 1] = f[m - 1]
          BY <4>1, <5>1
        <5>3. QED
          BY <4>1, <5>1, <5>2
      <4>2. CASE n # m
        <5>1. n \in 0..(m - 1) /\ g[n] = f[n]
          BY <2>3, <4>2
        <5>2. f[n] = IF n = 0 THEN start ELSE Turn(f[n - 1], jb)
          <6> HIDE DEF start
          <6>1. QED
            BY <2>6, <5>1
        <5>3. n # 0 => n - 1 \in 0..m /\ n - 1 # m
          BY <2>3, <5>1
        <5>4. n # 0 => g[n - 1] = f[n - 1]
          BY <5>3
        <5> HIDE DEF g, start
        <5>5. QED
          BY <5>1, <5>2, <5>4
      <4>3. QED
        BY <4>1, <4>2
    <3>2. g = [n \in 0..m |-> g[n]]
      OBVIOUS
    <3> HIDE DEF g, start
    <3>3. QED
      BY <3>1, <3>2
  <2>8. QED
    <3> HIDE DEF IsRun, g
    <3>1. QED
      BY <2>3, <2>7
<1>2. QED
  BY <1>1 DEF Turns

\* What holds of the loop after n turns: it has taken n jobs, or it has gone to
\* sleep before.
TurnsTake(n, q, jb) ==
  \E taken : /\ Prefix(taken, q, jb)
             /\ Turns(q, jb)[n] = After(taken, q, jb)
             /\ \/ Cardinality(taken) = n
                \/ Turn(After(taken, q, jb), jb) = After(taken, q, jb)

LEMMA EveryTurnTakes ==
  ASSUME NEW q, NEW jb, NEW n, Ready(q, jb, n), TypeOK
  PROVE  /\ Cardinality(Queued(q)) \in Nat /\ IsFiniteSet(Queued(q))
         /\ \A m \in 0..Cardinality(Queued(q)) : TurnsTake(m, q, jb)
<1> DEFINE N == Cardinality(Queued(q))
           turns == Turns(q, jb)
           odd == {m \in 0..N : ~TurnsTake(m, q, jb)}
<1>1. Queued(q) \in SUBSET Jobs
  BY DEF Queued, Ready
<1>2. IsFiniteSet(Queued(q)) /\ N \in Nat
  BY <1>1, QueueAssumption, FS_Subset, FS_CardinalityType
<1>3. turns = [m \in 0..N |->
                 IF m = 0 THEN [queues |-> q, active |-> active, failed |-> failedJobs]
                 ELSE Turn(turns[m - 1], jb)]
  BY <1>2, TurnsAre
<1> HIDE DEF turns, N
<1>4. SUFFICES ASSUME odd # {}
               PROVE  FALSE
  BY <1>2 DEF N
<1>5. PICK m \in odd : \A k \in odd : m <= k
  <2>1. odd \in SUBSET Nat
    BY <1>2
  <2> HIDE DEF odd
  <2>2. QED
    BY <1>4, <2>1, LeastOf
<1>6. m \in 0..N /\ ~TurnsTake(m, q, jb)
  OBVIOUS
<1>7. \A taken : Prefix(taken, q, jb) =>
        /\ IsFiniteSet(taken) /\ Cardinality(taken) \in Nat
        /\ \A j \in Due(q, jb) \ taken : Cardinality(taken \cup {j}) = Cardinality(taken) + 1
  <2>1. SUFFICES ASSUME NEW taken, Prefix(taken, q, jb)
                 PROVE  /\ IsFiniteSet(taken) /\ Cardinality(taken) \in Nat
                        /\ \A j \in Due(q, jb) \ taken :
                             Cardinality(taken \cup {j}) = Cardinality(taken) + 1
    OBVIOUS
  <2>2. taken \in SUBSET Queued(q)
    BY <2>1 DEF Prefix, Due
  <2>3. IsFiniteSet(taken) /\ Cardinality(taken) \in Nat
    BY <1>2, <2>2, FS_Subset, FS_CardinalityType
  <2>4. QED
    BY <2>3, FS_AddElement
<1>8. CASE m = 0
  <2>1. turns[m] = [queues |-> q, active |-> active, failed |-> failedJobs]
    BY <1>3, <1>6, <1>8
  <2>2. LeftOf({}, q) = q
    BY DEF LeftOf, Ready
  <2>3. StartedOf({}, jb) = {}
    BY DEF StartedOf
  <2>4. turns[m] = After({}, q, jb)
    <3>1. [queues |-> LeftOf({}, q), active |-> active \cup StartedOf({}, jb),
           failed |-> failedJobs \cup ({} \ StartedOf({}, jb))] = After({}, q, jb)
      BY AfterIs, Zenon
    <3>2. QED
      BY <2>1, <2>2, <2>3, <3>1
  <2>5. Prefix({}, q, jb)
    BY DEF Prefix
  <2>6. Cardinality({}) = m
    BY <1>8, FS_EmptySet
  <2>7. QED
    BY <1>6, <2>4, <2>5, <2>6 DEF TurnsTake, turns
<1>9. CASE m # 0
  <2>1. m - 1 \in 0..N /\ ~(m <= m - 1)
    BY <1>2, <1>6, <1>9
  <2>2. TurnsTake(m - 1, q, jb)
    <3>1. m - 1 \notin odd
      BY <1>5, <2>1
    <3>2. QED
      BY <2>1, <3>1
  <2>3. PICK taken : /\ Prefix(taken, q, jb)
                     /\ turns[m - 1] = After(taken, q, jb)
                     /\ \/ Cardinality(taken) = m - 1
                        \/ Turn(After(taken, q, jb), jb) = After(taken, q, jb)
    BY <2>2 DEF TurnsTake, turns
  <2>4. turns[m] = Turn(After(taken, q, jb), jb)
    BY <1>3, <1>6, <1>9, <2>3
  <2>5. CASE Turn(After(taken, q, jb), jb) = After(taken, q, jb)
    BY <1>6, <2>3, <2>4, <2>5 DEF TurnsTake, turns
  <2>6. CASE /\ Turn(After(taken, q, jb), jb) # After(taken, q, jb)
             /\ Cardinality(taken) = m - 1
    <3>1. Cardinality(After(taken, q, jb).active) < Concurrency /\ taken # Due(q, jb)
      <4>1. /\ ~(Cardinality(After(taken, q, jb).active) >= Concurrency)
            /\ taken # Due(q, jb)
        BY <2>3, <2>6, LoopSleeps
      <4>2. taken \in SUBSET Due(q, jb)
        BY <2>3 DEF Prefix
      <4>3. /\ Cardinality(active) \in Nat /\ Cardinality(StartedOf(taken, jb)) \in Nat
            /\ Cardinality(After(taken, q, jb).active) =
                 Cardinality(active) + Cardinality(StartedOf(taken, jb))
        BY <4>2, RunningAfter
      <4>4. QED
        BY <4>1, <4>3, QueueAssumption
    <3>2. PICK j \in Due(q, jb) \ taken :
            /\ Prefix(taken \cup {j}, q, jb)
            /\ Turn(After(taken, q, jb), jb) = After(taken \cup {j}, q, jb)
      BY <2>3, <3>1, TurnTakesOne
    <3>3. Cardinality(taken \cup {j}) = m
      BY <1>2, <1>6, <1>7, <2>3, <2>6, <3>2
    <3>4. QED
      BY <1>6, <2>4, <3>2, <3>3 DEF TurnsTake, turns
  <2>7. QED
    BY <2>3, <2>5, <2>6
<1>10. QED
  BY <1>8, <1>9

\* One round of the loop, turn by turn, takes the jobs of Taken, and ends.
LEMMA LoopIsTaken ==
  ASSUME NEW q, NEW jb, NEW n, Ready(q, jb, n), TypeOK
  PROVE  LET end == Turns(q, jb)[Cardinality(Queued(q))]
         IN  end = After(Taken(q, jb), q, jb) /\ Turn(end, jb) = end
<1> DEFINE N == Cardinality(Queued(q))
<1>1. N \in Nat /\ IsFiniteSet(Queued(q)) /\ TurnsTake(N, q, jb)
  <2>1. N \in Nat /\ IsFiniteSet(Queued(q)) /\ \A m \in 0..N : TurnsTake(m, q, jb)
    BY EveryTurnTakes
  <2>2. N \in 0..N
    BY <2>1
  <2>3. QED
    BY <2>1, <2>2
<1>2. PICK taken : /\ Prefix(taken, q, jb)
                   /\ Turns(q, jb)[N] = After(taken, q, jb)
                   /\ \/ Cardinality(taken) = N
                      \/ Turn(After(taken, q, jb), jb) = After(taken, q, jb)
  BY <1>1 DEF TurnsTake
<1>3. taken \in SUBSET Due(q, jb) /\ Due(q, jb) \in SUBSET Queued(q)
  BY <1>2 DEF Prefix, Due
<1>4. \/ Cardinality(After(taken, q, jb).active) >= Concurrency
      \/ taken = Due(q, jb)
  <2>1. CASE Cardinality(taken) = N
    <3>1. taken = Queued(q)
      BY <1>1, <1>3, <2>1, FS_Subset
    <3>2. QED
      BY <1>3, <3>1
  <2>2. CASE Turn(After(taken, q, jb), jb) = After(taken, q, jb)
    <3>1. SUFFICES ASSUME ~(Cardinality(After(taken, q, jb).active) >= Concurrency),
                          taken # Due(q, jb)
                   PROVE  FALSE
      OBVIOUS
    <3>2. Cardinality(After(taken, q, jb).active) < Concurrency
      <4>1. /\ Cardinality(active) \in Nat /\ Cardinality(StartedOf(taken, jb)) \in Nat
            /\ Cardinality(After(taken, q, jb).active) =
                 Cardinality(active) + Cardinality(StartedOf(taken, jb))
        BY <1>3, RunningAfter
      <4>2. QED
        BY <3>1, <4>1, QueueAssumption
    <3>3. PICK j \in Due(q, jb) \ taken :
            Turn(After(taken, q, jb), jb) = After(taken \cup {j}, q, jb)
      BY <1>2, <3>1, <3>2, TurnTakesOne
    <3>4. PICK p \in Priorities : j \in q[p]
      BY <3>3 DEF Due, Queued
    <3>5. /\ After(taken, q, jb).queues = LeftOf(taken, q)
          /\ After(taken \cup {j}, q, jb).queues = LeftOf(taken \cup {j}, q)
      BY AfterHas, Zenon
    <3>6. j \in LeftOf(taken, q)[p] /\ j \notin LeftOf(taken \cup {j}, q)[p]
      BY <3>3, <3>4 DEF LeftOf
    <3>7. QED
      BY <2>2, <3>3, <3>5, <3>6
  <2>3. QED
    BY <1>2, <2>1, <2>2
<1>5. /\ Turn(After(taken, q, jb), jb) = After(taken, q, jb)
      /\ taken = Taken(q, jb)
  BY <1>2, <1>4, LoopSleeps
<1>6. QED
  BY <1>2, <1>5

\* Whatever the queues hold, the while loop of processLoop takes exactly the jobs
\* that the model lets one round take, in as many turns as there are jobs or fewer.
THEOREM RoundsAreTheLoop ==
  ASSUME PriorityArgs \subseteq Priorities
  PROVE  Spec => []TakenIsTheLoop
<1>1. IInv => TakenIsTheLoop
  <2>1. ASSUME IInv
        PROVE  TypeOK /\ Ready(queues, job, pushes)
    BY <2>1, InvariantMeans DEF IInv
  <2>2. QED
    BY <2>1, LoopIsTaken DEF TakenIsTheLoop
<1>2. QED
  BY Inductive, <1>1, PTL
=============================================================================
