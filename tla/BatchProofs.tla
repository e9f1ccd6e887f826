----------------------------- MODULE BatchProofs -----------------------------
(***************************************************************************)
(* Proofs about BullQueue and BatchOperations, for every set of jobs, of   *)
(* calls and of links, every concurrency and every number of failures and  *)
(* crashes: BatchInv is an invariant, a batch changes links by right only, *)
(* what is said of a job at its end is true of its link, and each of the   *)
(* two queues keeps the promise of JobPromise.                             *)
(*                                                                         *)
(* Nearly all of the invariant is about one job (CopyInv and LockInv), and *)
(* nearly every action changes one job: OneJobMoves is what such an action *)
(* has to show.  That the two queues never run one job both rests on what  *)
(* they know of each other: nothing, but the one has no handlers whenever  *)
(* the other is in use (OneQueueRuns).                                     *)
(***************************************************************************)
EXTENDS BatchOperations, FiniteSetTheorems, TLAPS

-----------------------------------------------------------------------------
(* Calls and copies *)

Live == {"waiting", "active", "locked"}

\* None is nothing that is stored.
LEMMA Stored ==
  /\ \A x \in Copy : x # None
  /\ \A x \in Calls : x # None
  /\ \A q \in QueueNames : q # None
  /\ \A l \in Links : l # None
  /\ \A x \in Request : x # None
  /\ \A x \in Synchronous : x # None
BY BullAssumption, NoneAssumption, BatchAssumption, BatchNoneAssumption

\* What a caller of addJob may ask for.
LEMMA CallHas ==
  ASSUME NEW c \in Calls
  PROVE  /\ c.type \in Types /\ c.attempts \in {2, 3}
         /\ c.priority \in Arrays \cup {"3", "5"}
         /\ QueueName(c.type) \in QueueNames /\ QueueName(c.type) # "queues"
         /\ c # None
<1>1. c \in AppCalls
  BY BullAssumption
<1>2. c.attempts \in {2, 3} /\ c.priority \in Arrays \cup {"3", "5"}
  BY <1>1 DEF AppCalls, Arrays
<1>3. c.type \in Types
  BY BullAssumption
<1>4. c.type # "queues"
  BY <1>1 DEF AppCalls
<1>5. QueueName(c.type) \in QueueNames
  BY <1>3 DEF QueueNames
<1>6. QueueName(c.type) # "queues"
  BY <1>4 DEF QueueName
<1>7. QED
  BY <1>2, <1>3, <1>5, <1>6, Stored

LEMMA NewCopyIs ==
  ASSUME NEW p \in Arrays \cup {"3", "5"}
  PROVE  /\ NewCopy(p) \in Copy /\ NewCopy(p).state = "waiting" /\ NewCopy(p).made = 0
         /\ NewCopy(p).stalls = 0 /\ NewCopy(p).priority = p
BY DEF NewCopy, Copy, States

\* What becomes of a copy.
LEMMA CopyMoves ==
  ASSUME NEW b \in Copy, NEW s \in States
  PROVE  /\ LET x == [b EXCEPT !.state = s]
            IN  x \in Copy /\ x.state = s /\ x.made = b.made /\ x.stalls = b.stalls /\ x.priority = b.priority
         /\ LET x == [b EXCEPT !.state = s, !.made = b.made + 1]
            IN  x \in Copy /\ x.state = s /\ x.made = b.made + 1 /\ x.stalls = b.stalls /\ x.priority = b.priority
         /\ LET x == [b EXCEPT !.state = s, !.stalls = b.stalls + 1]
            IN  x \in Copy /\ x.state = s /\ x.made = b.made /\ x.stalls = b.stalls + 1 /\ x.priority = b.priority
<1>1. /\ b.made \in Nat /\ b.stalls \in Nat /\ b.priority \in Arrays \cup {"3", "5"}
      /\ b.made + 1 \in Nat /\ b.stalls + 1 \in Nat
  BY DEF Copy
<1>2. LET x == [b EXCEPT !.state = s]
      IN  x \in Copy /\ x.state = s /\ x.made = b.made /\ x.stalls = b.stalls /\ x.priority = b.priority
  BY <1>1 DEF Copy
<1>3. LET x == [b EXCEPT !.state = s, !.made = b.made + 1]
      IN  x \in Copy /\ x.state = s /\ x.made = b.made + 1 /\ x.stalls = b.stalls /\ x.priority = b.priority
  BY <1>1 DEF Copy
<1>4. LET x == [b EXCEPT !.state = s, !.stalls = b.stalls + 1]
      IN  x \in Copy /\ x.state = s /\ x.made = b.made /\ x.stalls = b.stalls + 1 /\ x.priority = b.priority
  BY <1>1 DEF Copy
<1>5. QED
  BY <1>2, <1>3, <1>4

-----------------------------------------------------------------------------
(* The invariant of the queue, one job at a time *)

\* The call c of a job, its copies b in Redis and m in memory, and how often it ran.
CopyInv(c, b, m, r) ==
  /\ c = None => b = None /\ m = None /\ r = 0
  /\ b # None =>
       /\ b.made <= c.attempts
       /\ b.state \in Live => b.made < c.attempts
       /\ r <= b.made + b.stalls + (IF b.state \in {"active", "locked"} THEN 1 ELSE 0)
  /\ m # None =>
       /\ m.priority \in Arrays /\ m.state # "locked"
       /\ m.state \in {"waiting", "active"} => m.made < c.attempts

\* With and without BullMQ, and with the handlers mh of the in-memory queue.
QueueInv(b, m, enabled, mh) ==
  IF enabled THEN m # None => m.made = 0 /\ m.state \in {"waiting", "failed"}
  ELSE b = None /\ (m # None /\ (m.made > 0 \/ m.state = "active") => mh = Types)

\* A job in Redis, with the workers w, of which cl are closed, after f failures and
\* n crashes.
LockInv(c, b, w, cl, f, n) ==
  b # None =>
    /\ n = 0 => b.state # "locked"
    /\ b.state = "active" =>
         QueueName(c.type) \in w /\ (f = 0 => QueueName(c.type) \notin cl)

JobsInv ==
  \A j \in Jobs :
    /\ CopyInv(call[j], bull[j], mem[j], ran[j])
    /\ QueueInv(bull[j], mem[j], setting.enabled, memHandlers)
    /\ LockInv(call[j], bull[j], workers, closed, faults, crashes)

ProcessInv ==
  /\ memHandlers \in {{}, Types}
  /\ setting.enabled => memHandlers = {}
  /\ jobHandlers = {} => workers = {} /\ closed = {}
  /\ "queues" \in closed => workers \subseteq closed

\* The invariant in these terms.
LEMMA BullMeans == BullInv <=> TypeOK /\ ConcurrencyLimit /\ ProcessInv /\ JobsInv
<1>1. TypeOK => (CopiesAreOfCalls /\ TriesBounded <=>
        \A j \in Jobs : CopyInv(call[j], bull[j], mem[j], ran[j]))
  BY DEF TypeOK, CopiesAreOfCalls, TriesBounded, CopyInv, Live
<1>2. TypeOK => (OneQueueRuns <=>
        /\ memHandlers \in {{}, Types} /\ (setting.enabled => memHandlers = {})
        /\ \A j \in Jobs : QueueInv(bull[j], mem[j], setting.enabled, memHandlers))
  BY DEF OneQueueRuns, QueueInv
<1>3. WorkersRunTheirs <=>
        /\ jobHandlers = {} => workers = {} /\ closed = {}
        /\ "queues" \in closed => workers \subseteq closed
        /\ \A j \in Jobs : LockInv(call[j], bull[j], workers, closed, faults, crashes)
  BY DEF WorkersRunTheirs, LockInv
<1>4. WorkersRunTheirs => DrainedBeforeClose
  BY DEF WorkersRunTheirs, DrainedBeforeClose
<1>5. TypeOK /\ OneQueueRuns => NoJobRunsInBothQueues
  BY DEF TypeOK, Copy, OneQueueRuns, NoJobRunsInBothQueues
<1>6. QED
  BY <1>1, <1>2, <1>3, <1>4, <1>5 DEF BullInv, JobsInv, ProcessInv

\* And after a step.
LEMMA BullMeansNext == BullInv' <=> TypeOK' /\ ConcurrencyLimit' /\ ProcessInv' /\ JobsInv'
<1>1. TypeOK' => (CopiesAreOfCalls' /\ TriesBounded' <=>
        \A j \in Jobs : CopyInv(call'[j], bull'[j], mem'[j], ran'[j]))
  BY DEF TypeOK, CopiesAreOfCalls, TriesBounded, CopyInv, Live
<1>2. TypeOK' => (OneQueueRuns' <=>
        /\ memHandlers' \in {{}, Types} /\ (setting'.enabled => memHandlers' = {})
        /\ \A j \in Jobs : QueueInv(bull'[j], mem'[j], setting'.enabled, memHandlers'))
  BY DEF OneQueueRuns, QueueInv
<1>3. WorkersRunTheirs' <=>
        /\ jobHandlers' = {} => workers' = {} /\ closed' = {}
        /\ "queues" \in closed' => workers' \subseteq closed'
        /\ \A j \in Jobs : LockInv(call'[j], bull'[j], workers', closed', faults', crashes')
  BY DEF WorkersRunTheirs, LockInv
<1>4. WorkersRunTheirs' => DrainedBeforeClose'
  BY DEF WorkersRunTheirs, DrainedBeforeClose
<1>5. TypeOK' /\ OneQueueRuns' => NoJobRunsInBothQueues'
  BY DEF TypeOK, Copy, OneQueueRuns, NoJobRunsInBothQueues
<1>6. QED
  BY <1>1, <1>2, <1>3, <1>4, <1>5 DEF BullInv, JobsInv, ProcessInv

\* No job begins to run: those that run are no more than before.
LEMMA NoMoreRun ==
  ASSUME ConcurrencyLimit, TypeOK,
         \A i \in Jobs : bull'[i] # None /\ bull'[i].state = "active" =>
           /\ bull[i] # None /\ bull[i].state = "active"
           /\ QueueName(call'[i].type) = QueueName(call[i].type)
  PROVE  ConcurrencyLimit'
<1> SUFFICES ASSUME NEW q \in QueueNames
             PROVE  Cardinality(InQueue(q, "active")') <= Concurrency
  BY DEF ConcurrencyLimit
<1>1. InQueue(q, "active")' \subseteq InQueue(q, "active") /\ InQueue(q, "active") \subseteq Jobs
  BY DEF InQueue
<1>2. IsFiniteSet(InQueue(q, "active")) /\ IsFiniteSet(InQueue(q, "active")')
  BY <1>1, BullAssumption, FS_Subset
<1>3. Cardinality(InQueue(q, "active")') <= Cardinality(InQueue(q, "active"))
  BY <1>1, <1>2, FS_Subset
<1>4. Cardinality(InQueue(q, "active")') \in Nat /\ Cardinality(InQueue(q, "active")) \in Nat
  BY <1>2, FS_CardinalityType
<1>5. QED
  BY <1>3, <1>4, BullAssumption DEF ConcurrencyLimit

\* An action that moves one job, and lets something fail at most.
LEMMA OneJobMoves ==
  ASSUME BullInv, NEW j \in Jobs, NEW c, NEW b, NEW m, NEW r,
         c \in Calls \cup {None}, b \in Copy \cup {None}, m \in Copy \cup {None}, r \in Nat,
         call' = [call EXCEPT ![j] = c], bull' = [bull EXCEPT ![j] = b],
         mem' = [mem EXCEPT ![j] = m], ran' = [ran EXCEPT ![j] = r],
         CopyInv(c, b, m, r), QueueInv(b, m, setting.enabled, memHandlers),
         LockInv(c, b, workers, closed, faults, crashes),
         UNCHANGED <<setting, jobHandlers, workers, memHandlers, closing, closed, crashes>>,
         queues' \subseteq QueueNames, fallback' \in BOOLEAN,
         faults' \in 0 .. setting.faults, faults' = 0 => faults = 0
  PROVE  TypeOK' /\ ProcessInv' /\ JobsInv'
<1>1. TypeOK /\ ProcessInv /\ JobsInv
  BY BullMeans
<1>2. /\ call' = [i \in Jobs |-> IF i = j THEN c ELSE call[i]]
      /\ bull' = [i \in Jobs |-> IF i = j THEN b ELSE bull[i]]
      /\ mem' = [i \in Jobs |-> IF i = j THEN m ELSE mem[i]]
      /\ ran' = [i \in Jobs |-> IF i = j THEN r ELSE ran[i]]
  BY <1>1 DEF TypeOK
<1>3. TypeOK'
  <2>1. /\ call' \in [Jobs -> Calls \cup {None}] /\ bull' \in [Jobs -> Copy \cup {None}]
        /\ mem' \in [Jobs -> Copy \cup {None}] /\ ran' \in [Jobs -> Nat]
    BY <1>1, <1>2 DEF TypeOK
  <2>2. \A i \in Jobs : mem'[i] # None => mem'[i].priority \in Arrays
    BY <1>1, <1>2 DEF TypeOK, CopyInv
  <2>3. QED
    BY <1>1, <2>1, <2>2 DEF TypeOK
<1>4. ProcessInv'
  BY <1>1 DEF ProcessInv
<1>5. JobsInv'
  <2> SUFFICES ASSUME NEW i \in Jobs
               PROVE  /\ CopyInv(call'[i], bull'[i], mem'[i], ran'[i])
                      /\ QueueInv(bull'[i], mem'[i], setting'.enabled, memHandlers')
                      /\ LockInv(call'[i], bull'[i], workers', closed', faults', crashes')
    BY DEF JobsInv
  <2>1. LockInv(c, b, workers', closed', faults', crashes')
    BY DEF LockInv
  <2>2. i # j => LockInv(call[i], bull[i], workers', closed', faults', crashes')
    BY <1>1 DEF LockInv, JobsInv
  <2>3. QED
    BY <1>1, <1>2, <2>1, <2>2 DEF JobsInv
<1>6. QED
  BY <1>3, <1>4, <1>5

\* The same where the limit is kept because nothing begins to run in Redis.
LEMMA OneJobRests ==
  ASSUME BullInv, NEW j \in Jobs, NEW c, NEW b, NEW m, NEW r,
         c \in Calls \cup {None}, b \in Copy \cup {None}, m \in Copy \cup {None}, r \in Nat,
         call' = [call EXCEPT ![j] = c], bull' = [bull EXCEPT ![j] = b],
         mem' = [mem EXCEPT ![j] = m], ran' = [ran EXCEPT ![j] = r],
         CopyInv(c, b, m, r), QueueInv(b, m, setting.enabled, memHandlers),
         LockInv(c, b, workers, closed, faults, crashes),
         b # None /\ b.state = "active" => b = bull[j] /\ c = call[j],
         UNCHANGED <<setting, jobHandlers, workers, memHandlers, closing, closed, crashes>>,
         queues' \subseteq QueueNames, fallback' \in BOOLEAN,
         faults' \in 0 .. setting.faults, faults' = 0 => faults = 0
  PROVE  BullInv'
<1>1. TypeOK /\ ConcurrencyLimit
  BY BullMeans
<1>2. /\ call' = [i \in Jobs |-> IF i = j THEN c ELSE call[i]]
      /\ bull' = [i \in Jobs |-> IF i = j THEN b ELSE bull[i]]
  BY <1>1 DEF TypeOK
<1>3. \A i \in Jobs : bull'[i] # None /\ bull'[i].state = "active" =>
        /\ bull[i] # None /\ bull[i].state = "active"
        /\ QueueName(call'[i].type) = QueueName(call[i].type)
  BY <1>2
<1>4. ConcurrencyLimit'
  BY <1>1, <1>3, NoMoreRun
<1>5. TypeOK' /\ ProcessInv' /\ JobsInv'
  BY OneJobMoves
<1>6. QED
  BY <1>4, <1>5, BullMeansNext

\* What is known of one job.
LEMMA JobHas ==
  ASSUME BullInv, NEW j \in Jobs
  PROVE  /\ call[j] \in Calls \cup {None} /\ bull[j] \in Copy \cup {None}
         /\ mem[j] \in Copy \cup {None} /\ ran[j] \in Nat
         /\ CopyInv(call[j], bull[j], mem[j], ran[j])
         /\ QueueInv(bull[j], mem[j], setting.enabled, memHandlers)
         /\ LockInv(call[j], bull[j], workers, closed, faults, crashes)
         /\ bull[j] # None \/ mem[j] # None => call[j] \in Calls
         /\ call = [call EXCEPT ![j] = call[j]] /\ bull = [bull EXCEPT ![j] = bull[j]]
         /\ mem = [mem EXCEPT ![j] = mem[j]] /\ ran = [ran EXCEPT ![j] = ran[j]]
         /\ faults \in 0 .. setting.faults /\ fallback \in BOOLEAN /\ queues \subseteq QueueNames
         /\ setting.faults \in Nat /\ setting.enabled \in BOOLEAN
<1>1. TypeOK /\ JobsInv
  BY BullMeans
<1>2. setting.faults \in Nat /\ setting.enabled \in BOOLEAN
  BY <1>1, BullAssumption DEF TypeOK
<1>3. CopyInv(call[j], bull[j], mem[j], ran[j])
  BY <1>1 DEF JobsInv
<1>4. bull[j] # None \/ mem[j] # None => call[j] \in Calls
  BY <1>1, <1>3 DEF TypeOK, CopyInv
<1>5. QED
  BY <1>1, <1>2, <1>3, <1>4 DEF TypeOK, JobsInv

-----------------------------------------------------------------------------
(* addJob *)

\* A job that has just been added keeps the invariant, wherever it was put.
LEMMA NewJob ==
  ASSUME BullInv, NEW j \in Jobs, NEW c \in Calls, call[j] = None,
         NEW b, b = None \/ (setting.enabled /\ b = NewCopy(c.priority)),
         NEW p \in Arrays, NEW m, m = None \/ m = NewCopy(p)
  PROVE  /\ c \in Calls \cup {None} /\ b \in Copy \cup {None} /\ m \in Copy \cup {None}
         /\ CopyInv(c, b, m, ran[j]) /\ QueueInv(b, m, setting.enabled, memHandlers)
         /\ LockInv(c, b, workers, closed, faults, crashes)
         /\ ~ (b # None /\ b.state = "active")
         /\ ran[j] = 0 /\ bull[j] = None /\ mem[j] = None
<1>1. ran[j] = 0 /\ bull[j] = None /\ mem[j] = None
  BY JobHas DEF CopyInv
<1>2. c.attempts \in {2, 3} /\ c.priority \in Arrays \cup {"3", "5"} /\ c # None
  BY CallHas
<1>3. b # None => b \in Copy /\ b.state = "waiting" /\ b.made = 0 /\ b.stalls = 0
  BY <1>2, NewCopyIs
<1>4. m # None => m \in Copy /\ m.state = "waiting" /\ m.made = 0 /\ m.priority \in Arrays
  BY NewCopyIs
<1>5. CopyInv(c, b, m, ran[j])
  BY <1>1, <1>2, <1>3, <1>4 DEF CopyInv
<1>6. QueueInv(b, m, setting.enabled, memHandlers)
  BY <1>3, <1>4 DEF QueueInv
<1>7. LockInv(c, b, workers, closed, faults, crashes)
  BY <1>3 DEF LockInv
<1>8. QED
  BY <1>1, <1>3, <1>4, <1>5, <1>6, <1>7

LEMMA AddToMemoryKeeps ==
  ASSUME BullInv, NEW j \in Jobs, NEW c \in Calls, AddToMemory(j, c)
  PROVE  BullInv'
<1> DEFINE p == MemoryPriority(c.priority)
           m == NewCopy(p)
<1>1. p \in Arrays
  BY DEF MemoryPriority, Arrays
<1>2. /\ call[j] = None /\ call' = [call EXCEPT ![j] = c] /\ mem' = [mem EXCEPT ![j] = m]
      /\ UNCHANGED <<bull, ran, faults, queues>> /\ fallback' = TRUE
      /\ UNCHANGED <<setting, jobHandlers, workers, memHandlers, closing, closed, crashes>>
  BY DEF AddToMemory, Adding
<1> HIDE DEF p
<1> DEFINE b == None
<1>3. /\ c \in Calls \cup {None} /\ b \in Copy \cup {None} /\ m \in Copy \cup {None}
      /\ CopyInv(c, b, m, ran[j]) /\ QueueInv(b, m, setting.enabled, memHandlers)
      /\ LockInv(c, b, workers, closed, faults, crashes) /\ bull[j] = None
  BY <1>1, <1>2, NewJob
<1> HIDE DEF m, b
<1>4. bull' = [bull EXCEPT ![j] = b] /\ ran' = [ran EXCEPT ![j] = ran[j]]
  BY <1>2, <1>3, JobHas DEF b
<1>5. QED
  BY <1>2, <1>3, <1>4, JobHas, OneJobRests DEF b

LEMMA AddToRedisKeeps ==
  ASSUME BullInv, NEW j \in Jobs, NEW c \in Calls, AddToRedis(j, c)
  PROVE  BullInv'
<1> DEFINE b == NewCopy(c.priority)
           m == None
<1>1. /\ call[j] = None /\ call' = [call EXCEPT ![j] = c] /\ bull' = [bull EXCEPT ![j] = b]
      /\ UNCHANGED <<mem, ran, faults, fallback>> /\ queues' = queues \cup {QueueName(c.type)}
      /\ UNCHANGED <<setting, jobHandlers, workers, memHandlers, closing, closed, crashes>>
      /\ setting.enabled
  BY DEF AddToRedis, Adding
<1>2. /\ c \in Calls \cup {None} /\ b \in Copy \cup {None} /\ m \in Copy \cup {None}
      /\ CopyInv(c, b, m, ran[j]) /\ QueueInv(b, m, setting.enabled, memHandlers)
      /\ LockInv(c, b, workers, closed, faults, crashes) /\ mem[j] = None
      /\ ~ (b # None /\ b.state = "active")
  <2> DEFINE p == "high"
  <2>1. p \in Arrays
    BY DEF Arrays
  <2> HIDE DEF p, b
  <2>2. b = None \/ (setting.enabled /\ b = NewCopy(c.priority))
    BY <1>1 DEF b
  <2>3. QED
    BY <1>1, <2>1, <2>2, NewJob
<1> HIDE DEF m, b
<1>3. mem' = [mem EXCEPT ![j] = m] /\ ran' = [ran EXCEPT ![j] = ran[j]]
  BY <1>1, <1>2, JobHas DEF m
<1>4. queues' \subseteq QueueNames
  BY <1>1, JobHas, CallHas
<1>5. QED
  BY <1>1, <1>2, <1>3, <1>4, JobHas, OneJobRests

LEMMA AddFailsKeeps ==
  ASSUME BullInv, NEW j \in Jobs, NEW c \in Calls, NEW stored \in BOOLEAN, AddFails(j, c, stored)
  PROVE  BullInv'
<1> DEFINE b == IF stored THEN NewCopy(c.priority) ELSE None
           p == RawPriority(c.priority)
           m == NewCopy(p)
<1>1. p \in Arrays
  BY DEF RawPriority, Arrays
<1>2. /\ call[j] = None /\ call' = [call EXCEPT ![j] = c] /\ mem' = [mem EXCEPT ![j] = m]
      /\ UNCHANGED ran /\ fallback' = TRUE /\ setting.enabled
      /\ UNCHANGED <<setting, jobHandlers, workers, memHandlers, closing, closed, crashes>>
      /\ queues' = queues \/ queues' = queues \cup {QueueName(c.type)}
      /\ bull' = IF stored THEN [bull EXCEPT ![j] = NewCopy(c.priority)] ELSE bull
  BY DEF AddFails, Adding
<1>3. faults' = faults \/ (faults < setting.faults /\ faults' = faults + 1)
  BY DEF AddFails
<1> HIDE DEF p
<1>4. /\ c \in Calls \cup {None} /\ b \in Copy \cup {None} /\ m \in Copy \cup {None}
      /\ CopyInv(c, b, m, ran[j]) /\ QueueInv(b, m, setting.enabled, memHandlers)
      /\ LockInv(c, b, workers, closed, faults, crashes) /\ bull[j] = None
      /\ ~ (b # None /\ b.state = "active")
  BY <1>1, <1>2, NewJob
<1>5. bull' = [bull EXCEPT ![j] = b] /\ ran' = [ran EXCEPT ![j] = ran[j]]
  BY <1>2, <1>4, JobHas
<1> HIDE DEF m, b
<1>6. queues' \subseteq QueueNames
  <2>1. queues \subseteq QueueNames
    BY JobHas
  <2>2. QueueName(c.type) \in QueueNames
    BY CallHas
  <2>3. QED
    BY <1>2, <2>1, <2>2
<1>7. faults' \in 0 .. setting.faults /\ (faults' = 0 => faults = 0)
  BY <1>3, JobHas
<1>8. ran[j] \in Nat /\ fallback' \in BOOLEAN
  BY <1>2, JobHas
<1>9. QED
  BY <1>2, <1>4, <1>5, <1>6, <1>7, <1>8, OneJobRests

-----------------------------------------------------------------------------
(* The workers in Redis *)

\* A copy in Redis is replaced by another one, and does not begin to run.
LEMMA BullRests ==
  ASSUME BullInv, NEW j \in Jobs, bull[j] # None, NEW b \in Copy,
         b.state # "active", b.state = "locked" => crashes # 0,
         b.made <= call[j].attempts, b.state \in Live => b.made < call[j].attempts,
         ran[j] <= b.made + b.stalls + (IF b.state \in {"active", "locked"} THEN 1 ELSE 0),
         SetBull(j, b), UNCHANGED ran
  PROVE  BullInv'
<1>1. /\ bull' = [bull EXCEPT ![j] = b]
      /\ UNCHANGED <<call, setting, jobHandlers, workers, queues, fallback, memHandlers, mem,
                     closing, closed, ran, faults, crashes>>
  BY DEF SetBull, localVars
<1> DEFINE c == call[j]
           m == mem[j]
           r == ran[j]
<1>2. /\ c \in Calls /\ m \in Copy \cup {None} /\ r \in Nat /\ c # None /\ b # None
      /\ CopyInv(c, bull[j], m, r) /\ QueueInv(bull[j], m, setting.enabled, memHandlers)
  BY JobHas, Stored
<1>3. call' = [call EXCEPT ![j] = c] /\ mem' = [mem EXCEPT ![j] = m] /\ ran' = [ran EXCEPT ![j] = r]
  BY <1>1, JobHas
<1>4. faults' \in 0 .. setting.faults /\ fallback' \in BOOLEAN /\ queues' \subseteq QueueNames
  BY <1>1, JobHas
<1> HIDE DEF c, m, r
<1>5. CopyInv(c, b, m, r)
  BY <1>2 DEF CopyInv, c, r
<1>6. QueueInv(b, m, setting.enabled, memHandlers)
  BY <1>2 DEF QueueInv
<1>7. LockInv(c, b, workers, closed, faults, crashes)
  BY DEF LockInv
<1>8. QED
  BY <1>1, <1>2, <1>3, <1>4, <1>5, <1>6, <1>7, OneJobRests

\* What is known of a copy in Redis.
LEMMA BullHas ==
  ASSUME BullInv, NEW j \in Jobs, bull[j] # None
  PROVE  /\ bull[j] \in Copy /\ call[j] \in Calls /\ call[j].attempts \in {2, 3}
         /\ bull[j].made \in Nat /\ bull[j].stalls \in Nat /\ ran[j] \in Nat /\ setting.enabled
         /\ bull[j].made <= call[j].attempts
         /\ bull[j].state \in Live => bull[j].made < call[j].attempts
         /\ ran[j] <= bull[j].made + bull[j].stalls +
              (IF bull[j].state \in {"active", "locked"} THEN 1 ELSE 0)
<1>1. bull[j] \in Copy /\ call[j] \in Calls /\ ran[j] \in Nat
  BY JobHas
<1>2. CopyInv(call[j], bull[j], mem[j], ran[j]) /\ QueueInv(bull[j], mem[j], setting.enabled, memHandlers)
  BY JobHas
<1>3. bull[j].made \in Nat /\ bull[j].stalls \in Nat
  BY <1>1 DEF Copy
<1>4. call[j].attempts \in {2, 3}
  BY <1>1, CallHas
<1>5. setting.enabled
  BY <1>2 DEF QueueInv
<1>6. QED
  BY <1>1, <1>2, <1>3, <1>4, <1>5 DEF CopyInv

LEMMA CompleteKeeps ==
  ASSUME BullInv, NEW j \in Jobs, Complete(j)
  PROVE  BullInv'
<1> DEFINE b == [bull[j] EXCEPT !.state = "completed", !.made = bull[j].made + 1]
<1>1. bull[j] # None /\ bull[j].state = "active" /\ SetBull(j, b) /\ UNCHANGED ran
  BY DEF Complete
<1>2. "completed" \in States
  BY DEF States
<1>3. b \in Copy /\ b.state = "completed" /\ b.made = bull[j].made + 1 /\ b.stalls = bull[j].stalls
  BY <1>1, <1>2, BullHas, CopyMoves
<1> HIDE DEF b
<1>4. /\ b.made <= call[j].attempts /\ b.state \notin Live
      /\ ran[j] <= b.made + b.stalls + (IF b.state \in {"active", "locked"} THEN 1 ELSE 0)
  BY <1>1, <1>3, BullHas DEF Live
<1>5. QED
  BY <1>1, <1>3, <1>4, BullRests

LEMMA FailKeeps ==
  ASSUME BullInv, NEW j \in Jobs, Fail(j)
  PROVE  BullInv'
<1> DEFINE made == bull[j].made + 1
           st == IF made < call[j].attempts THEN "waiting" ELSE "failed"
           b == [bull[j] EXCEPT !.state = st, !.made = bull[j].made + 1]
<1>1. bull[j] # None /\ bull[j].state = "active" /\ SetBull(j, b) /\ UNCHANGED ran
  BY DEF Fail
<1>2. st \in States
  BY DEF States
<1>3. b \in Copy /\ b.state = st /\ b.made = bull[j].made + 1 /\ b.stalls = bull[j].stalls
  <2> HIDE DEF st
  <2>1. QED
    BY <1>1, <1>2, BullHas, CopyMoves
<1> HIDE DEF b
<1>4. /\ b.made <= call[j].attempts
      /\ b.state \in Live => b.made < call[j].attempts
      /\ b.state \notin {"active", "locked"}
      /\ ran[j] <= b.made + b.stalls + (IF b.state \in {"active", "locked"} THEN 1 ELSE 0)
  BY <1>1, <1>3, BullHas DEF Live
<1> HIDE DEF st, made
<1>5. b.state # "active" /\ b.state # "locked"
  BY <1>4
<1>6. QED
  BY <1>1, <1>3, <1>4, <1>5, BullRests

LEMMA StallKeeps ==
  ASSUME BullInv, NEW j \in Jobs, Stall(j)
  PROVE  BullInv'
<1> DEFINE st == IF bull[j].stalls < MaxStalled THEN "waiting" ELSE "failed"
           b == [bull[j] EXCEPT !.state = st, !.stalls = bull[j].stalls + 1]
<1>1. bull[j] # None /\ bull[j].state = "locked" /\ SetBull(j, b) /\ UNCHANGED ran
  BY DEF Stall
<1>2. st \in States /\ st \notin {"active", "locked"}
  BY DEF States
<1> HIDE DEF st
<1>3. b \in Copy /\ b.state = st /\ b.made = bull[j].made /\ b.stalls = bull[j].stalls + 1
  BY <1>1, <1>2, BullHas, CopyMoves
<1> HIDE DEF b
<1>4. /\ b.made < call[j].attempts
      /\ ran[j] <= b.made + b.stalls + (IF b.state \in {"active", "locked"} THEN 1 ELSE 0)
  BY <1>1, <1>2, <1>3, BullHas DEF Live
<1>5. /\ b.state # "active" /\ b.state # "locked" /\ b.made <= call[j].attempts
      /\ b.state \in Live => b.made < call[j].attempts
  BY <1>1, <1>2, <1>3, <1>4, BullHas
<1>6. QED
  BY <1>1, <1>3, <1>4, <1>5, BullRests

\* A worker takes a job only below its concurrency.
LEMMA StartKeeps ==
  ASSUME BullInv, NEW j \in Jobs, Start(j)
  PROVE  BullInv'
<1> DEFINE b == [bull[j] EXCEPT !.state = "active"]
           c == call[j]
           m == mem[j]
           r == ran[j] + 1
           q == QueueName(call[j].type)
<1>1. /\ bull[j] # None /\ bull[j].state = "waiting"
      /\ q \in workers /\ q \notin closed
      /\ Cardinality(InQueue(q, "active")) < Concurrency * 1
      /\ bull' = [bull EXCEPT ![j] = b] /\ ran' = [ran EXCEPT ![j] = r]
      /\ UNCHANGED <<call, setting, jobHandlers, workers, queues, fallback, memHandlers, mem,
                     closing, closed, faults, crashes>>
  BY DEF Start, SetBull, localVars, WorkersOf
<1>2. "active" \in States
  BY DEF States
<1>3. b \in Copy /\ b.state = "active" /\ b.made = bull[j].made /\ b.stalls = bull[j].stalls
  BY <1>1, <1>2, BullHas, CopyMoves
<1>4. TypeOK /\ ConcurrencyLimit
  BY BullMeans
<1> HIDE DEF b
<1>5. ConcurrencyLimit'
  <2> SUFFICES ASSUME NEW p \in QueueNames
               PROVE  Cardinality(InQueue(p, "active")') <= Concurrency
    BY DEF ConcurrencyLimit
  <2>1. InQueue(p, "active") \subseteq Jobs /\ InQueue(p, "active")' \subseteq Jobs
    BY DEF InQueue
  <2>2. /\ IsFiniteSet(InQueue(p, "active")) /\ IsFiniteSet(InQueue(p, "active")')
        /\ Cardinality(InQueue(p, "active")) \in Nat
    BY <2>1, BullAssumption, FS_Subset, FS_CardinalityType
  <2>3. bull' = [i \in Jobs |-> IF i = j THEN b ELSE bull[i]]
    BY <1>1, <1>4 DEF TypeOK
  <2>4. CASE p = q
    <3>1. InQueue(p, "active")' \subseteq InQueue(p, "active") \cup {j} /\ j \notin InQueue(p, "active")
      BY <1>1, <2>3 DEF InQueue
    <3>2. /\ IsFiniteSet(InQueue(p, "active") \cup {j})
          /\ Cardinality(InQueue(p, "active") \cup {j}) = Cardinality(InQueue(p, "active")) + 1
      BY <2>2, <3>1, FS_AddElement
    <3>3. /\ Cardinality(InQueue(p, "active")') \in Nat
          /\ Cardinality(InQueue(p, "active")') <= Cardinality(InQueue(p, "active") \cup {j})
      BY <2>2, <3>1, <3>2, FS_Subset, FS_CardinalityType
    <3>4. QED
      BY <1>1, <2>2, <2>4, <3>2, <3>3, BullAssumption
  <2>5. CASE p # q
    <3>1. InQueue(p, "active")' \subseteq InQueue(p, "active")
      BY <1>1, <2>3, <2>5 DEF InQueue
    <3>2. /\ Cardinality(InQueue(p, "active")') \in Nat
          /\ Cardinality(InQueue(p, "active")') <= Cardinality(InQueue(p, "active"))
      BY <2>2, <3>1, FS_Subset, FS_CardinalityType
    <3>3. QED
      BY <1>4, <2>2, <3>2, BullAssumption DEF ConcurrencyLimit
  <2>6. QED
    BY <2>4, <2>5
<1>6. /\ c \in Calls /\ m \in Copy \cup {None} /\ r \in Nat /\ c # None /\ b # None
      /\ CopyInv(c, bull[j], m, ran[j]) /\ QueueInv(bull[j], m, setting.enabled, memHandlers)
  <2>1. c \in Calls /\ ran[j] \in Nat
    BY <1>1, BullHas
  <2>2. m \in Copy \cup {None} /\ CopyInv(c, bull[j], m, ran[j])
    BY JobHas
  <2>3. QueueInv(bull[j], m, setting.enabled, memHandlers)
    BY JobHas
  <2>4. c # None /\ b # None
    BY <1>3, <2>1, Stored
  <2>5. QED
    BY <2>1, <2>2, <2>3, <2>4
<1>7. call' = [call EXCEPT ![j] = c] /\ mem' = [mem EXCEPT ![j] = m]
  BY <1>1, JobHas
<1>8. faults' \in 0 .. setting.faults /\ fallback' \in BOOLEAN /\ queues' \subseteq QueueNames
  BY <1>1, JobHas
<1>9. r <= b.made + b.stalls + 1 /\ b.made < c.attempts /\ b.made <= c.attempts
  BY <1>1, <1>3, BullHas DEF Live
<1>10. LockInv(c, b, workers, closed, faults, crashes)
  BY <1>1, <1>3 DEF LockInv
<1> HIDE DEF c, m, r
<1>11. CopyInv(c, b, m, r)
  BY <1>3, <1>6, <1>9 DEF CopyInv
<1>12. QueueInv(b, m, setting.enabled, memHandlers)
  BY <1>1, <1>6 DEF QueueInv
<1>13. TypeOK' /\ ProcessInv' /\ JobsInv'
  BY <1>1, <1>3, <1>6, <1>7, <1>8, <1>10, <1>11, <1>12, OneJobMoves
<1>14. QED
  BY <1>5, <1>13, BullMeansNext

-----------------------------------------------------------------------------
(* The in-memory queue *)

\* A copy in memory is replaced by another one.
LEMMA MemMoves ==
  ASSUME BullInv, NEW j \in Jobs, mem[j] # None, NEW m \in Copy, m.state # "locked",
         m.priority = mem[j].priority,
         m.state \in {"waiting", "active"} => m.made < call[j].attempts,
         QueueInv(bull[j], m, setting.enabled, memHandlers),
         SetMem(j, m), NEW r \in Nat, r = ran[j] \/ bull[j] = None, ran' = [ran EXCEPT ![j] = r]
  PROVE  BullInv'
<1>1. /\ mem' = [mem EXCEPT ![j] = m]
      /\ UNCHANGED <<call, bull, setting, jobHandlers, workers, queues, fallback, memHandlers,
                     closing, closed, faults, crashes>>
  BY DEF SetMem, redisVars
<1> DEFINE c == call[j]
           b == bull[j]
<1>2. /\ c \in Calls /\ b \in Copy \cup {None} /\ c # None /\ m # None
      /\ CopyInv(c, b, mem[j], ran[j]) /\ LockInv(c, b, workers, closed, faults, crashes)
  BY JobHas, Stored
<1>3. call' = [call EXCEPT ![j] = c] /\ bull' = [bull EXCEPT ![j] = b]
  BY <1>1, JobHas
<1>4. faults' \in 0 .. setting.faults /\ fallback' \in BOOLEAN /\ queues' \subseteq QueueNames
  BY <1>1, JobHas
<1>5. CopyInv(c, b, m, r)
  BY <1>2 DEF CopyInv
<1> HIDE DEF c, b
<1>6. QueueInv(b, m, setting.enabled, memHandlers)
  BY DEF b
<1>7. b # None /\ b.state = "active" => b = bull[j] /\ c = call[j]
  BY DEF b, c
<1>8. QED
  BY <1>1, <1>2, <1>3, <1>4, <1>5, <1>6, <1>7, OneJobRests

\* What is known of a copy in memory that runs, or has run.
LEMMA MemHas ==
  ASSUME BullInv, NEW j \in Jobs, mem[j] # None
  PROVE  /\ mem[j] \in Copy /\ call[j] \in Calls /\ call[j].attempts \in {2, 3}
         /\ mem[j].made \in Nat /\ ran[j] \in Nat
         /\ mem[j].state \in {"waiting", "active"} => mem[j].made < call[j].attempts
         /\ setting.enabled => memHandlers = {} /\ mem[j].made = 0 /\ mem[j].state # "active"
         /\ ~ setting.enabled => bull[j] = None
         /\ mem[j].made > 0 \/ mem[j].state = "active" => ~ setting.enabled /\ memHandlers = Types
         /\ mem[j].state # "locked"
<1>1. mem[j] \in Copy /\ call[j] \in Calls /\ ran[j] \in Nat
  BY JobHas
<1>2. CopyInv(call[j], bull[j], mem[j], ran[j]) /\ QueueInv(bull[j], mem[j], setting.enabled, memHandlers)
  BY JobHas
<1>3. mem[j].made \in Nat
  BY <1>1 DEF Copy
<1>4. call[j].attempts \in {2, 3}
  BY <1>1, CallHas
<1>5. setting.enabled => memHandlers = {}
  BY BullMeans DEF ProcessInv
<1>6. QED
  BY <1>1, <1>2, <1>3, <1>4, <1>5 DEF CopyInv, QueueInv

LEMMA MemoryStartKeeps ==
  ASSUME BullInv, NEW j \in Jobs, MemoryStart(j)
  PROVE  BullInv'
<1>1. mem[j] # None /\ mem[j].state = "waiting"
  BY DEF MemoryStart
<1>2. CASE call[j].type \in memHandlers
  <2> DEFINE m == [mem[j] EXCEPT !.state = "active"]
             r == ran[j] + 1
  <2>1. SetMem(j, m) /\ ran' = [ran EXCEPT ![j] = r]
    BY <1>2 DEF MemoryStart
  <2>2. "active" \in States
    BY DEF States
  <2>3. m \in Copy /\ m.state = "active" /\ m.made = mem[j].made /\ m.priority = mem[j].priority
    BY <1>1, <2>2, MemHas, CopyMoves
  <2>4. ~ setting.enabled /\ bull[j] = None /\ r \in Nat
    BY <1>1, <1>2, MemHas
  <2>5. memHandlers = Types
    BY <1>2, BullMeans DEF ProcessInv
  <2> HIDE DEF m, r
  <2>6. QueueInv(bull[j], m, setting.enabled, memHandlers)
    BY <2>4, <2>5 DEF QueueInv
  <2>7. m.state # "locked" /\ m.made < call[j].attempts
    BY <1>1, <2>3, MemHas
  <2>8. QED
    BY <1>1, <2>1, <2>3, <2>4, <2>6, <2>7, MemMoves
<1>3. CASE call[j].type \notin memHandlers
  <2> DEFINE m == [mem[j] EXCEPT !.state = "failed"]
             r == ran[j]
  <2>1. SetMem(j, m) /\ ran' = [ran EXCEPT ![j] = r]
    BY <1>3, JobHas DEF MemoryStart
  <2>2. "failed" \in States
    BY DEF States
  <2>3. m \in Copy /\ m.state = "failed" /\ m.made = mem[j].made /\ m.priority = mem[j].priority
    BY <1>1, <2>2, MemHas, CopyMoves
  <2> HIDE DEF m
  <2>4. QueueInv(bull[j], m, setting.enabled, memHandlers)
    BY <1>1, <2>3, MemHas DEF QueueInv
  <2>5. m.state # "locked" /\ (m.state \in {"waiting", "active"} => m.made < call[j].attempts) /\ r \in Nat
    BY <2>3, JobHas
  <2>6. QED
    BY <1>1, <2>1, <2>3, <2>4, <2>5, MemMoves
<1>4. QED
  BY <1>2, <1>3

\* A try of the in-memory queue ends.
LEMMA MemEnds ==
  ASSUME BullInv, NEW j \in Jobs, mem[j] # None, mem[j].state = "active",
         NEW s \in {"waiting", "completed", "failed"},
         s = "waiting" => mem[j].made + 1 < call[j].attempts,
         SetMem(j, [mem[j] EXCEPT !.state = s, !.made = mem[j].made + 1]), UNCHANGED ran
  PROVE  BullInv'
<1> DEFINE m == [mem[j] EXCEPT !.state = s, !.made = mem[j].made + 1]
<1>1. s \in States
  BY DEF States
<1>2. m \in Copy /\ m.state = s /\ m.made = mem[j].made + 1 /\ m.priority = mem[j].priority
  <2>1. mem[j] \in Copy
    BY MemHas
  <2>2. QED
    BY <1>1, <2>1, CopyMoves
<1>3. SetMem(j, m) /\ ran' = [ran EXCEPT ![j] = ran[j]] /\ ran[j] \in Nat
  BY JobHas
<1> HIDE DEF m
<1>4. QueueInv(bull[j], m, setting.enabled, memHandlers)
  BY <1>2, MemHas DEF QueueInv
<1>5. m.state # "locked" /\ (m.state \in {"waiting", "active"} => m.made < call[j].attempts)
  BY <1>2
<1>6. QED
  BY <1>2, <1>3, <1>4, <1>5, MemMoves

LEMMA MemoryEndsKeep ==
  ASSUME BullInv, NEW j \in Jobs, MemoryComplete(j) \/ MemoryFail(j)
  PROVE  BullInv'
<1>1. CASE MemoryComplete(j)
  BY <1>1, MemEnds DEF MemoryComplete
<1>2. CASE MemoryFail(j)
  <2> DEFINE s == IF mem[j].made + 1 < call[j].attempts THEN "waiting" ELSE "failed"
  <2>1. /\ mem[j] # None /\ mem[j].state = "active" /\ UNCHANGED ran
        /\ SetMem(j, [mem[j] EXCEPT !.state = s, !.made = mem[j].made + 1])
    BY <1>2 DEF MemoryFail
  <2>2. s \in {"waiting", "completed", "failed"} /\ (s = "waiting" => mem[j].made + 1 < call[j].attempts)
    OBVIOUS
  <2> HIDE DEF s
  <2>3. QED
    BY <2>1, <2>2, MemEnds
<1>3. QED
  BY <1>1, <1>2

-----------------------------------------------------------------------------
(* The process *)

\* A step that leaves the jobs alone.
LEMMA JobsStay ==
  ASSUME BullInv, UNCHANGED <<call, bull, mem, ran, setting>>,
         TypeOK', ProcessInv',
         \A j \in Jobs : QueueInv(bull[j], mem[j], setting.enabled, memHandlers'),
         \A j \in Jobs : LockInv(call[j], bull[j], workers', closed', faults', crashes')
  PROVE  BullInv'
<1>1. ConcurrencyLimit'
  BY BullMeans, NoMoreRun
<1>2. JobsInv'
  BY BullMeans DEF JobsInv
<1>3. QED
  BY <1>1, <1>2, BullMeansNext

LEMMA RegisterKeeps ==
  ASSUME BullInv, NEW broken \in SUBSET QueueNames, Register(broken)
  PROVE  BullInv'
<1>1. TypeOK /\ ProcessInv /\ JobsInv
  BY BullMeans
<1>2. workers = {} /\ closed = {} /\ jobHandlers = {} /\ jobHandlers' = Types /\ closing = None
  BY <1>1 DEF Register, ProcessInv, TypeOK
<1>3. UNCHANGED <<call, bull, mem, ran, setting, closing, closed, crashes>>
  BY DEF Register, redisVars
<1>4. /\ IF setting.enabled
           THEN queues' = QueueNames /\ workers' = QueueNames \ broken /\ UNCHANGED memHandlers
           ELSE memHandlers' = Types /\ UNCHANGED <<queues, workers>>
      /\ fallback' \in BOOLEAN
  BY <1>1 DEF Register, TypeOK
<1>5. faults' \in 0 .. setting.faults
  <2>1. faults + Cardinality(broken) <= setting.faults /\ faults' = faults + Cardinality(broken)
    BY DEF Register
  <2>2. setting.faults \in Nat /\ faults \in Nat
    BY <1>1, BullAssumption DEF TypeOK
  <2>3. AppCalls \in SUBSET AppCalls /\ IsFiniteSet(broken)
    <3>1. IsFiniteSet({"burn_deletion", "file_deletion", "batch_operations"})
      <4>1. IsFiniteSet({"batch_operations"})
        BY FS_Singleton
      <4>2. IsFiniteSet({"batch_operations"} \cup {"file_deletion"})
        BY <4>1, FS_AddElement
      <4>3. IsFiniteSet(({"batch_operations"} \cup {"file_deletion"}) \cup {"burn_deletion"})
        BY <4>2, FS_AddElement
      <4>4. ({"batch_operations"} \cup {"file_deletion"}) \cup {"burn_deletion"}
              = {"burn_deletion", "file_deletion", "batch_operations"}
        OBVIOUS
      <4>5. QED
        BY <4>3, <4>4
    <3>2. \A t \in Types : QueueName(t) \in {"burn_deletion", "file_deletion", "batch_operations"}
      <4>1. \A c \in AppCalls : c.type \in {"burn_deletion", "file_deletion"} \cup BatchTypes
        BY DEF AppCalls, BatchTypes
      <4>2. \A t \in Types : t \in {"burn_deletion", "file_deletion"} \cup BatchTypes
        BY <4>1, BullAssumption
      <4>3. QED
        BY <4>2 DEF QueueName
    <3>3. broken \subseteq {"burn_deletion", "file_deletion", "batch_operations"}
      BY <3>2 DEF QueueNames
    <3>4. QED
      BY <3>1, <3>3, FS_Subset
  <2>4. Cardinality(broken) \in Nat
    BY <2>3, FS_CardinalityType
  <2>5. QED
    BY <2>1, <2>2, <2>4
<1>6. TypeOK'
  <2>1. jobHandlers' \subseteq Types /\ memHandlers' \subseteq Types /\ workers' \subseteq QueueNames
        /\ queues' \subseteq QueueNames
    BY <1>1, <1>2, <1>4 DEF TypeOK
  <2>2. closing' \in workers' \cup {None} /\ closed' \subseteq workers' \cup {"queues"}
    BY <1>2, <1>3
  <2>3. QED
    BY <1>1, <1>3, <1>4, <1>5, <2>1, <2>2 DEF TypeOK
<1>7. \A j \in Jobs : bull[j] # None => bull[j].state # "active"
  BY <1>1, <1>2 DEF JobsInv, LockInv
<1>8. Types = {} => workers' = {}
  BY <1>2, <1>4 DEF QueueNames
<1>9. ProcessInv'
  BY <1>1, <1>2, <1>3, <1>4, <1>8 DEF ProcessInv
<1>10. \A j \in Jobs : QueueInv(bull[j], mem[j], setting.enabled, memHandlers')
  BY <1>1, <1>4 DEF JobsInv, QueueInv
<1>11. \A j \in Jobs : LockInv(call[j], bull[j], workers', closed', faults', crashes')
  BY <1>1, <1>3, <1>7 DEF JobsInv, LockInv
<1>12. QED
  BY <1>3, <1>6, <1>9, <1>10, <1>11, JobsStay

LEMMA CloseWorkerKeeps ==
  ASSUME BullInv, NEW q \in QueueNames, CloseWorker(q)
  PROVE  BullInv'
<1>1. TypeOK /\ ProcessInv /\ JobsInv
  BY BullMeans
<1>2. /\ q \in workers /\ closing' = q
      /\ UNCHANGED <<call, bull, mem, ran, setting, jobHandlers, workers, queues, fallback, memHandlers,
                     closed, faults, crashes>>
  BY DEF CloseWorker, redisVars
<1>3. TypeOK' /\ ProcessInv'
  BY <1>1, <1>2 DEF TypeOK, ProcessInv
<1>4. QED
  BY <1>1, <1>2, <1>3, JobsStay DEF JobsInv

LEMMA WorkerClosedKeeps ==
  ASSUME BullInv, WorkerClosed
  PROVE  BullInv'
<1>1. TypeOK /\ ProcessInv /\ JobsInv
  BY BullMeans
<1>2. /\ closing # None /\ closed' = closed \cup {closing} /\ closing' = None
      /\ UNCHANGED <<call, bull, mem, ran, setting, jobHandlers, workers, queues, fallback, memHandlers,
                     crashes>>
  BY DEF WorkerClosed, redisVars
<1>3. \/ InQueue(closing, "active") = {} /\ UNCHANGED faults
      \/ faults < setting.faults /\ faults' = faults + 1
  BY DEF WorkerClosed
<1>4. closing \in workers
  BY <1>1, <1>2 DEF TypeOK
<1>5. faults' \in 0 .. setting.faults /\ (faults' = 0 => faults = 0 /\ InQueue(closing, "active") = {})
  BY <1>1, <1>3, BullAssumption DEF TypeOK
<1>6. TypeOK'
  BY <1>1, <1>2, <1>4, <1>5 DEF TypeOK
<1>7. ProcessInv'
  <2>1. \A t \in Types : QueueName(t) # "queues"
    <3>1. \A c \in AppCalls : c.type # "queues"
      BY DEF AppCalls
    <3>2. QED
      BY <3>1, BullAssumption DEF QueueName
  <2>2. closing # "queues"
    BY <1>1, <1>4, <2>1 DEF TypeOK, QueueNames
  <2>3. jobHandlers # {}
    BY <1>1, <1>4 DEF ProcessInv
  <2>4. QED
    BY <1>1, <1>2, <2>2, <2>3 DEF ProcessInv
<1>8. \A j \in Jobs : LockInv(call[j], bull[j], workers', closed', faults', crashes')
  <2> SUFFICES ASSUME NEW j \in Jobs
               PROVE  LockInv(call[j], bull[j], workers', closed', faults', crashes')
    OBVIOUS
  <2>1. LockInv(call[j], bull[j], workers, closed, faults, crashes)
    BY <1>1 DEF JobsInv
  <2>2. faults' = 0 /\ bull[j] # None /\ bull[j].state = "active" => QueueName(call[j].type) # closing
    BY <1>5 DEF InQueue
  <2>3. QED
    BY <1>2, <1>5, <2>1, <2>2 DEF LockInv
<1>9. QED
  BY <1>1, <1>2, <1>6, <1>7, <1>8, JobsStay DEF JobsInv

LEMMA CloseQueuesKeeps ==
  ASSUME BullInv, CloseQueues
  PROVE  BullInv'
<1>1. TypeOK /\ ProcessInv /\ JobsInv
  BY BullMeans
<1>2. /\ jobHandlers # {} /\ workers \subseteq closed /\ closed' = closed \cup {"queues"}
      /\ UNCHANGED <<call, bull, mem, ran, setting, jobHandlers, workers, queues, fallback, memHandlers,
                     closing, faults, crashes>>
  BY DEF CloseQueues, redisVars
<1>3. TypeOK' /\ ProcessInv'
  BY <1>1, <1>2 DEF TypeOK, ProcessInv
<1>4. \A j \in Jobs : LockInv(call[j], bull[j], workers', closed', faults', crashes')
  <2> SUFFICES ASSUME NEW j \in Jobs
               PROVE  LockInv(call[j], bull[j], workers', closed', faults', crashes')
    OBVIOUS
  <2>1. LockInv(call[j], bull[j], workers, closed, faults, crashes)
    BY <1>1 DEF JobsInv
  <2>2. bull[j] # None => QueueName(call[j].type) # "queues"
    BY BullHas, CallHas
  <2>3. QED
    BY <1>2, <2>1, <2>2 DEF LockInv
<1>5. QED
  BY <1>1, <1>2, <1>3, <1>4, JobsStay DEF JobsInv

\* The process dies: what ran in Redis is locked, and what was in memory is gone.
LEMMA CrashKeeps ==
  ASSUME BullInv, Crash
  PROVE  BullInv'
<1> DEFINE locked(j) == [bull[j] EXCEPT !.state = "locked"]
<1>1. TypeOK /\ ProcessInv /\ JobsInv /\ ConcurrencyLimit
  BY BullMeans
<1>2. /\ crashes < setting.crashes /\ crashes' = crashes + 1
      /\ bull' = [j \in Jobs |-> IF bull[j] # None /\ bull[j].state = "active" THEN locked(j) ELSE bull[j]]
      /\ mem' = [j \in Jobs |-> None]
      /\ jobHandlers' = {} /\ memHandlers' = {} /\ workers' = {} /\ queues' = {}
      /\ fallback' = FALSE /\ closing' = None /\ closed' = {}
      /\ UNCHANGED <<setting, call, ran, faults>>
  BY DEF Crash
<1>3. \A j \in Jobs : bull[j] # None =>
        /\ locked(j) \in Copy /\ locked(j).state = "locked" /\ locked(j).made = bull[j].made
        /\ locked(j).stalls = bull[j].stalls
  <2>1. "locked" \in States
    BY DEF States
  <2>2. QED
    BY <2>1, BullHas, CopyMoves
<1> HIDE DEF locked
<1>4. crashes' \in 0 .. setting.crashes /\ crashes' # 0
  BY <1>1, <1>2, BullAssumption DEF TypeOK
<1>5. TypeOK'
  <2>1. bull' \in [Jobs -> Copy \cup {None}]
    BY <1>1, <1>2, <1>3 DEF TypeOK
  <2>2. QED
    BY <1>1, <1>2, <1>4, <2>1 DEF TypeOK
<1>6. ProcessInv'
  BY <1>2 DEF ProcessInv
<1>7. \A j \in Jobs : bull'[j] # None => bull[j] # None /\ bull'[j].state # "active"
  BY <1>2, <1>3
<1>8. ConcurrencyLimit'
  BY <1>1, <1>7, NoMoreRun
<1>9. JobsInv'
  <2> SUFFICES ASSUME NEW j \in Jobs
               PROVE  /\ CopyInv(call'[j], bull'[j], mem'[j], ran'[j])
                      /\ QueueInv(bull'[j], mem'[j], setting'.enabled, memHandlers')
                      /\ LockInv(call'[j], bull'[j], workers', closed', faults', crashes')
    BY DEF JobsInv
  <2>1. LockInv(call'[j], bull'[j], workers', closed', faults', crashes')
    BY <1>4, <1>7 DEF LockInv
  <2>2. CASE bull[j] # None /\ bull[j].state = "active"
    <3>1. bull'[j] = locked(j) /\ mem'[j] = None /\ call'[j] = call[j] /\ ran'[j] = ran[j]
      BY <1>2, <2>2
    <3>2. CopyInv(call'[j], bull'[j], mem'[j], ran'[j])
      BY <1>1, <1>3, <2>2, <3>1 DEF JobsInv, CopyInv, Live
    <3>3. QueueInv(bull'[j], mem'[j], setting'.enabled, memHandlers')
      BY <1>1, <1>2, <2>2, <3>1 DEF JobsInv, QueueInv
    <3>4. QED
      BY <2>1, <3>2, <3>3
  <2>3. CASE ~ (bull[j] # None /\ bull[j].state = "active")
    <3>1. bull'[j] = bull[j] /\ mem'[j] = None /\ call'[j] = call[j] /\ ran'[j] = ran[j]
      BY <1>2, <2>3
    <3>2. CopyInv(call'[j], bull'[j], mem'[j], ran'[j])
      BY <1>1, <3>1 DEF JobsInv, CopyInv
    <3>3. QueueInv(bull'[j], mem'[j], setting'.enabled, memHandlers')
      BY <1>1, <1>2, <3>1 DEF JobsInv, QueueInv
    <3>4. QED
      BY <2>1, <3>2, <3>3
  <2>4. QED
    BY <2>2, <2>3
<1>10. QED
  BY <1>5, <1>6, <1>8, <1>9, BullMeansNext

\* Something fails that is not the queue's.
LEMMA FaultKeeps ==
  ASSUME BullInv, faults < setting.faults, faults' = faults + 1,
         UNCHANGED <<redisVars, localVars, ran, crashes>>
  PROVE  BullInv'
<1>1. TypeOK /\ ProcessInv /\ JobsInv
  BY BullMeans
<1>2. UNCHANGED <<call, bull, mem, ran, setting, jobHandlers, workers, queues, fallback, memHandlers,
                 closing, closed, crashes>>
  BY DEF redisVars, localVars
<1>3. faults' \in 0 .. setting.faults /\ faults' # 0
  BY <1>1, BullAssumption DEF TypeOK
<1>4. TypeOK' /\ ProcessInv'
  BY <1>1, <1>2, <1>3 DEF TypeOK, ProcessInv
<1>5. \A j \in Jobs : LockInv(call[j], bull[j], workers', closed', faults', crashes')
  BY <1>1, <1>2, <1>3 DEF JobsInv, LockInv
<1>6. QED
  BY <1>1, <1>2, <1>4, <1>5, JobsStay DEF JobsInv

LEMMA BullInit == Init => BullInv
<1> SUFFICES ASSUME Init PROVE BullInv
  OBVIOUS
<1>1. TypeOK
  <2>1. setting \in Settings /\ faults = 0 /\ crashes = 0
    BY DEF Init
  <2>2. 0 \in 0 .. setting.faults /\ 0 \in 0 .. setting.crashes
    BY <2>1, BullAssumption
  <2>3. QED
    BY <2>1, <2>2 DEF Init, TypeOK
<1>2. ProcessInv
  BY DEF Init, ProcessInv
<1>3. JobsInv
  BY DEF Init, JobsInv, CopyInv, QueueInv, LockInv
<1>4. ConcurrencyLimit
  <2>1. \A q \in QueueNames : InQueue(q, "active") = {}
    BY DEF Init, InQueue
  <2>2. QED
    BY <2>1, FS_EmptySet, BullAssumption DEF ConcurrencyLimit
<1>5. QED
  BY <1>1, <1>2, <1>3, <1>4, BullMeans

\* Nothing of the queue changes.
LEMMA BullStays ==
  ASSUME BullInv, UNCHANGED vars
  PROVE  BullInv'
<1>1. UNCHANGED <<call, bull, mem, ran, setting, jobHandlers, workers, queues, fallback, memHandlers,
                 closing, closed, faults, crashes>>
  BY DEF vars, redisVars, localVars
<1>2. TypeOK /\ ProcessInv /\ JobsInv
  BY BullMeans
<1>3. TypeOK' /\ ProcessInv'
  BY <1>1, <1>2 DEF TypeOK, ProcessInv
<1>4. QED
  BY <1>1, <1>2, <1>3, JobsStay DEF JobsInv

-----------------------------------------------------------------------------
(* The invariant of the batches, one job, request or call at a time *)

\* All of BatchInv that does not speak of files and of rows that were purged.
WorkOK ==
  /\ BullInv /\ BatchTypeOK /\ WorkIsNotRepeated /\ EveryLinkIsAccountedFor
  /\ HandlersAreOfJobs /\ ActsAreCounted

RowsTyped ==
  /\ row \in [Links -> {"active", "trashed", "gone"}]
  /\ file \in [Links -> {"stored", "left", "gone"}]

Stalls(b) == IF b = None THEN 0 ELSE b.stalls

\* MayHaveActed, for the call c of a job, its handler's step st, and its copies.
Acting(c, st, b, m) ==
  \/ st = "done"
  \/ b # None /\ b.state \in {"locked", "completed"}
  \/ b = None /\ m = None /\ c # None
  \/ m # None /\ m.state = "completed"

\* The link lk of a job, and how often a it has changed it.
WorkInv(c, lk, st, a, b, m) ==
  /\ st # "idle" <=> Runs(b) \/ Runs(m)
  /\ c = None <=> lk = None
  /\ st \in {"act", "unlink", "write"} => lk \in Owned
  /\ a <= Stalls(b) + (IF Acting(c, st, b, m) THEN 1 ELSE 0)

Works == \A j \in Jobs : WorkInv(call[j], link[j], step[j], acted[j], bull[j], mem[j])

RequestFits(rq, cl) ==
  rq # None =>
    /\ Cardinality(rq.ids) + Cardinality(rq.rest) = rq.asked
    /\ \A j \in rq.ids : cl[j] # None

SyncFits(sy) ==
  sy # None =>
    /\ sy.success + sy.failed + Cardinality(sy.rest) + (IF sy.at = None THEN 0 ELSE 1) = sy.asked
    /\ IF sy.at = None THEN sy.step = "fetch" ELSE sy.step # "fetch" /\ sy.at \in Owned

LEMMA BatchHas ==
  ASSUME WorkOK
  PROVE  BullInv /\ BatchTypeOK /\ Works /\ RequestFits(request, call) /\ SyncFits(sync)
<1>1. BullInv /\ BatchTypeOK /\ EveryLinkIsAccountedFor /\ HandlersAreOfJobs /\ ActsAreCounted
  BY DEF WorkOK
<1>2. Works
  <2> SUFFICES ASSUME NEW j \in Jobs
               PROVE  WorkInv(call[j], link[j], step[j], acted[j], bull[j], mem[j])
    BY DEF Works
  <2>1. acted[j] <= Stalls(bull[j]) + (IF Acting(call[j], step[j], bull[j], mem[j]) THEN 1 ELSE 0)
    BY <1>1 DEF ActsAreCounted, MayHaveActed, Stalls, Acting
  <2>2. QED
    BY <1>1, <2>1, Zenon DEF HandlersAreOfJobs, WorkInv
<1>3. RequestFits(request, call)
  BY <1>1, Zenon DEF EveryLinkIsAccountedFor, HandlersAreOfJobs, RequestFits
<1>4. SyncFits(sync)
  BY <1>1, Zenon DEF EveryLinkIsAccountedFor, HandlersAreOfJobs, SyncFits
<1>5. QED
  BY <1>1, <1>2, <1>3, <1>4

\* What a step has to show.
LEMMA BatchKeeps ==
  ASSUME BullInv', BatchTypeOK', Works', RequestFits(request', call'), SyncFits(sync')
  PROVE  WorkOK'
<1>1. ActsAreCounted'
  <2> SUFFICES ASSUME NEW j \in Jobs
               PROVE  acted'[j] <= (IF bull'[j] = None THEN 0 ELSE bull'[j].stalls)
                                     + (IF MayHaveActed(j)' THEN 1 ELSE 0)
    BY DEF ActsAreCounted
  <2>1. acted'[j] <= Stalls(bull'[j]) + (IF Acting(call'[j], step'[j], bull'[j], mem'[j]) THEN 1 ELSE 0)
    BY DEF Works, WorkInv
  <2>2. QED
    BY <2>1 DEF MayHaveActed, Stalls, Acting
<1>2. HandlersAreOfJobs'
  <2>1. \A j \in Jobs :
          /\ step'[j] # "idle" <=> Runs(bull'[j]) \/ Runs(mem'[j])
          /\ call'[j] = None <=> link'[j] = None
          /\ step'[j] \in {"act", "unlink", "write"} => link'[j] \in Owned
    BY Zenon DEF Works, WorkInv
  <2>2. /\ sync' # None => IF sync'.at = None THEN sync'.step = "fetch"
                            ELSE sync'.step # "fetch" /\ sync'.at \in Owned
        /\ request' # None => \A j \in request'.ids : call'[j] # None
    BY DEF RequestFits, SyncFits
  <2>3. QED
    BY <2>1, <2>2, Zenon DEF HandlersAreOfJobs
<1>3. EveryLinkIsAccountedFor'
  BY DEF EveryLinkIsAccountedFor, RequestFits, SyncFits
<1>4. WorkIsNotRepeated'
  <2> SUFFICES ASSUME NEW j \in Jobs
               PROVE  acted'[j] <= 1 + (IF bull'[j] = None THEN 0 ELSE bull'[j].stalls)
    BY DEF WorkIsNotRepeated
  <2>1. acted'[j] <= Stalls(bull'[j]) + (IF Acting(call'[j], step'[j], bull'[j], mem'[j]) THEN 1 ELSE 0)
    BY DEF Works, WorkInv
  <2>2. acted'[j] \in Nat /\ Stalls(bull'[j]) \in Nat
    <3>1. bull'[j] \in Copy \cup {None} /\ acted'[j] \in Nat
      BY BullMeansNext DEF TypeOK, BatchTypeOK
    <3>2. QED
      BY <3>1 DEF Stalls, Copy
  <2>3. acted'[j] <= 1 + Stalls(bull'[j])
    BY <2>1, <2>2
  <2>4. QED
    BY <2>3 DEF Stalls
<1>5. QED
  BY <1>1, <1>2, <1>3, <1>4 DEF WorkOK

\* What the two copies of a job know of each other.
LEMMA Apart ==
  ASSUME BullInv, NEW j \in Jobs
  PROVE  /\ Runs(mem[j]) => bull[j] = None
         /\ bull[j] # None => ~ Runs(mem[j]) /\ (mem[j] # None => mem[j].state # "completed")
         /\ call[j] = None => bull[j] = None /\ mem[j] = None
         /\ mem[j] # None => mem[j].state # "locked"
<1>1. CopyInv(call[j], bull[j], mem[j], ran[j]) /\ QueueInv(bull[j], mem[j], setting.enabled, memHandlers)
  BY JobHas
<1>2. QED
  BY <1>1 DEF CopyInv, QueueInv, Runs

\* What is known of the work of one job.
LEMMA WorkHas ==
  ASSUME WorkOK, NEW j \in Jobs
  PROVE  /\ BullInv /\ WorkInv(call[j], link[j], step[j], acted[j], bull[j], mem[j])
         /\ acted[j] \in Nat /\ Stalls(bull[j]) \in Nat
         /\ link[j] \in Links \cup {None}
         /\ step[j] \in HandlerSteps
         /\ call[j] \in Calls \cup {None}
         /\ bull[j] \in Copy \cup {None} /\ mem[j] \in Copy \cup {None}
         /\ link = [link EXCEPT ![j] = link[j]] /\ step = [step EXCEPT ![j] = step[j]]
         /\ acted = [acted EXCEPT ![j] = acted[j]] /\ call = [call EXCEPT ![j] = call[j]]
         /\ bull = [bull EXCEPT ![j] = bull[j]] /\ mem = [mem EXCEPT ![j] = mem[j]]
<1>1. BullInv /\ BatchTypeOK /\ Works
  BY BatchHas
<1>2. acted[j] \in Nat /\ bull[j] \in Copy \cup {None}
  BY <1>1, JobHas DEF BatchTypeOK, RowsTyped
<1>3. Stalls(bull[j]) \in Nat
  BY <1>2 DEF Stalls, Copy
<1>4. /\ link = [link EXCEPT ![j] = link[j]] /\ step = [step EXCEPT ![j] = step[j]]
      /\ acted = [acted EXCEPT ![j] = acted[j]]
  BY <1>1 DEF BatchTypeOK, RowsTyped
<1>5. WorkInv(call[j], link[j], step[j], acted[j], bull[j], mem[j])
  BY <1>1 DEF Works
<1>6. link[j] \in Links \cup {None} /\ step[j] \in HandlerSteps
  BY <1>1 DEF BatchTypeOK, RowsTyped
<1>7. QED
  BY <1>1, <1>2, <1>3, <1>4, <1>5, <1>6, JobHas

\* What an action makes of one job and its handler.
JobBecomes(j, c, b, m, lk, st, a) ==
  /\ call' = [call EXCEPT ![j] = c] /\ bull' = [bull EXCEPT ![j] = b]
  /\ mem' = [mem EXCEPT ![j] = m] /\ link' = [link EXCEPT ![j] = lk]
  /\ step' = [step EXCEPT ![j] = st] /\ acted' = [acted EXCEPT ![j] = a]

\* An action that moves one job and its handler.
LEMMA OneJobWorks ==
  ASSUME WorkOK, BullInv', NEW j \in Jobs, NEW c, NEW b, NEW m, NEW lk, NEW st, NEW a,
         lk \in Links \cup {None}, st \in HandlerSteps, a \in Nat,
         JobBecomes(j, c, b, m, lk, st, a),
         RowsTyped', UNCHANGED sync,
         request' \in Request \cup {None}, RequestFits(request', call'),
         WorkInv(c, lk, st, a, b, m)
  PROVE  WorkOK'
<1>1. TypeOK /\ BatchTypeOK /\ Works /\ SyncFits(sync)
  BY BatchHas, BullMeans
<1>2. /\ call' = [i \in Jobs |-> IF i = j THEN c ELSE call[i]]
      /\ bull' = [i \in Jobs |-> IF i = j THEN b ELSE bull[i]]
      /\ mem' = [i \in Jobs |-> IF i = j THEN m ELSE mem[i]]
  BY <1>1 DEF TypeOK, JobBecomes
<1>3. /\ link' = [i \in Jobs |-> IF i = j THEN lk ELSE link[i]]
      /\ step' = [i \in Jobs |-> IF i = j THEN st ELSE step[i]]
      /\ acted' = [i \in Jobs |-> IF i = j THEN a ELSE acted[i]]
  BY <1>1 DEF BatchTypeOK, RowsTyped, JobBecomes
<1>4. BatchTypeOK'
  <2>1. /\ link' \in [Jobs -> Links \cup {None}] /\ acted' \in [Jobs -> Nat]
        /\ step' \in [Jobs -> HandlerSteps]
    BY <1>1, <1>3 DEF BatchTypeOK, RowsTyped
  <2>2. QED
    BY <1>1, <2>1 DEF BatchTypeOK, RowsTyped
<1>5. Works'
  <2> SUFFICES ASSUME NEW i \in Jobs
               PROVE  WorkInv(call'[i], link'[i], step'[i], acted'[i], bull'[i], mem'[i])
    BY DEF Works
  <2>1. CASE i = j
    BY <1>2, <1>3, <2>1
  <2>2. CASE i # j
    BY <1>1, <1>2, <1>3, <2>2 DEF Works
  <2>3. QED
    BY <2>1, <2>2
<1>6. SyncFits(sync')
  BY <1>1
<1>7. QED
  BY <1>4, <1>5, <1>6, BatchKeeps

\* A step that leaves the jobs and their handlers alone.
LEMMA WorksStay ==
  ASSUME WorkOK, BullInv', UNCHANGED <<call, bull, mem, link, step, acted>>,
         RowsTyped',
         request' \in Request \cup {None}, RequestFits(request', call'),
         sync' \in Synchronous \cup {None}, SyncFits(sync')
  PROVE  WorkOK'
<1>1. BatchTypeOK /\ Works
  BY BatchHas
<1>2. BatchTypeOK' /\ Works'
  BY <1>1 DEF BatchTypeOK, RowsTyped, Works
<1>3. QED
  BY <1>2, BatchKeeps

\* A request under way is the same after a step that adds no job to it.
LEMMA RequestRests ==
  ASSUME WorkOK, UNCHANGED request, \A i \in Jobs : call[i] # None => call'[i] = call[i]
  PROVE  request' \in Request \cup {None} /\ RequestFits(request', call')
<1>1. request \in Request \cup {None} /\ RequestFits(request, call)
  BY BatchHas DEF BatchTypeOK, RowsTyped
<1>2. request # None => request.ids \subseteq Jobs
  BY <1>1 DEF Request
<1>3. QED
  BY <1>1, <1>2 DEF RequestFits

\* A job that cannot have acted in its last try.
LEMMA Quiet ==
  ASSUME WorkOK, NEW j \in Jobs, step[j] # "done",
         bull[j] # None => bull[j].state \notin {"locked", "completed"},
         mem[j] # None => mem[j].state # "completed",
         call[j] # None => bull[j] # None \/ mem[j] # None
  PROVE  acted[j] <= Stalls(bull[j])
<1>1. ~ Acting(call[j], step[j], bull[j], mem[j])
  BY DEF Acting
<1>2. acted[j] <= Stalls(bull[j]) + (IF Acting(call[j], step[j], bull[j], mem[j]) THEN 1 ELSE 0)
  BY WorkHas DEF WorkInv
<1>3. acted[j] \in Nat /\ Stalls(bull[j]) \in Nat
  BY WorkHas
<1>4. QED
  BY <1>1, <1>2, <1>3

-----------------------------------------------------------------------------
(* The handlers *)

LEMMA JobStartsKeeps ==
  ASSUME WorkOK, NEW j \in Jobs, JobStarts(j)
  PROVE  WorkOK'
<1>1. BullInv /\ UNCHANGED <<row, file, request, link, acted, sync>>
  BY BatchHas DEF JobStarts
<1>2. step' = [step EXCEPT ![j] = IF ran'[j] > ran[j] THEN "fetch" ELSE step[j]]
  BY DEF JobStarts
<1>3. BullInv'
  BY <1>1, StartKeeps, MemoryStartKeeps DEF JobStarts
<1>4. RowsTyped'
  BY <1>1, BatchHas DEF BatchTypeOK, RowsTyped
<1>5. ran \in [Jobs -> Nat]
  BY BullMeans, <1>1 DEF TypeOK
<1>6. CASE Start(j)
  <2> DEFINE b == [bull[j] EXCEPT !.state = "active"]
  <2>1. /\ bull[j] # None /\ bull[j].state = "waiting" /\ bull' = [bull EXCEPT ![j] = b]
        /\ UNCHANGED <<call, mem>> /\ ran' = [ran EXCEPT ![j] = ran[j] + 1]
    BY <1>6 DEF Start, SetBull, localVars
  <2>2. "active" \in States
    BY DEF States
  <2>3. bull[j] \in Copy
    BY <1>1, <2>1, BullHas
  <2>4. b \in Copy /\ b.state = "active" /\ b.stalls = bull[j].stalls
    BY <2>2, <2>3, CopyMoves
  <2> HIDE DEF b
  <2>6. WorkInv(call[j], link[j], step[j], acted[j], bull[j], mem[j])
    BY WorkHas
  <2>7. ~ Runs(mem[j]) /\ step[j] = "idle"
    <3>1. ~ Runs(bull[j]) /\ ~ Runs(mem[j])
      BY <1>1, <2>1, Apart DEF Runs
    <3>2. QED
      BY <2>6, <3>1 DEF WorkInv
  <2>8. acted[j] <= Stalls(bull[j])
    <3>1. mem[j] # None => mem[j].state # "completed"
      BY <1>1, <2>1, Apart
    <3>2. QED
      BY <2>1, <2>7, <3>1, Quiet
  <2>9. Stalls(b) = Stalls(bull[j]) /\ Stalls(bull[j]) \in Nat /\ acted[j] \in Nat /\ b # None
    BY <2>1, <2>4, WorkHas, Stored DEF Stalls
  <2>10. WorkInv(call[j], link[j], "fetch", acted[j], b, mem[j])
    <3>1. acted[j] <= Stalls(b) + (IF Acting(call[j], "fetch", b, mem[j]) THEN 1 ELSE 0)
      BY <2>8, <2>9
    <3>2. QED
      BY <2>4, <2>6, <2>9, <3>1 DEF WorkInv, Runs
  <2>11. step' = [step EXCEPT ![j] = "fetch"]
    <3>1. ran'[j] > ran[j]
      BY <1>5, <2>1
    <3>2. QED
      BY <1>2, <3>1
  <2>12. request' \in Request \cup {None} /\ RequestFits(request', call')
    BY <1>1, <2>1, RequestRests
  <2>13. JobBecomes(j, call[j], b, mem[j], link[j], "fetch", acted[j])
    BY <1>1, <2>1, <2>11, WorkHas DEF JobBecomes
  <2>14. link[j] \in Links \cup {None} /\ "fetch" \in HandlerSteps
    BY WorkHas DEF HandlerSteps
  <2>15. QED
    BY <1>1, <1>3, <1>4, <2>9, <2>10, <2>12, <2>13, <2>14, OneJobWorks
<1>7. CASE MemoryStart(j)
  <2>1. mem[j] # None /\ mem[j].state = "waiting" /\ UNCHANGED <<call, bull>>
    BY <1>7 DEF MemoryStart, SetMem, redisVars
  <2>2. mem[j] \in Copy
    BY <1>1, <2>1, MemHas
  <2>3. WorkInv(call[j], link[j], step[j], acted[j], bull[j], mem[j])
    BY WorkHas
  <2>4. request' \in Request \cup {None} /\ RequestFits(request', call')
    BY <1>1, <2>1, RequestRests
  <2>5. /\ link[j] \in Links \cup {None} /\ acted[j] \in Nat
        /\ step[j] \in HandlerSteps
        /\ "fetch" \in HandlerSteps
    BY WorkHas DEF HandlerSteps
  <2>6. CASE call[j].type \in memHandlers
    <3> DEFINE m == [mem[j] EXCEPT !.state = "active"]
    <3>1. mem' = [mem EXCEPT ![j] = m] /\ ran' = [ran EXCEPT ![j] = ran[j] + 1]
      BY <1>7, <2>6 DEF MemoryStart, SetMem
    <3>2. "active" \in States
      BY DEF States
    <3>3. m \in Copy /\ m.state = "active"
      BY <2>2, <3>2, CopyMoves
    <3>4. m # None
      BY <3>3, Stored
    <3> HIDE DEF m
    <3>5. bull[j] = None
      BY <1>1, <2>1, <2>6, MemHas
    <3>6. step[j] = "idle"
      BY <2>1, <2>3, <3>5 DEF WorkInv, Runs
    <3>7. acted[j] <= Stalls(bull[j]) /\ Stalls(bull[j]) \in Nat
      BY <2>1, <3>5, <3>6, Quiet, WorkHas
    <3>8. WorkInv(call[j], link[j], "fetch", acted[j], bull[j], m)
      <4>1. acted[j] <= Stalls(bull[j]) + (IF Acting(call[j], "fetch", bull[j], m) THEN 1 ELSE 0)
        BY <2>5, <3>7
      <4>2. QED
        BY <2>3, <3>3, <3>4, <4>1 DEF WorkInv, Runs
    <3>9. step' = [step EXCEPT ![j] = "fetch"]
      <4>1. ran'[j] > ran[j]
        BY <1>5, <3>1
      <4>2. QED
        BY <1>2, <4>1
    <3>10. JobBecomes(j, call[j], bull[j], m, link[j], "fetch", acted[j])
      BY <1>1, <2>1, <3>1, <3>9, WorkHas DEF JobBecomes
    <3>11. QED
      BY <1>1, <1>3, <1>4, <2>4, <2>5, <3>8, <3>10, OneJobWorks
  <2>7. CASE call[j].type \notin memHandlers
    <3> DEFINE m == [mem[j] EXCEPT !.state = "failed"]
    <3>1. mem' = [mem EXCEPT ![j] = m] /\ ran' = ran
      BY <1>7, <2>7 DEF MemoryStart, SetMem
    <3>2. "failed" \in States
      BY DEF States
    <3>3. m \in Copy /\ m.state = "failed"
      BY <2>2, <3>2, CopyMoves
    <3>4. m # None
      BY <3>3, Stored
    <3> HIDE DEF m
    <3>5. WorkInv(call[j], link[j], step[j], acted[j], bull[j], m)
      <4>1. Runs(m) <=> Runs(mem[j])
        BY <2>1, <3>3 DEF Runs
      <4>2. Acting(call[j], step[j], bull[j], m) <=> Acting(call[j], step[j], bull[j], mem[j])
        BY <2>1, <3>3, <3>4 DEF Acting
      <4>3. QED
        BY <2>3, <4>1, <4>2 DEF WorkInv
    <3>6. step' = [step EXCEPT ![j] = step[j]]
      <4>1. ~ (ran'[j] > ran[j])
        BY <1>5, <3>1
      <4>2. QED
        BY <1>2, <4>1
    <3>7. JobBecomes(j, call[j], bull[j], m, link[j], step[j], acted[j])
      BY <1>1, <2>1, <3>1, <3>6, WorkHas DEF JobBecomes
    <3>8. QED
      BY <1>1, <1>3, <1>4, <2>4, <2>5, <3>5, <3>7, OneJobWorks
  <2>8. QED
    BY <2>6, <2>7
<1>8. QED
  BY <1>6, <1>7 DEF JobStarts

\* A handler that goes on, in the process and beside the queue.
LEMMA HandlerMoves ==
  ASSUME WorkOK, NEW j \in Jobs, step[j] \in {"fetch", "act", "unlink", "write"}, BullInv',
         UNCHANGED <<call, bull, mem, request, link, sync>>,
         RowsTyped',
         NEW st \in {"act", "unlink", "write", "done", "throw"}, step' = [step EXCEPT ![j] = st],
         st \in {"act", "unlink", "write"} => link[j] \in Owned,
         NEW a \in Nat, acted' = [acted EXCEPT ![j] = a],
         a = acted[j] \/ (st = "done" /\ a = acted[j] + 1)
  PROVE  WorkOK'
<1>1. WorkInv(call[j], link[j], step[j], acted[j], bull[j], mem[j]) /\ BullInv
  BY WorkHas
<1>2. Runs(bull[j]) \/ Runs(mem[j])
  BY <1>1 DEF WorkInv
<1>3. acted[j] <= Stalls(bull[j])
  BY <1>1, <1>2, Apart, Quiet DEF Runs
<1>4. acted[j] \in Nat /\ Stalls(bull[j]) \in Nat
  BY WorkHas
<1>5. st = "done" => Acting(call[j], st, bull[j], mem[j])
  BY DEF Acting
<1>6. a <= Stalls(bull[j]) + (IF Acting(call[j], st, bull[j], mem[j]) THEN 1 ELSE 0)
  BY <1>3, <1>4, <1>5
<1>7. WorkInv(call[j], link[j], st, a, bull[j], mem[j])
  BY <1>1, <1>2, <1>6 DEF WorkInv
<1>8. request' \in Request \cup {None} /\ RequestFits(request', call')
  BY RequestRests
<1>9. JobBecomes(j, call[j], bull[j], mem[j], link[j], st, a) /\ link[j] \in Links \cup {None}
  BY WorkHas DEF JobBecomes
<1>10. st \in HandlerSteps /\ UNCHANGED sync
  BY DEF HandlerSteps
<1>11. QED
  BY <1>7, <1>8, <1>9, <1>10, OneJobWorks

LEMMA JobFetchesKeeps ==
  ASSUME WorkOK, NEW j \in Jobs, JobFetches(j)
  PROVE  WorkOK'
<1> DEFINE st == IF Finds(call[j].type, link[j]) THEN "act" ELSE "throw"
<1>1. /\ step[j] = "fetch" /\ step' = [step EXCEPT ![j] = st]
      /\ UNCHANGED <<vars, row, file, request, link, acted, sync>>
  BY DEF JobFetches
<1>2. /\ st \in {"act", "unlink", "write", "done", "throw"}
      /\ st \in {"act", "unlink", "write"} => link[j] \in Owned
  BY DEF Finds
<1> HIDE DEF st
<1>3. UNCHANGED <<call, bull, mem>>
  BY <1>1 DEF vars, redisVars, localVars
<1>4. BullInv'
  BY <1>1, BatchHas, BullStays
<1>5. acted' = [acted EXCEPT ![j] = acted[j]] /\ acted[j] \in Nat
  BY <1>1, WorkHas
<1>6. RowsTyped'
  BY <1>1, BatchHas DEF BatchTypeOK, RowsTyped
<1>7. QED
  BY <1>1, <1>2, <1>3, <1>4, <1>5, <1>6, HandlerMoves

LEMMA JobQueryFailsKeeps ==
  ASSUME WorkOK, NEW j \in Jobs, JobQueryFails(j)
  PROVE  WorkOK'
<1>1. /\ step[j] \in {"fetch", "act", "write"} /\ step' = [step EXCEPT ![j] = "throw"]
      /\ faults < setting.faults /\ faults' = faults + 1
      /\ UNCHANGED <<redisVars, localVars, ran, crashes, row, file, request, link, acted, sync>>
  BY DEF JobQueryFails
<1>2. UNCHANGED <<call, bull, mem>>
  BY <1>1 DEF redisVars, localVars
<1>3. BullInv'
  BY <1>1, BatchHas, FaultKeeps
<1>4. acted' = [acted EXCEPT ![j] = acted[j]] /\ acted[j] \in Nat
  BY <1>1, WorkHas
<1>5. RowsTyped'
  BY <1>1, BatchHas DEF BatchTypeOK, RowsTyped
<1>6. QED
  BY <1>1, <1>2, <1>3, <1>4, <1>5, HandlerMoves

\* What a type makes of a link.
LEMMA EffectIs ==
  ASSUME NEW type \in BatchTypes
  PROVE  Effect(type) \in {"active", "trashed", "gone"}
<1>1. CASE type = "batch_soft_delete"
  BY <1>1 DEF Effect
<1>2. CASE type = "batch_restore"
  BY <1>2 DEF Effect
<1>3. CASE type = "batch_force_delete"
  BY <1>3 DEF Effect
<1>4. QED
  BY <1>1, <1>2, <1>3 DEF BatchTypes

\* What the service does next, and what the transaction makes of the rows.
LEMMA AfterIs ==
  ASSUME NEW type
  PROVE  AfterLookup(type) \in {"unlink", "write"}
BY DEF AfterLookup

LEMMA WrittenIs ==
  ASSUME NEW type \in BatchTypes, NEW l \in Links, RowsTyped
  PROVE  /\ Written(type, l) \in [Links -> {"active", "trashed", "gone"}]
         /\ \A k \in Links : row[k] = "gone" => Written(type, l)[k] = "gone"
         /\ \A k \in Links : Written(type, l)[k] # row[k] => k = l /\ row[l] # "gone"
         /\ type = "batch_force_delete" => Written(type, l)[l] = "gone"
<1>1. Effect(type) \in {"active", "trashed", "gone"} /\ (type = "batch_force_delete" => Effect(type) = "gone")
  BY EffectIs DEF Effect
<1>2. CASE row[l] = "gone"
  BY <1>2 DEF Written, RowsTyped
<1>3. CASE row[l] # "gone"
  <2>1. Written(type, l) = [row EXCEPT ![l] = Effect(type)]
    BY <1>3 DEF Written
  <2>2. QED
    BY <1>1, <1>3, <2>1 DEF RowsTyped
<1>4. QED
  BY <1>2, <1>3

\* A handler under way is that of a job with a call, on a link of the user.
LEMMA HandlerHas ==
  ASSUME WorkOK, NEW j \in Jobs, step[j] # "idle"
  PROVE  /\ call[j] \in Calls /\ call[j].type \in BatchTypes /\ link[j] \in Links
         /\ step[j] \in {"act", "unlink", "write"} => link[j] \in Owned
<1>1. WorkInv(call[j], link[j], step[j], acted[j], bull[j], mem[j]) /\ BullInv
  BY WorkHas
<1>2. call[j] \in Calls
  BY <1>1, JobHas DEF WorkInv, Runs
<1>3. call[j] # None /\ link[j] \in Links \cup {None}
  BY <1>2, Stored, WorkHas
<1>4. QED
  BY <1>1, <1>2, <1>3, BatchAssumption DEF WorkInv

LEMMA JobLooksAgainKeeps ==
  ASSUME WorkOK, NEW j \in Jobs, JobLooksAgain(j)
  PROVE  WorkOK'
<1> DEFINE st == IF Exists(call[j].type, link[j]) THEN AfterLookup(call[j].type) ELSE "throw"
<1>1. /\ step[j] = "act" /\ step' = [step EXCEPT ![j] = st]
      /\ UNCHANGED <<vars, row, file, request, link, acted, sync>>
  BY DEF JobLooksAgain
<1>2. /\ st \in {"act", "unlink", "write", "done", "throw"}
      /\ st \in {"act", "unlink", "write"} => link[j] \in Owned
  BY <1>1, AfterIs, HandlerHas
<1> HIDE DEF st
<1>3. UNCHANGED <<call, bull, mem>>
  BY <1>1 DEF vars, redisVars, localVars
<1>4. BullInv' /\ RowsTyped'
  BY <1>1, BatchHas, BullStays DEF BatchTypeOK, RowsTyped
<1>5. acted' = [acted EXCEPT ![j] = acted[j]] /\ acted[j] \in Nat
  BY <1>1, WorkHas
<1>6. QED
  BY <1>1, <1>2, <1>3, <1>4, <1>5, HandlerMoves

\* A deletion of a file leaves it no more stored, and costs a failure at most.
LEMMA StorageHas ==
  ASSUME WorkOK, NEW l \in Links, StorageDeletes(l),
         UNCHANGED <<redisVars, localVars, ran, crashes, row>>
  PROVE  /\ BullInv' /\ RowsTyped' /\ file'[l] # "stored"
         /\ \A k \in Links : file[k] # "stored" => file'[k] # "stored"
<1>1. BullInv /\ RowsTyped
  BY BatchHas DEF BatchTypeOK, RowsTyped
<1>2. CASE UNCHANGED faults /\ file' = [file EXCEPT ![l] = "gone"]
  <2>1. UNCHANGED vars
    BY <1>2 DEF vars
  <2>2. QED
    BY <1>1, <1>2, <2>1, BullStays DEF RowsTyped
<1>3. CASE /\ faults < setting.faults /\ faults' = faults + 1
           /\ file' = [file EXCEPT ![l] = IF file[l] = "gone" THEN file[l] ELSE "left"]
  <2>1. BullInv'
    BY <1>1, <1>3, FaultKeeps
  <2>2. QED
    BY <1>1, <1>3, <2>1 DEF RowsTyped
<1>4. QED
  BY <1>2, <1>3 DEF StorageDeletes

LEMMA JobUnlinksKeeps ==
  ASSUME WorkOK, NEW j \in Jobs, JobUnlinks(j)
  PROVE  WorkOK'
<1>1. /\ step[j] = "unlink" /\ step' = [step EXCEPT ![j] = "write"] /\ StorageDeletes(link[j])
      /\ UNCHANGED <<redisVars, localVars, ran, crashes, row, request, link, acted, sync>>
  BY DEF JobUnlinks
<1>2. link[j] \in Links /\ link[j] \in Owned
  BY <1>1, HandlerHas
<1>3. BullInv' /\ RowsTyped'
  BY <1>1, <1>2, StorageHas
<1>4. UNCHANGED <<call, bull, mem>>
  BY <1>1 DEF redisVars, localVars
<1>5. acted' = [acted EXCEPT ![j] = acted[j]] /\ acted[j] \in Nat
  BY <1>1, WorkHas
<1> DEFINE st == "write"
<1>6. /\ st \in {"act", "unlink", "write", "done", "throw"} /\ step' = [step EXCEPT ![j] = st]
      /\ st \in {"act", "unlink", "write"} => link[j] \in Owned
  BY <1>1, <1>2
<1> HIDE DEF st
<1>7. QED
  BY <1>1, <1>3, <1>4, <1>5, <1>6, HandlerMoves

LEMMA JobWritesKeeps ==
  ASSUME WorkOK, NEW j \in Jobs, JobWrites(j)
  PROVE  WorkOK'
<1> DEFINE st == "done"
           a == IF row[link[j]] = "gone" THEN acted[j] ELSE acted[j] + 1
<1>1. /\ step[j] = "write" /\ step' = [step EXCEPT ![j] = st]
      /\ acted' = [acted EXCEPT ![j] = a] /\ row' = Written(call[j].type, link[j])
      /\ UNCHANGED <<vars, file, request, link, sync>>
  BY DEF JobWrites
<1>2. UNCHANGED <<call, bull, mem>>
  BY <1>1 DEF vars, redisVars, localVars
<1>3. BullInv' /\ RowsTyped
  BY <1>1, BatchHas, BullStays DEF BatchTypeOK, RowsTyped
<1>4. RowsTyped'
  BY <1>1, <1>3, HandlerHas, WrittenIs DEF RowsTyped
<1>5. /\ st \in {"act", "unlink", "write", "done", "throw"} /\ st = "done"
      /\ st \notin {"act", "unlink", "write"}
      /\ a \in Nat /\ (a = acted[j] \/ a = acted[j] + 1)
  BY WorkHas
<1> HIDE DEF st, a
<1>6. QED
  BY <1>1, <1>2, <1>3, <1>4, <1>5, HandlerMoves

\* A try ends in Redis: well, if the link was changed, and otherwise without a change.
LEMMA RedisTryEnds ==
  ASSUME WorkOK, NEW j \in Jobs, BullInv', UNCHANGED <<row, file, request, link, acted, sync, call, mem>>,
         step' = [step EXCEPT ![j] = "idle"], step[j] \in {"done", "throw"},
         bull[j] # None, bull[j].state = "active",
         NEW b \in Copy, bull' = [bull EXCEPT ![j] = b], b.stalls = bull[j].stalls,
         b.state # "active", step[j] = "done" => b.state = "completed"
  PROVE  WorkOK'
<1>1. WorkInv(call[j], link[j], step[j], acted[j], bull[j], mem[j]) /\ BullInv
  BY WorkHas
<1>2. ~ Runs(mem[j]) /\ (mem[j] # None => mem[j].state # "completed") /\ b # None
  BY <1>1, Apart, Stored
<1>3. /\ acted[j] \in Nat /\ Stalls(bull[j]) \in Nat /\ Stalls(b) = Stalls(bull[j])
      /\ link[j] \in Links \cup {None} /\ "idle" \in HandlerSteps
  BY <1>2, WorkHas DEF Stalls, HandlerSteps
<1>4. WorkInv(call[j], link[j], "idle", acted[j], b, mem[j])
  <2>1. acted[j] <= Stalls(b) + (IF Acting(call[j], "idle", b, mem[j]) THEN 1 ELSE 0)
    <3>1. CASE step[j] = "done"
      <4>1. Acting(call[j], "idle", b, mem[j])
        BY <1>2, <3>1 DEF Acting
      <4>2. acted[j] <= Stalls(bull[j]) + 1
        BY <1>1, <1>3 DEF WorkInv
      <4>3. QED
        BY <1>3, <4>1, <4>2
    <3>2. CASE step[j] # "done"
      <4>1. acted[j] <= Stalls(bull[j])
        BY <1>2, <3>2, Quiet
      <4>2. QED
        BY <1>3, <4>1
    <3>3. QED
      BY <3>1, <3>2
  <2>2. ~ Runs(b)
    BY DEF Runs
  <2>3. QED
    BY <1>1, <1>2, <2>1, <2>2 DEF WorkInv
<1>5. JobBecomes(j, call[j], b, mem[j], link[j], "idle", acted[j])
  BY WorkHas DEF JobBecomes
<1>6. request' \in Request \cup {None} /\ RequestFits(request', call')
  BY RequestRests
<1>7. RowsTyped'
  BY BatchHas DEF BatchTypeOK, RowsTyped
<1>8. QED
  BY <1>3, <1>4, <1>5, <1>6, <1>7, OneJobWorks

\* And in memory.
LEMMA MemoryTryEnds ==
  ASSUME WorkOK, NEW j \in Jobs, BullInv', UNCHANGED <<row, file, request, link, acted, sync, call, bull>>,
         step' = [step EXCEPT ![j] = "idle"], step[j] \in {"done", "throw"},
         mem[j] # None, mem[j].state = "active",
         NEW m \in Copy, mem' = [mem EXCEPT ![j] = m],
         m.state # "active", step[j] = "done" => m.state = "completed"
  PROVE  WorkOK'
<1>1. WorkInv(call[j], link[j], step[j], acted[j], bull[j], mem[j]) /\ BullInv
  BY WorkHas
<1>2. bull[j] = None /\ ~ Runs(bull[j]) /\ m # None
  BY <1>1, Apart, Stored DEF Runs
<1>3. /\ acted[j] \in Nat /\ Stalls(bull[j]) \in Nat
      /\ link[j] \in Links \cup {None} /\ "idle" \in HandlerSteps
  BY WorkHas DEF HandlerSteps
<1>4. WorkInv(call[j], link[j], "idle", acted[j], bull[j], m)
  <2>1. acted[j] <= Stalls(bull[j]) + (IF Acting(call[j], "idle", bull[j], m) THEN 1 ELSE 0)
    <3>1. CASE step[j] = "done"
      <4>1. Acting(call[j], "idle", bull[j], m)
        BY <1>2, <3>1 DEF Acting
      <4>2. acted[j] <= Stalls(bull[j]) + 1
        BY <1>1, <1>3 DEF WorkInv
      <4>3. QED
        BY <1>3, <4>1, <4>2
    <3>2. CASE step[j] # "done"
      <4>1. acted[j] <= Stalls(bull[j])
        BY <1>2, <3>2, Quiet
      <4>2. QED
        BY <1>3, <4>1
    <3>3. QED
      BY <3>1, <3>2
  <2>2. ~ Runs(m)
    BY DEF Runs
  <2>3. QED
    BY <1>1, <1>2, <2>1, <2>2 DEF WorkInv
<1>5. JobBecomes(j, call[j], bull[j], m, link[j], "idle", acted[j])
  BY WorkHas DEF JobBecomes
<1>6. request' \in Request \cup {None} /\ RequestFits(request', call')
  BY RequestRests
<1>7. RowsTyped'
  BY BatchHas DEF BatchTypeOK, RowsTyped
<1>8. QED
  BY <1>3, <1>4, <1>5, <1>6, <1>7, OneJobWorks

LEMMA JobEndsKeeps ==
  ASSUME WorkOK, NEW j \in Jobs, JobEnds(j)
  PROVE  WorkOK'
<1>1. /\ BullInv /\ UNCHANGED <<row, file, request, link, acted, sync>>
      /\ step' = [step EXCEPT ![j] = "idle"]
  BY BatchHas DEF JobEnds
<1>2. CASE step[j] = "done" /\ Complete(j)
  <2> DEFINE b == [bull[j] EXCEPT !.state = "completed", !.made = bull[j].made + 1]
  <2>1. bull[j] # None /\ bull[j].state = "active" /\ bull' = [bull EXCEPT ![j] = b] /\ UNCHANGED <<call, mem>>
    BY <1>2 DEF Complete, SetBull, localVars
  <2>2. bull[j] \in Copy /\ "completed" \in States /\ BullInv'
    BY <1>1, <1>2, <2>1, BullHas, CompleteKeeps DEF States
  <2>3. b \in Copy /\ b.state = "completed" /\ b.stalls = bull[j].stalls
    BY <2>2, CopyMoves
  <2> HIDE DEF b
  <2>4. QED
    BY <1>1, <1>2, <2>1, <2>2, <2>3, RedisTryEnds
<1>3. CASE step[j] = "throw" /\ Fail(j)
  <2> DEFINE st == IF bull[j].made + 1 < call[j].attempts THEN "waiting" ELSE "failed"
             b == [bull[j] EXCEPT !.state = st, !.made = bull[j].made + 1]
  <2>1. bull[j] # None /\ bull[j].state = "active" /\ bull' = [bull EXCEPT ![j] = b] /\ UNCHANGED <<call, mem>>
    BY <1>3 DEF Fail, SetBull, localVars
  <2>2. bull[j] \in Copy /\ st \in States /\ st # "active" /\ BullInv'
    BY <1>1, <1>3, <2>1, BullHas, FailKeeps DEF States
  <2> HIDE DEF st
  <2>3. b \in Copy /\ b.state = st /\ b.stalls = bull[j].stalls
    BY <2>2, CopyMoves
  <2> HIDE DEF b
  <2>4. QED
    BY <1>1, <1>3, <2>1, <2>2, <2>3, RedisTryEnds
<1>4. CASE step[j] = "done" /\ MemoryComplete(j)
  <2> DEFINE m == [mem[j] EXCEPT !.state = "completed", !.made = mem[j].made + 1]
  <2>1. mem[j] # None /\ mem[j].state = "active" /\ mem' = [mem EXCEPT ![j] = m] /\ UNCHANGED <<call, bull>>
    BY <1>4 DEF MemoryComplete, SetMem, redisVars
  <2>2. mem[j] \in Copy /\ "completed" \in States /\ BullInv'
    BY <1>1, <1>4, <2>1, MemHas, MemoryEndsKeep DEF States
  <2>3. m \in Copy /\ m.state = "completed"
    BY <2>2, CopyMoves
  <2> HIDE DEF m
  <2>4. QED
    BY <1>1, <1>4, <2>1, <2>2, <2>3, MemoryTryEnds
<1>5. CASE step[j] = "throw" /\ MemoryFail(j)
  <2> DEFINE st == IF mem[j].made + 1 < call[j].attempts THEN "waiting" ELSE "failed"
             m == [mem[j] EXCEPT !.state = st, !.made = mem[j].made + 1]
  <2>1. mem[j] # None /\ mem[j].state = "active" /\ mem' = [mem EXCEPT ![j] = m] /\ UNCHANGED <<call, bull>>
    BY <1>5 DEF MemoryFail, SetMem, redisVars
  <2>2. mem[j] \in Copy /\ st \in States /\ st # "active" /\ BullInv'
    BY <1>1, <1>5, <2>1, MemHas, MemoryEndsKeep DEF States
  <2> HIDE DEF st
  <2>3. m \in Copy /\ m.state = st
    BY <2>2, CopyMoves
  <2> HIDE DEF m
  <2>4. QED
    BY <1>1, <1>5, <2>1, <2>2, <2>3, MemoryTryEnds
<1>6. QED
  BY <1>2, <1>3, <1>4, <1>5 DEF JobEnds

\* A job that stalled may be tried again, and act once more.
LEMMA JobStalledKeeps ==
  ASSUME WorkOK, NEW j \in Jobs, JobStalled(j)
  PROVE  WorkOK'
<1> DEFINE st == IF bull[j].stalls < MaxStalled THEN "waiting" ELSE "failed"
           b == [bull[j] EXCEPT !.state = st, !.stalls = bull[j].stalls + 1]
<1>1. /\ bull[j] # None /\ bull[j].state = "locked" /\ bull' = [bull EXCEPT ![j] = b]
      /\ UNCHANGED <<call, mem, row, file, request, link, step, acted, sync>>
  BY DEF JobStalled, Stall, SetBull, localVars, batchVars
<1>2. BullInv /\ BullInv'
  BY BatchHas, StallKeeps DEF JobStalled
<1>3. bull[j] \in Copy /\ st \in States /\ st # "active" /\ bull[j].stalls \in Nat
  BY <1>1, <1>2, BullHas DEF States
<1> HIDE DEF st
<1>4. b \in Copy /\ b.state = st /\ b.stalls = bull[j].stalls + 1
  BY <1>3, CopyMoves
<1> HIDE DEF b
<1>5. b # None /\ Stalls(b) = Stalls(bull[j]) + 1 /\ Stalls(bull[j]) \in Nat
  BY <1>1, <1>3, <1>4, Stored DEF Stalls
<1>6. WorkInv(call[j], link[j], step[j], acted[j], bull[j], mem[j])
  BY WorkHas
<1>7. /\ acted[j] \in Nat /\ link[j] \in Links \cup {None}
      /\ step[j] \in HandlerSteps
  BY WorkHas
<1>8. acted[j] <= Stalls(b) + (IF Acting(call[j], step[j], b, mem[j]) THEN 1 ELSE 0)
  BY <1>5, <1>6, <1>7 DEF WorkInv
<1>9. WorkInv(call[j], link[j], step[j], acted[j], b, mem[j])
  BY <1>1, <1>3, <1>4, <1>6, <1>8 DEF WorkInv, Runs
<1>10. JobBecomes(j, call[j], b, mem[j], link[j], step[j], acted[j])
  BY <1>1, WorkHas DEF JobBecomes
<1>11. request' \in Request \cup {None} /\ RequestFits(request', call')
  BY <1>1, RequestRests
<1>12. RowsTyped'
  BY <1>1, BatchHas DEF BatchTypeOK, RowsTyped
<1>13. QED
  BY <1>1, <1>2, <1>7, <1>9, <1>10, <1>11, <1>12, OneJobWorks

-----------------------------------------------------------------------------
(* Requests *)

LEMMA BatchRequestKeeps ==
  ASSUME WorkOK, NEW type \in CallTypes, NEW links \in setting.batches, BatchRequest(type, links)
  PROVE  WorkOK'
<1> DEFINE n == Cardinality(links)
<1>1. /\ request' = [type |-> type, rest |-> links, ids |-> {}, asked |-> n]
      /\ UNCHANGED <<vars, row, file, link, step, acted, sync>>
  BY DEF BatchRequest
<1>2. links \subseteq Links /\ IsFiniteSet(links) /\ n \in Nat
  <2>1. links \subseteq Links
    BY BatchHas, BullMeans, BatchAssumption DEF TypeOK
  <2>2. QED
    BY <2>1, BatchAssumption, FS_Subset, FS_CardinalityType
<1>3. Cardinality({}) = 0
  BY FS_EmptySet
<1>4. type \in BatchTypes
  BY BatchAssumption DEF CallTypes
<1> HIDE DEF n
<1>5. request' \in Request
  BY <1>1, <1>2, <1>4 DEF Request
<1>6. RequestFits(request', call')
  BY <1>1, <1>2, <1>3 DEF RequestFits, n
<1>7. BullInv' /\ UNCHANGED <<call, bull, mem, link, step, acted>>
  BY <1>1, BatchHas, BullStays DEF vars, redisVars, localVars
<1>8. /\ RowsTyped'
      /\ sync' \in Synchronous \cup {None} /\ SyncFits(sync')
  BY <1>1, BatchHas DEF BatchTypeOK, RowsTyped
<1>9. QED
  BY <1>5, <1>6, <1>7, <1>8, WorksStay

LEMMA RequestEndsKeeps ==
  ASSUME WorkOK, RequestEnds
  PROVE  WorkOK'
<1>1. request' = None /\ UNCHANGED <<vars, row, file, link, step, acted, sync>>
  BY DEF RequestEnds
<1>2. RequestFits(request', call')
  BY <1>1 DEF RequestFits
<1>3. BullInv' /\ UNCHANGED <<call, bull, mem, link, step, acted>>
  BY <1>1, BatchHas, BullStays DEF vars, redisVars, localVars
<1>4. /\ RowsTyped'
      /\ sync' \in Synchronous \cup {None} /\ SyncFits(sync')
  BY <1>1, BatchHas DEF BatchTypeOK, RowsTyped
<1>5. QED
  BY <1>1, <1>2, <1>3, <1>4, WorksStay

\* However the job is added, it gets a copy that waits.
LEMMA AddMakes ==
  ASSUME BullInv, NEW j \in Jobs, NEW c \in Calls,
         \/ AddToMemory(j, c) \/ AddToRedis(j, c)
         \/ \E stored \in BOOLEAN : AddFails(j, c, stored)
  PROVE  /\ BullInv' /\ call[j] = None /\ call' = [call EXCEPT ![j] = c]
         /\ \E b \in Copy \cup {None}, m \in Copy \cup {None} :
              /\ bull' = [bull EXCEPT ![j] = b] /\ mem' = [mem EXCEPT ![j] = m]
              /\ b # None => b.state = "waiting" /\ b.stalls = 0
              /\ m # None => m.state = "waiting"
<1>1. call[j] = None => bull = [bull EXCEPT ![j] = None] /\ mem = [mem EXCEPT ![j] = None]
  BY JobHas, Apart
<1>2. c.priority \in Arrays \cup {"3", "5"}
  BY CallHas
<1>3. /\ MemoryPriority(c.priority) \in Arrays \cup {"3", "5"}
      /\ RawPriority(c.priority) \in Arrays \cup {"3", "5"}
  BY DEF MemoryPriority, RawPriority, Arrays
<1>4. CASE AddToMemory(j, c)
  <2>1. /\ call[j] = None /\ call' = [call EXCEPT ![j] = c] /\ UNCHANGED bull
        /\ mem' = [mem EXCEPT ![j] = NewCopy(MemoryPriority(c.priority))]
    BY <1>4 DEF AddToMemory, Adding
  <2>2. NewCopy(MemoryPriority(c.priority)) \in Copy /\ NewCopy(MemoryPriority(c.priority)).state = "waiting"
    BY <1>3, NewCopyIs
  <2>3. QED
    BY <1>1, <1>4, <2>1, <2>2, AddToMemoryKeeps
<1>5. CASE AddToRedis(j, c)
  <2>1. /\ call[j] = None /\ call' = [call EXCEPT ![j] = c] /\ UNCHANGED mem
        /\ bull' = [bull EXCEPT ![j] = NewCopy(c.priority)]
    BY <1>5 DEF AddToRedis, Adding
  <2>2. NewCopy(c.priority) \in Copy /\ NewCopy(c.priority).state = "waiting" /\ NewCopy(c.priority).stalls = 0
    BY <1>2, NewCopyIs
  <2>3. QED
    BY <1>1, <1>5, <2>1, <2>2, AddToRedisKeeps
<1>6. CASE \E stored \in BOOLEAN : AddFails(j, c, stored)
  <2>1. PICK stored \in BOOLEAN : AddFails(j, c, stored)
    BY <1>6
  <2>2. /\ call[j] = None /\ call' = [call EXCEPT ![j] = c]
        /\ mem' = [mem EXCEPT ![j] = NewCopy(RawPriority(c.priority))]
        /\ bull' = IF stored THEN [bull EXCEPT ![j] = NewCopy(c.priority)] ELSE bull
    BY <2>1 DEF AddFails, Adding
  <2>3. NewCopy(RawPriority(c.priority)) \in Copy /\ NewCopy(RawPriority(c.priority)).state = "waiting"
    BY <1>3, NewCopyIs
  <2>4. NewCopy(c.priority) \in Copy /\ NewCopy(c.priority).state = "waiting" /\ NewCopy(c.priority).stalls = 0
    BY <1>2, NewCopyIs
  <2>5. BullInv'
    BY <2>1, AddFailsKeeps
  <2>6. QED
    BY <1>1, <2>2, <2>3, <2>4, <2>5
<1>7. QED
  BY <1>4, <1>5, <1>6

LEMMA QueueNextKeeps ==
  ASSUME WorkOK, NEW j \in Jobs, NEW l \in Links, QueueNext(j, l)
  PROVE  WorkOK'
<1>1. /\ request # None /\ l \in request.rest /\ link' = [link EXCEPT ![j] = l]
      /\ request' = [request EXCEPT !.rest = request.rest \ {l}, !.ids = request.ids \cup {j}]
      /\ UNCHANGED <<row, file, step, acted, sync>>
  BY DEF QueueNext
<1>2. PICK c \in Calls :
        \/ AddToMemory(j, c) \/ AddToRedis(j, c)
        \/ \E stored \in BOOLEAN : AddFails(j, c, stored)
  BY DEF QueueNext
<1>3. BullInv /\ BullInv' /\ call[j] = None /\ call' = [call EXCEPT ![j] = c]
  BY <1>2, AddMakes, BatchHas
<1>4. PICK b \in Copy \cup {None}, m \in Copy \cup {None} :
        /\ bull' = [bull EXCEPT ![j] = b] /\ mem' = [mem EXCEPT ![j] = m]
        /\ b # None => b.state = "waiting" /\ b.stalls = 0
        /\ m # None => m.state = "waiting"
  BY <1>2, AddMakes, BatchHas
<1>5. WorkInv(call[j], link[j], step[j], acted[j], bull[j], mem[j])
  BY WorkHas
<1>6. bull[j] = None /\ mem[j] = None
  BY <1>3, Apart
<1>7. step[j] = "idle"
  BY <1>5, <1>6 DEF WorkInv, Runs
<1>8. acted[j] = 0
  <2>1. acted[j] <= Stalls(bull[j]) /\ acted[j] \in Nat
    BY <1>3, <1>6, <1>7, Quiet, WorkHas
  <2>2. QED
    BY <1>6, <2>1 DEF Stalls
<1>9. c # None /\ l # None
  BY Stored
<1>10. WorkInv(c, l, step[j], acted[j], b, m)
  <2>1. Stalls(b) = 0
    BY <1>4 DEF Stalls
  <2>2. acted[j] <= Stalls(b) + (IF Acting(c, step[j], b, m) THEN 1 ELSE 0)
    BY <1>8, <2>1
  <2>3. ~ Runs(b) /\ ~ Runs(m)
    BY <1>4 DEF Runs
  <2>4. QED
    BY <1>7, <1>9, <2>2, <2>3 DEF WorkInv
<1>11. JobBecomes(j, c, b, m, l, step[j], acted[j])
  BY <1>1, <1>3, <1>4, WorkHas DEF JobBecomes
<1>12. request \in Request /\ RequestFits(request, call)
  BY <1>1, BatchHas DEF BatchTypeOK, RowsTyped
<1>13. /\ request.type \in BatchTypes /\ request.rest \subseteq Links /\ request.ids \subseteq Jobs
       /\ request.asked \in Nat
  BY <1>12 DEF Request
<1>14. request' = [type |-> request.type, rest |-> request.rest \ {l},
                   ids |-> request.ids \cup {j}, asked |-> request.asked]
  BY <1>1, <1>12 DEF Request
<1>15. request' \in Request
  BY <1>13, <1>14 DEF Request
<1>16. RequestFits(request', call')
  <2>1. j \notin request.ids
    BY <1>1, <1>3, <1>12 DEF RequestFits
  <2>2. IsFiniteSet(request.ids) /\ IsFiniteSet(request.rest)
    BY <1>13, BullAssumption, BatchAssumption, FS_Subset
  <2>3. Cardinality(request.ids \cup {j}) = Cardinality(request.ids) + 1
    BY <2>1, <2>2, FS_AddElement
  <2>4. Cardinality(request.rest \ {l}) = Cardinality(request.rest) - 1
    BY <1>1, <2>2, FS_RemoveElement
  <2>5. Cardinality(request.ids) \in Nat /\ Cardinality(request.rest) \in Nat
    BY <2>2, FS_CardinalityType
  <2>6. Cardinality(request.ids) + Cardinality(request.rest) = request.asked
    BY <1>1, <1>12 DEF RequestFits
  <2>7. Cardinality(request'.ids) + Cardinality(request'.rest) = request'.asked
    BY <1>14, <2>3, <2>4, <2>5, <2>6
  <2>8. \A i \in request'.ids : call'[i] # None
    <3>1. call' = [i \in Jobs |-> IF i = j THEN c ELSE call[i]]
      BY <1>3, BullMeans DEF TypeOK
    <3>2. \A i \in request.ids : call[i] # None
      BY <1>1, <1>12 DEF RequestFits
    <3>3. QED
      BY <1>9, <1>13, <1>14, <3>1, <3>2
  <2>9. QED
    BY <2>7, <2>8 DEF RequestFits
<1>17. RowsTyped'
  BY <1>1, BatchHas DEF BatchTypeOK, RowsTyped
<1>18. /\ l \in Links \cup {None} /\ step[j] \in HandlerSteps
       /\ acted[j] \in Nat /\ UNCHANGED sync
  BY <1>1, WorkHas
<1>19. QED
  BY <1>3, <1>10, <1>11, <1>15, <1>16, <1>17, <1>18, OneJobWorks

-----------------------------------------------------------------------------
(* The synchronous calls *)

\* A step of a synchronous call.
LEMMA SyncMoves ==
  ASSUME WorkOK, BullInv', UNCHANGED <<redisVars, localVars, request, link, step, acted>>,
         RowsTyped', sync' \in Synchronous \cup {None}, SyncFits(sync')
  PROVE  WorkOK'
<1>1. UNCHANGED <<call, bull, mem, link, step, acted>>
  BY DEF redisVars, localVars
<1>2. request' \in Request \cup {None} /\ RequestFits(request', call')
  BY <1>1, RequestRests
<1>3. QED
  BY <1>1, <1>2, WorksStay

LEMMA SyncHas ==
  ASSUME WorkOK, sync # None
  PROVE  /\ sync \in Synchronous /\ SyncFits(sync)
         /\ sync.type \in BatchTypes /\ sync.rest \subseteq Links /\ sync.at \in Links \cup {None}
         /\ sync.step \in {"fetch", "act", "unlink", "write"}
         /\ sync.step # "fetch" => sync.at \in Links /\ sync.at # None /\ sync.at \in Owned
         /\ sync.success \in Nat /\ sync.failed \in Nat /\ sync.asked \in Nat
         /\ IsFiniteSet(sync.rest) /\ Cardinality(sync.rest) \in Nat
         /\ sync.success + sync.failed + Cardinality(sync.rest) + (IF sync.at = None THEN 0 ELSE 1)
              = sync.asked
<1>1. sync \in Synchronous /\ SyncFits(sync)
  BY BatchHas DEF BatchTypeOK, RowsTyped
<1>2. /\ sync.type \in BatchTypes /\ sync.rest \subseteq Links /\ sync.at \in Links \cup {None}
      /\ sync.step \in {"fetch", "act", "unlink", "write"}
      /\ sync.success \in Nat /\ sync.failed \in Nat /\ sync.asked \in Nat
  BY <1>1 DEF Synchronous
<1>3. IsFiniteSet(sync.rest)
  BY <1>2, BatchAssumption, FS_Subset
<1>4. Cardinality(sync.rest) \in Nat
  BY <1>3, FS_CardinalityType
<1>5. sync.step # "fetch" => sync.at \in Links /\ sync.at # None /\ sync.at \in Owned
  BY <1>1, <1>2 DEF SyncFits
<1>6. QED
  BY <1>1, <1>2, <1>3, <1>4, <1>5 DEF SyncFits

LEMMA SyncCallKeeps ==
  ASSUME WorkOK, NEW type \in CallTypes, NEW links \in setting.syncs, SyncCall(type, links)
  PROVE  WorkOK'
<1> DEFINE n == Cardinality(links)
<1>1. /\ sync' = [type |-> type, rest |-> links, at |-> None, step |-> "fetch",
                success |-> 0, failed |-> 0, asked |-> n]
      /\ UNCHANGED <<vars, row, file, request, link, step, acted>>
  BY DEF SyncCall
<1>2. links \subseteq Links
  BY BatchHas, BullMeans, BatchAssumption DEF TypeOK
<1>3. IsFiniteSet(links) /\ n \in Nat
  BY <1>2, BatchAssumption, FS_Subset, FS_CardinalityType
<1>4. type \in BatchTypes
  BY BatchAssumption DEF CallTypes
<1> HIDE DEF n
<1>5. sync' \in Synchronous
  BY <1>1, <1>2, <1>3, <1>4 DEF Synchronous
<1>6. SyncFits(sync')
  BY <1>1, <1>3 DEF SyncFits, n
<1>7. RowsTyped' /\ BullInv' /\ UNCHANGED <<redisVars, localVars, request, link, step, acted>>
  BY <1>1, BatchHas, BullStays DEF BatchTypeOK, RowsTyped, vars
<1>8. QED
  BY <1>1, <1>5, <1>6, <1>7, SyncMoves

LEMMA SyncFetchesKeeps ==
  ASSUME WorkOK, NEW l \in Links, SyncFetches(l)
  PROVE  WorkOK'
<1> DEFINE found == IF Finds(sync.type, l) THEN l ELSE None
           lost == IF Finds(sync.type, l) THEN sync.failed ELSE sync.failed + 1
           rest == sync.rest \ {l}
           at == IF Finds(sync.type, l) THEN "act" ELSE "fetch"
<1>1. /\ sync # None /\ sync.at = None /\ l \in sync.rest
      /\ UNCHANGED <<vars, row, file, request, link, step, acted>>
      /\ sync' = [sync EXCEPT !.rest = rest, !.at = found, !.step = at, !.failed = lost]
  BY DEF SyncFetches
<1>2. Cardinality(rest) = Cardinality(sync.rest) - 1
  BY <1>1, SyncHas, FS_RemoveElement
<1>3. /\ found \in Links \cup {None} /\ (found # None => found \in Owned)
      /\ at \in {"fetch", "act"} /\ (found = None <=> at = "fetch")
      /\ lost + (IF found = None THEN 0 ELSE 1) = sync.failed + 1
      /\ lost \in Nat
  <2>1. sync.failed \in Nat /\ l # None
    BY <1>1, SyncHas, Stored
  <2>2. CASE Finds(sync.type, l)
    BY <2>1, <2>2 DEF Finds
  <2>3. CASE ~ Finds(sync.type, l)
    BY <2>1, <2>3
  <2>4. QED
    BY <2>2, <2>3
<1> HIDE DEF found, lost, at
<1>4. sync' = [type |-> sync.type, rest |-> rest, at |-> found, step |-> at, success |-> sync.success,
               failed |-> lost, asked |-> sync.asked]
  BY <1>1, SyncHas DEF Synchronous
<1>5. sync' \in Synchronous
  BY <1>1, <1>3, <1>4, SyncHas DEF Synchronous
<1>6. SyncFits(sync')
  <2>1. sync.success \in Nat /\ sync.failed \in Nat /\ Cardinality(sync.rest) \in Nat
    BY <1>1, SyncHas
  <2>2. sync.success + sync.failed + Cardinality(sync.rest) = sync.asked
    BY <1>1, <2>1, SyncHas
  <2>3. sync.success + lost + Cardinality(rest) + (IF found = None THEN 0 ELSE 1) = sync.asked
    BY <1>2, <1>3, <2>1, <2>2
  <2>4. QED
    BY <1>3, <1>4, <2>3 DEF SyncFits
<1>7. RowsTyped' /\ BullInv' /\ UNCHANGED <<redisVars, localVars, request, link, step, acted>>
  BY <1>1, BatchHas, BullStays DEF BatchTypeOK, RowsTyped, vars
<1>8. QED
  BY <1>1, <1>5, <1>6, <1>7, SyncMoves

\* The call goes on with its link, or counts it: as done or as failed.
SyncBecomes(at, st, done, lost) ==
  sync' = [type |-> sync.type, rest |-> sync.rest, at |-> at, step |-> st,
           success |-> done, failed |-> lost, asked |-> sync.asked]

LEMMA SyncGoesOn ==
  ASSUME WorkOK, sync # None, sync.step # "fetch", BullInv', RowsTyped',
         UNCHANGED <<redisVars, localVars, request, link, step, acted>>,
         NEW at, NEW st, NEW done \in Nat, NEW lost \in Nat, SyncBecomes(at, st, done, lost),
         \/ /\ at = sync.at /\ st \in {"act", "unlink", "write"}
            /\ done = sync.success /\ lost = sync.failed
         \/ /\ at = None /\ st = "fetch"
            /\ done + lost = sync.success + sync.failed + 1
  PROVE  WorkOK'
<1>1. /\ sync \in Synchronous /\ sync.type \in BatchTypes /\ sync.rest \subseteq Links
      /\ sync.at \in Links /\ sync.at # None /\ sync.at \in Owned
      /\ sync.success \in Nat /\ sync.failed \in Nat /\ sync.asked \in Nat
      /\ Cardinality(sync.rest) \in Nat
      /\ sync.success + sync.failed + Cardinality(sync.rest) + (IF sync.at = None THEN 0 ELSE 1)
           = sync.asked
  BY SyncHas
<1>2. sync' = [type |-> sync.type, rest |-> sync.rest, at |-> at, step |-> st,
               success |-> done, failed |-> lost, asked |-> sync.asked]
  BY <1>1 DEF Synchronous, SyncBecomes
<1>3. sync' \in Synchronous
  BY <1>1, <1>2 DEF Synchronous
<1>4. done + lost + Cardinality(sync.rest) + (IF at = None THEN 0 ELSE 1) = sync.asked
  BY <1>1
<1>5. SyncFits(sync')
  BY <1>1, <1>2, <1>4 DEF SyncFits
<1>6. QED
  BY <1>3, <1>5, SyncMoves

LEMMA SyncFailedIs ==
  ASSUME WorkOK, sync # None, sync' = SyncFailed
  PROVE  /\ SyncBecomes(None, "fetch", sync.success, sync.failed + 1)
         /\ sync.success \in Nat /\ sync.failed \in Nat /\ sync.failed + 1 \in Nat
<1>1. sync \in Synchronous /\ sync.success \in Nat /\ sync.failed \in Nat
  BY SyncHas
<1>2. sync' = [type |-> sync.type, rest |-> sync.rest, at |-> None, step |-> "fetch",
               success |-> sync.success, failed |-> sync.failed + 1, asked |-> sync.asked]
  BY <1>1 DEF SyncFailed, Synchronous
<1>3. SyncBecomes(None, "fetch", sync.success, sync.failed + 1)
  BY <1>2 DEF SyncBecomes
<1>4. QED
  BY <1>1, <1>3

LEMMA SyncLooksAgainKeeps ==
  ASSUME WorkOK, SyncLooksAgain
  PROVE  WorkOK'
<1>1. sync # None /\ sync.step = "act" /\ UNCHANGED <<vars, row, file, request, link, step, acted>>
  BY DEF SyncLooksAgain
<1>2. BullInv' /\ RowsTyped' /\ UNCHANGED <<redisVars, localVars, request, link, step, acted>>
  BY <1>1, BatchHas, BullStays DEF BatchTypeOK, RowsTyped, vars
<1>3. CASE Exists(sync.type, sync.at)
  <2> DEFINE st == AfterLookup(sync.type)
  <2>1. sync' = [sync EXCEPT !.step = st]
    BY <1>3 DEF SyncLooksAgain
  <2>2. st \in {"act", "unlink", "write"}
    BY AfterIs
  <2> HIDE DEF st
  <2>3. SyncBecomes(sync.at, st, sync.success, sync.failed) /\ sync.success \in Nat /\ sync.failed \in Nat
    BY <1>1, <2>1, SyncHas DEF SyncBecomes, Synchronous
  <2>4. QED
    BY <1>1, <1>2, <2>2, <2>3, SyncGoesOn
<1>4. CASE ~ Exists(sync.type, sync.at)
  <2>1. sync' = SyncFailed
    BY <1>4 DEF SyncLooksAgain
  <2>2. sync.success + (sync.failed + 1) = sync.success + sync.failed + 1
    BY <1>1, SyncHas
  <2>3. QED
    BY <1>1, <1>2, <2>1, <2>2, SyncFailedIs, SyncGoesOn
<1>5. QED
  BY <1>3, <1>4

LEMMA SyncUnlinksKeeps ==
  ASSUME WorkOK, SyncUnlinks
  PROVE  WorkOK'
<1>1. /\ sync # None /\ sync.step = "unlink" /\ StorageDeletes(sync.at)
      /\ sync' = [sync EXCEPT !.step = "write"]
      /\ UNCHANGED <<redisVars, localVars, ran, crashes, row, request, link, step, acted>>
  BY DEF SyncUnlinks
<1>2. BullInv' /\ RowsTyped'
  BY <1>1, SyncHas, StorageHas
<1> DEFINE st == "write"
<1>3. st \in {"act", "unlink", "write"} /\ sync' = [sync EXCEPT !.step = st]
  BY <1>1
<1> HIDE DEF st
<1>4. SyncBecomes(sync.at, st, sync.success, sync.failed) /\ sync.success \in Nat /\ sync.failed \in Nat
  BY <1>1, <1>3, SyncHas DEF SyncBecomes, Synchronous
<1>5. QED
  BY <1>1, <1>2, <1>3, <1>4, SyncGoesOn

LEMMA SyncWritesKeeps ==
  ASSUME WorkOK, SyncWrites
  PROVE  WorkOK'
<1>1. /\ sync # None /\ sync.step = "write" /\ row' = Written(sync.type, sync.at)
      /\ sync' = [sync EXCEPT !.at = None, !.step = "fetch", !.success = sync.success + 1]
      /\ UNCHANGED <<vars, file, request, link, step, acted>>
  BY DEF SyncWrites
<1>2. BullInv' /\ RowsTyped /\ UNCHANGED <<redisVars, localVars, request, link, step, acted>>
  BY <1>1, BatchHas, BullStays DEF BatchTypeOK, RowsTyped, vars
<1>3. RowsTyped'
  BY <1>1, <1>2, SyncHas, WrittenIs DEF RowsTyped
<1>4. sync' = [type |-> sync.type, rest |-> sync.rest, at |-> None, step |-> "fetch",
               success |-> sync.success + 1, failed |-> sync.failed, asked |-> sync.asked]
  BY <1>1, SyncHas DEF Synchronous
<1>5. SyncBecomes(None, "fetch", sync.success + 1, sync.failed)
  BY <1>4 DEF SyncBecomes
<1>6. /\ sync.success + 1 \in Nat /\ sync.failed \in Nat
      /\ (sync.success + 1) + sync.failed = sync.success + sync.failed + 1
  BY <1>1, SyncHas
<1>7. QED
  BY <1>1, <1>2, <1>3, <1>5, <1>6, SyncGoesOn

LEMMA SyncQueryFailsKeeps ==
  ASSUME WorkOK, SyncQueryFails
  PROVE  WorkOK'
<1>1. /\ sync # None /\ sync.step \in {"act", "write"} /\ sync' = SyncFailed
      /\ faults < setting.faults /\ faults' = faults + 1
      /\ UNCHANGED <<redisVars, localVars, ran, crashes, row, file, request, link, step, acted>>
  BY DEF SyncQueryFails
<1>2. BullInv' /\ RowsTyped'
  BY <1>1, BatchHas, FaultKeeps DEF BatchTypeOK, RowsTyped
<1>3. sync.success + (sync.failed + 1) = sync.success + sync.failed + 1
  BY <1>1, SyncHas
<1>4. QED
  BY <1>1, <1>2, <1>3, SyncFailedIs, SyncGoesOn

LEMMA SyncEndsKeeps ==
  ASSUME WorkOK, SyncEnds
  PROVE  WorkOK'
<1>1. sync' = None /\ UNCHANGED <<vars, row, file, request, link, step, acted>>
  BY DEF SyncEnds
<1>2. SyncFits(sync')
  BY <1>1 DEF SyncFits
<1>3. RowsTyped' /\ BullInv' /\ UNCHANGED <<redisVars, localVars, request, link, step, acted>>
  BY <1>1, BatchHas, BullStays DEF BatchTypeOK, RowsTyped, vars
<1>4. QED
  BY <1>1, <1>2, <1>3, SyncMoves

-----------------------------------------------------------------------------
(* The process, and the theorem *)

\* A step of the process that no job or handler sees.
LEMMA ProcessMoves ==
  ASSUME WorkOK, BullInv', UNCHANGED <<call, bull, mem>>, UNCHANGED batchVars
  PROVE  WorkOK'
<1>1. UNCHANGED <<row, file, request, link, step, acted, sync>>
  BY DEF batchVars
<1>2. /\ RowsTyped'
      /\ sync' \in Synchronous \cup {None} /\ SyncFits(sync')
  BY <1>1, BatchHas DEF BatchTypeOK, RowsTyped
<1>3. request' \in Request \cup {None} /\ RequestFits(request', call')
  BY <1>1, RequestRests
<1>4. QED
  BY <1>1, <1>2, <1>3, WorksStay

\* The process dies: a handler that may have acted leaves a job that may have.
LEMMA BatchCrashKeeps ==
  ASSUME WorkOK, BatchCrash
  PROVE  WorkOK'
<1> DEFINE locked(j) == [bull[j] EXCEPT !.state = "locked"]
<1>1. BullInv /\ BullInv' /\ BatchTypeOK
  BY BatchHas, CrashKeeps DEF BatchCrash
<1>2. /\ bull' = [j \in Jobs |-> IF bull[j] # None /\ bull[j].state = "active" THEN locked(j) ELSE bull[j]]
      /\ mem' = [j \in Jobs |-> None] /\ UNCHANGED <<call, row, file, link, acted>>
      /\ step' = [j \in Jobs |-> "idle"] /\ request' = None /\ sync' = None
  BY DEF BatchCrash, Crash
<1>3. \A j \in Jobs : bull[j] # None =>
        locked(j) # None /\ locked(j).state = "locked" /\ locked(j).stalls = bull[j].stalls
  <2> SUFFICES ASSUME NEW j \in Jobs, bull[j] # None
               PROVE  locked(j) # None /\ locked(j).state = "locked" /\ locked(j).stalls = bull[j].stalls
    OBVIOUS
  <2>1. "locked" \in States
    BY DEF States
  <2>2. bull[j] \in Copy
    BY <1>1, BullHas
  <2>3. locked(j) \in Copy /\ locked(j).state = "locked" /\ locked(j).stalls = bull[j].stalls
    BY <2>1, <2>2, CopyMoves
  <2> HIDE DEF locked
  <2>4. QED
    BY <2>3, Stored
<1> HIDE DEF locked
<1>4. BatchTypeOK'
  BY <1>1, <1>2 DEF BatchTypeOK, HandlerSteps
<1>5. Works'
  <2> SUFFICES ASSUME NEW j \in Jobs
               PROVE  WorkInv(call'[j], link'[j], step'[j], acted'[j], bull'[j], mem'[j])
    BY DEF Works
  <2>1. /\ WorkInv(call[j], link[j], step[j], acted[j], bull[j], mem[j])
        /\ acted[j] \in Nat /\ Stalls(bull[j]) \in Nat
    BY WorkHas
  <2>2. /\ call'[j] = call[j] /\ link'[j] = link[j] /\ step'[j] = "idle" /\ acted'[j] = acted[j]
        /\ mem'[j] = None
    BY <1>2
  <2>3. ~ Runs(bull'[j]) /\ ~ Runs(mem'[j]) /\ Stalls(bull'[j]) = Stalls(bull[j])
    <3>1. bull'[j] = IF bull[j] # None /\ bull[j].state = "active" THEN locked(j) ELSE bull[j]
      BY <1>2
    <3>2. QED
      BY <1>3, <2>2, <3>1 DEF Runs, Stalls
  <2>4. Acting(call[j], step[j], bull[j], mem[j]) => Acting(call'[j], step'[j], bull'[j], mem'[j])
    <3>1. CASE bull[j] = None
      <4>1. bull'[j] = None
        BY <1>2, <3>1
      <4>2. call[j] = None => step[j] = "idle" /\ mem[j] = None
        BY <1>1, <2>1, <3>1, Apart DEF WorkInv, Runs
      <4>3. QED
        BY <2>2, <3>1, <4>1, <4>2 DEF Acting
    <3>2. CASE bull[j] # None /\ bull[j].state = "active"
      <4>1. bull'[j] = locked(j)
        BY <1>2, <3>2
      <4>2. QED
        BY <1>3, <3>2, <4>1 DEF Acting
    <3>3. CASE bull[j] # None /\ bull[j].state # "active"
      <4>1. bull'[j] = bull[j]
        BY <1>2, <3>3
      <4>2. step[j] = "idle" /\ (mem[j] # None => mem[j].state # "completed")
        BY <1>1, <2>1, <3>3, Apart DEF WorkInv, Runs
      <4>3. QED
        BY <3>3, <4>1, <4>2 DEF Acting
    <3>4. QED
      BY <3>1, <3>2, <3>3
  <2>5. acted[j] <= Stalls(bull[j]) + (IF Acting(call[j], step[j], bull[j], mem[j]) THEN 1 ELSE 0)
    BY <2>1 DEF WorkInv
  <2>6. acted'[j] <= Stalls(bull'[j]) + (IF Acting(call'[j], step'[j], bull'[j], mem'[j]) THEN 1 ELSE 0)
    BY <2>1, <2>2, <2>3, <2>4, <2>5
  <2>7. call'[j] = None <=> link'[j] = None
    BY <2>1, <2>2 DEF WorkInv
  <2>8. QED
    BY <2>2, <2>3, <2>6, <2>7 DEF WorkInv
<1>6. RequestFits(request', call') /\ SyncFits(sync')
  BY <1>2 DEF RequestFits, SyncFits
<1>7. QED
  BY <1>1, <1>4, <1>5, <1>6, BatchKeeps

LEMMA BatchBegins == BatchInit => WorkOK
<1> SUFFICES ASSUME BatchInit PROVE WorkOK
  OBVIOUS
<1>1. BullInv
  BY BullInit DEF BatchInit
<1>2. /\ call = [j \in Jobs |-> None] /\ bull = [j \in Jobs |-> None] /\ mem = [j \in Jobs |-> None]
      /\ row \in [Links -> {"active", "trashed"}] /\ file = [l \in Links |-> "stored"] /\ request = None /\ sync = None
      /\ link = [j \in Jobs |-> None] /\ step = [j \in Jobs |-> "idle"] /\ acted = [j \in Jobs |-> 0]
  BY DEF BatchInit, Init
<1>3. BatchTypeOK
  BY <1>2 DEF BatchTypeOK, HandlerSteps
<1>4. EveryLinkIsAccountedFor
  BY <1>2 DEF EveryLinkIsAccountedFor
<1>5. WorkIsNotRepeated /\ ActsAreCounted
  BY <1>2 DEF WorkIsNotRepeated, ActsAreCounted, MayHaveActed
<1>6. HandlersAreOfJobs
  <2>1. \A j \in Jobs : ~ Runs(bull[j]) /\ ~ Runs(mem[j])
    BY <1>2 DEF Runs
  <2>2. QED
    BY <1>2, <2>1 DEF HandlersAreOfJobs
<1>7. QED
  BY <1>1, <1>3, <1>4, <1>5, <1>6 DEF WorkOK

\* Every action keeps the invariant.
LEMMA BatchSteps == WorkOK /\ [BatchNext]_allVars => WorkOK'
<1> SUFFICES ASSUME WorkOK, [BatchNext]_allVars
             PROVE  WorkOK'
  OBVIOUS
<1>1. CASE \E broken \in SUBSET QueueNames : Register(broken) /\ UNCHANGED batchVars
  <2>1. PICK broken \in SUBSET QueueNames : Register(broken) /\ UNCHANGED batchVars
    BY <1>1
  <2>2. UNCHANGED <<call, bull, mem>>
    BY <2>1 DEF Register, redisVars
  <2>3. QED
    BY <2>1, <2>2, BatchHas, RegisterKeeps, ProcessMoves
<1>2. CASE \E type \in CallTypes, links \in setting.batches : BatchRequest(type, links)
  BY <1>2, BatchRequestKeeps
<1>3. CASE \E j \in Jobs, l \in Links : QueueNext(j, l)
  BY <1>3, QueueNextKeeps
<1>4. CASE RequestEnds
  BY <1>4, RequestEndsKeeps
<1>5. CASE \E j \in Jobs :
             \/ JobStarts(j) \/ JobFetches(j) \/ JobLooksAgain(j) \/ JobUnlinks(j)
             \/ JobWrites(j) \/ JobQueryFails(j) \/ JobEnds(j) \/ JobStalled(j)
  BY <1>5, JobStartsKeeps, JobFetchesKeeps, JobLooksAgainKeeps, JobUnlinksKeeps, JobWritesKeeps,
     JobQueryFailsKeeps, JobEndsKeeps, JobStalledKeeps
<1>6. CASE \E type \in CallTypes, links \in setting.syncs : SyncCall(type, links)
  BY <1>6, SyncCallKeeps
<1>7. CASE \E l \in Links : SyncFetches(l)
  BY <1>7, SyncFetchesKeeps
<1>8. CASE SyncLooksAgain \/ SyncUnlinks \/ SyncWrites \/ SyncQueryFails \/ SyncEnds
  BY <1>8, SyncLooksAgainKeeps, SyncUnlinksKeeps, SyncWritesKeeps, SyncQueryFailsKeeps,
     SyncEndsKeeps
<1>9. CASE \E q \in QueueNames : CloseWorker(q) /\ UNCHANGED batchVars
  <2>1. PICK q \in QueueNames : CloseWorker(q) /\ UNCHANGED batchVars
    BY <1>9
  <2>2. UNCHANGED <<call, bull, mem>>
    BY <2>1 DEF CloseWorker, redisVars
  <2>3. QED
    BY <2>1, <2>2, BatchHas, CloseWorkerKeeps, ProcessMoves
<1>10. CASE (WorkerClosed \/ CloseQueues) /\ UNCHANGED batchVars
  <2>1. UNCHANGED <<call, bull, mem>>
    BY <1>10 DEF WorkerClosed, CloseQueues, redisVars
  <2>2. BullInv'
    BY <1>10, BatchHas, WorkerClosedKeeps, CloseQueuesKeeps
  <2>3. QED
    BY <1>10, <2>1, <2>2, ProcessMoves
<1>11. CASE BatchCrash
  BY <1>11, BatchCrashKeeps
<1>12. CASE UNCHANGED allVars
  <2>1. UNCHANGED vars /\ UNCHANGED batchVars
    BY <1>12 DEF allVars
  <2>2. UNCHANGED <<call, bull, mem>>
    BY <2>1 DEF vars, redisVars, localVars
  <2>3. QED
    BY <2>1, <2>2, BatchHas, BullStays, ProcessMoves
<1>13. QED
  BY <1>1, <1>2, <1>3, <1>4, <1>5, <1>6, <1>7, <1>8, <1>9, <1>10, <1>11, <1>12 DEF BatchNext

-----------------------------------------------------------------------------
(* Files and rows that were purged *)

ForceDelete == "batch_force_delete"

\* The job with the call c and the link lk, whose handler is at st and has written a
\* times, with its copies b and m, over the rows r and the files f.
PurgeInv(c, lk, st, a, b, m, r, f) ==
  c # None =>
    /\ st = "unlink" => c.type = ForceDelete
    /\ st = "write" /\ c.type = ForceDelete => f[lk] # "stored"
    /\ a > 0 /\ c.type = ForceDelete => r[lk] = "gone"
    /\ st = "done" \/ HasEnded(b) \/ HasEnded(m) => a > 0 \/ r[lk] = "gone"

SyncPurge(sy, f) ==
  sy # None /\ sy.step = "write" /\ sy.type = ForceDelete => f[sy.at] # "stored"

RowsPurged(r, f) == \A l \in Links : r[l] = "gone" => f[l] # "stored"

Purges ==
  \A j \in Jobs : PurgeInv(call[j], link[j], step[j], acted[j], bull[j], mem[j], row, file)

\* The invariant in these terms, before and after a step.
LEMMA BatchMeans == BatchInv <=> WorkOK /\ Purges /\ SyncPurge(sync, file) /\ RowsPurged(row, file)
<1>1. WorkOK => \A j \in Jobs : step[j] = "write" => call[j] # None
  BY HandlerHas, Stored
<1>2. WorkOK => (FilesGoFirst /\ DoneIsWritten
                   <=> Purges /\ SyncPurge(sync, file) /\ RowsPurged(row, file))
  BY <1>1 DEF FilesGoFirst, DoneIsWritten, Purges, PurgeInv, SyncPurge, RowsPurged, ForceDelete
<1>3. QED
  BY <1>2 DEF BatchInv, WorkOK

LEMMA BatchMeansNext ==
  ASSUME WorkOK', Purges', SyncPurge(sync', file'), RowsPurged(row', file'),
         \A j \in Jobs : step'[j] = "write" => call'[j] # None
  PROVE  BatchInv'
<1>1. FilesGoFirst'
  BY DEF FilesGoFirst, Purges, PurgeInv, SyncPurge, RowsPurged, ForceDelete
<1>2. DoneIsWritten'
  BY DEF DoneIsWritten, Purges, PurgeInv, ForceDelete
<1>3. QED
  BY <1>1, <1>2 DEF BatchInv, WorkOK

\* Rows that were purged stay so, and files that are not stored.
Ages ==
  \A l \in Links : /\ row[l] = "gone" => row'[l] = "gone"
                   /\ file[l] # "stored" => file'[l] # "stored"

\* A step after which a job says nothing of its link that it did not say before.
SaysNoMore(j) ==
  /\ call'[j] = call[j] /\ link'[j] = link[j] /\ acted'[j] = acted[j]
  /\ step'[j] = "unlink" => step[j] = "unlink" \/ call[j].type = ForceDelete
  /\ step'[j] = "write" /\ call[j].type = ForceDelete => step[j] = "write"
  /\ step'[j] = "done" \/ HasEnded(bull'[j]) \/ HasEnded(mem'[j]) =>
       step[j] = "done" \/ HasEnded(bull[j]) \/ HasEnded(mem[j])

LEMMA LinkIs ==
  ASSUME WorkOK, NEW j \in Jobs, call[j] # None
  PROVE  link[j] \in Links /\ call[j] \in Calls /\ call[j].type \in BatchTypes
<1>1. call[j] \in Calls /\ link[j] \in Links
  BY WorkHas DEF WorkInv
<1>2. QED
  BY <1>1, BatchAssumption

LEMMA SayingNoMore ==
  ASSUME WorkOK, Purges, Ages, NEW j \in Jobs, SaysNoMore(j)
  PROVE  PurgeInv(call'[j], link'[j], step'[j], acted'[j], bull'[j], mem'[j], row', file')
<1>1. SUFFICES ASSUME call[j] # None
               PROVE  PurgeInv(call'[j], link'[j], step'[j], acted'[j], bull'[j], mem'[j], row', file')
  BY DEF PurgeInv, SaysNoMore
<1>2. link[j] \in Links
  BY <1>1, LinkIs
<1>3. PurgeInv(call[j], link[j], step[j], acted[j], bull[j], mem[j], row, file)
  BY DEF Purges
<1>4. QED
  BY <1>1, <1>2, <1>3 DEF PurgeInv, SaysNoMore, Ages

\* A step that leaves rows, files and the synchronous call alone.
LEMMA QuietStep ==
  ASSUME BatchInv, WorkOK', UNCHANGED <<row, file, sync>>, \A j \in Jobs : SaysNoMore(j),
         \A j \in Jobs : step'[j] = "write" => call'[j] # None
  PROVE  BatchInv'
<1>1. WorkOK /\ Purges /\ SyncPurge(sync, file) /\ RowsPurged(row, file) /\ Ages
  BY BatchMeans DEF Ages
<1>2. Purges'
  <2>1. \A j \in Jobs : PurgeInv(call'[j], link'[j], step'[j], acted'[j], bull'[j], mem'[j], row', file')
    BY <1>1, SayingNoMore
  <2>2. QED
    BY <2>1 DEF Purges
<1>3. QED
  BY <1>1, <1>2, BatchMeansNext

\* After a step that kept the rest of the invariant, a job that writes has its call.
LEMMA WritersHaveCalls ==
  ASSUME WorkOK'
  PROVE  \A j \in Jobs : step'[j] = "write" => call'[j] # None
<1> SUFFICES ASSUME NEW j \in Jobs, step'[j] = "write"
             PROVE  call'[j] # None
  OBVIOUS
<1>1. BullInv' /\ HandlersAreOfJobs'
  BY DEF WorkOK
<1>2. Runs(bull'[j]) \/ Runs(mem'[j])
  BY <1>1 DEF HandlersAreOfJobs
<1>3. CopiesAreOfCalls'
  BY <1>1 DEF BullInv
<1>4. QED
  BY <1>2, <1>3 DEF CopiesAreOfCalls, Runs

\* What is known of the functions that an action changes at a job.
LEMMA FunctionsAre ==
  ASSUME WorkOK
  PROVE  /\ call \in [Jobs -> Calls \cup {None}] /\ bull \in [Jobs -> Copy \cup {None}]
         /\ mem \in [Jobs -> Copy \cup {None}] /\ link \in [Jobs -> Links \cup {None}]
         /\ step \in [Jobs -> HandlerSteps] /\ acted \in [Jobs -> Nat]
         /\ RowsTyped
BY BatchHas, BullMeans DEF TypeOK, BatchTypeOK, RowsTyped

LEMMA JobStartsPurges ==
  ASSUME BatchInv, WorkOK', NEW j \in Jobs, JobStarts(j)
  PROVE  BatchInv'
<1>1. WorkOK /\ UNCHANGED <<row, file, request, link, acted, sync>>
  BY BatchMeans DEF JobStarts
<1>2. step' = [step EXCEPT ![j] = IF ran'[j] > ran[j] THEN "fetch" ELSE step[j]]
  BY DEF JobStarts
<1>3. CASE Start(j)
  <2> DEFINE b == [bull[j] EXCEPT !.state = "active"]
  <2>1. bull[j] # None /\ bull' = [bull EXCEPT ![j] = b] /\ UNCHANGED <<call, mem>>
    BY <1>3 DEF Start, SetBull, localVars
  <2>2. bull[j] \in Copy
    BY <1>1, <2>1, FunctionsAre
  <2>3. b.state = "active"
    BY <2>2 DEF Copy
  <2> HIDE DEF b
  <2>4. \A i \in Jobs : SaysNoMore(i)
    BY <1>1, <1>2, <2>1, <2>3, FunctionsAre DEF SaysNoMore, HasEnded
  <2>5. QED
    BY <1>1, <2>4, QuietStep, WritersHaveCalls
<1>4. CASE MemoryStart(j)
  <2>1. mem[j] # None /\ UNCHANGED <<call, bull>>
    BY <1>4 DEF MemoryStart, SetMem, redisVars
  <2>2. mem[j] \in Copy
    BY <1>1, <2>1, FunctionsAre
  <2>3. PICK st \in {"active", "failed"} : mem' = [mem EXCEPT ![j] = [mem[j] EXCEPT !.state = st]]
    BY <1>4 DEF MemoryStart, SetMem
  <2> DEFINE m == [mem[j] EXCEPT !.state = st]
  <2>4. m.state # "completed"
    BY <2>2 DEF Copy
  <2>5. mem' = [mem EXCEPT ![j] = m]
    BY <2>3
  <2> HIDE DEF m
  <2>6. \A i \in Jobs : SaysNoMore(i)
    BY <1>1, <1>2, <2>1, <2>4, <2>5, FunctionsAre DEF SaysNoMore, HasEnded
  <2>7. QED
    BY <1>1, <2>6, QuietStep, WritersHaveCalls
<1>5. QED
  BY <1>3, <1>4 DEF JobStarts

\* A handler that goes on, or gives up, and writes nothing.
LEMMA HandlerPurges ==
  ASSUME BatchInv, WorkOK', NEW j \in Jobs, UNCHANGED <<call, bull, mem, row, file, link, acted, sync>>,
         NEW st, step' = [step EXCEPT ![j] = st], st # "done",
         st = "unlink" => call[j].type = ForceDelete,
         st = "write" => call[j].type # ForceDelete
  PROVE  BatchInv'
<1>1. WorkOK
  BY BatchMeans
<1>2. \A i \in Jobs : SaysNoMore(i)
  BY <1>1, FunctionsAre DEF SaysNoMore
<1>3. QED
  BY <1>2, QuietStep, WritersHaveCalls

LEMMA JobFetchesPurges ==
  ASSUME BatchInv, WorkOK', NEW j \in Jobs, JobFetches(j)
  PROVE  BatchInv'
<1> DEFINE st == IF Finds(call[j].type, link[j]) THEN "act" ELSE "throw"
<1>1. step' = [step EXCEPT ![j] = st] /\ UNCHANGED <<call, bull, mem, row, file, link, acted, sync>>
  BY DEF JobFetches, vars, redisVars, localVars
<1>2. st # "done" /\ st # "unlink" /\ st # "write"
  OBVIOUS
<1> HIDE DEF st
<1>3. QED
  BY <1>1, <1>2, HandlerPurges

LEMMA JobLooksAgainPurges ==
  ASSUME BatchInv, WorkOK', NEW j \in Jobs, JobLooksAgain(j)
  PROVE  BatchInv'
<1> DEFINE st == IF Exists(call[j].type, link[j]) THEN AfterLookup(call[j].type) ELSE "throw"
<1>1. step' = [step EXCEPT ![j] = st] /\ UNCHANGED <<call, bull, mem, row, file, link, acted, sync>>
  BY DEF JobLooksAgain, vars, redisVars, localVars
<1>2. st # "done" /\ (st = "unlink" => call[j].type = ForceDelete) /\ (st = "write" => call[j].type # ForceDelete)
  BY DEF AfterLookup, ForceDelete
<1> HIDE DEF st
<1>3. QED
  BY <1>1, <1>2, HandlerPurges

LEMMA JobQueryFailsPurges ==
  ASSUME BatchInv, WorkOK', NEW j \in Jobs, JobQueryFails(j)
  PROVE  BatchInv'
<1> DEFINE st == "throw"
<1>1. step' = [step EXCEPT ![j] = st] /\ UNCHANGED <<call, bull, mem, row, file, link, acted, sync>>
  BY DEF JobQueryFails, redisVars, localVars
<1>2. st # "done" /\ st # "unlink" /\ st # "write"
  OBVIOUS
<1> HIDE DEF st
<1>3. QED
  BY <1>1, <1>2, HandlerPurges

\* The other jobs, and the synchronous call, when one job deletes its file or writes.
LEMMA OneJobPurges ==
  ASSUME BatchInv, WorkOK', NEW j \in Jobs, UNCHANGED <<call, bull, mem, link, sync>>,
         Ages, RowsPurged(row', file'),
         \A i \in Jobs \ {j} : step'[i] = step[i] /\ acted'[i] = acted[i],
         PurgeInv(call[j], link[j], step'[j], acted'[j], bull[j], mem[j], row', file')
  PROVE  BatchInv'
<1>1. WorkOK /\ Purges /\ SyncPurge(sync, file)
  BY BatchMeans
<1>2. Purges'
  <2> SUFFICES ASSUME NEW i \in Jobs
               PROVE  PurgeInv(call'[i], link'[i], step'[i], acted'[i], bull'[i], mem'[i], row', file')
    BY DEF Purges
  <2>1. CASE i = j
    BY <2>1
  <2>2. CASE i # j
    <3>1. SaysNoMore(i)
      BY <2>2 DEF SaysNoMore
    <3>2. QED
      BY <1>1, <3>1, SayingNoMore
  <2>3. QED
    BY <2>1, <2>2
<1>3. SyncPurge(sync', file')
  BY <1>1, SyncHas DEF SyncPurge, Ages
<1>4. QED
  BY <1>2, <1>3, BatchMeansNext, WritersHaveCalls

LEMMA JobUnlinksPurges ==
  ASSUME BatchInv, WorkOK', NEW j \in Jobs, JobUnlinks(j)
  PROVE  BatchInv'
<1>1. /\ WorkOK /\ Purges /\ RowsPurged(row, file)
      /\ PurgeInv(call[j], link[j], step[j], acted[j], bull[j], mem[j], row, file)
  BY BatchMeans DEF Purges
<1>2. /\ step[j] = "unlink" /\ step' = [step EXCEPT ![j] = "write"] /\ StorageDeletes(link[j])
      /\ UNCHANGED <<redisVars, localVars, ran, crashes, row, request, link, acted, sync>>
  BY DEF JobUnlinks
<1>3. UNCHANGED <<call, bull, mem, link, sync, acted, row>>
  BY <1>2 DEF redisVars, localVars
<1>4. link[j] \in Links
  BY <1>1, <1>2, HandlerHas
<1>5. file'[link[j]] # "stored" /\ \A k \in Links : file[k] # "stored" => file'[k] # "stored"
  BY <1>1, <1>2, <1>4, StorageHas
<1>6. Ages /\ RowsPurged(row', file')
  BY <1>1, <1>3, <1>5 DEF Ages, RowsPurged
<1>7. step'[j] = "write" /\ \A i \in Jobs \ {j} : step'[i] = step[i] /\ acted'[i] = acted[i]
  BY <1>1, <1>2, <1>3, FunctionsAre
<1>8. PurgeInv(call[j], link[j], step'[j], acted'[j], bull[j], mem[j], row', file')
  BY <1>1, <1>2, <1>3, <1>5, <1>7 DEF PurgeInv
<1>9. QED
  BY <1>3, <1>6, <1>7, <1>8, OneJobPurges

\* What a transaction does to files and rows: what it purges has lost its file.
LEMMA WritePurges ==
  ASSUME WorkOK, RowsPurged(row, file), NEW type \in BatchTypes, NEW l \in Links,
         row' = Written(type, l), UNCHANGED file,
         type = ForceDelete => file[l] # "stored"
  PROVE  Ages /\ RowsPurged(row', file')
<1>1. /\ \A k \in Links : row[k] = "gone" => row'[k] = "gone"
      /\ \A k \in Links : row'[k] # row[k] => k = l /\ row[l] # "gone"
  BY FunctionsAre, WrittenIs
<1>2. row'[l] = "gone" => type = ForceDelete \/ row[l] = "gone"
  <2>1. CASE row[l] # "gone" /\ type # ForceDelete
    <3>1. row' = [row EXCEPT ![l] = Effect(type)]
      BY <2>1 DEF Written
    <3>2. Effect(type) # "gone"
      BY <2>1 DEF Effect, BatchTypes, ForceDelete
    <3>3. QED
      BY <3>1, <3>2, FunctionsAre DEF RowsTyped
  <2>2. QED
    BY <2>1
<1>3. QED
  BY <1>1, <1>2 DEF Ages, RowsPurged

LEMMA JobWritesPurges ==
  ASSUME BatchInv, WorkOK', NEW j \in Jobs, JobWrites(j)
  PROVE  BatchInv'
<1> DEFINE a == IF row[link[j]] = "gone" THEN acted[j] ELSE acted[j] + 1
<1>1. /\ WorkOK /\ Purges /\ RowsPurged(row, file)
      /\ PurgeInv(call[j], link[j], step[j], acted[j], bull[j], mem[j], row, file)
  BY BatchMeans DEF Purges
<1>2. /\ step[j] = "write" /\ step' = [step EXCEPT ![j] = "done"]
      /\ acted' = [acted EXCEPT ![j] = a] /\ row' = Written(call[j].type, link[j])
      /\ UNCHANGED <<vars, file, request, link, sync>>
  BY DEF JobWrites
<1>3. UNCHANGED <<call, bull, mem, link, sync>>
  BY <1>2 DEF vars, redisVars, localVars
<1>4. link[j] \in Links /\ call[j].type \in BatchTypes /\ call[j] # None
  BY <1>1, <1>2, HandlerHas, Stored
<1>5. call[j].type = ForceDelete => file[link[j]] # "stored"
  BY <1>1, <1>2, <1>4 DEF PurgeInv
<1>6. Ages /\ RowsPurged(row', file')
  BY <1>1, <1>2, <1>4, <1>5, WritePurges
<1>7. /\ step'[j] = "done" /\ acted'[j] = a
      /\ \A i \in Jobs \ {j} : step'[i] = step[i] /\ acted'[i] = acted[i]
  BY <1>1, <1>2, FunctionsAre
<1>8. PurgeInv(call[j], link[j], step'[j], acted'[j], bull[j], mem[j], row', file')
  <2>1. call[j].type = ForceDelete => row'[link[j]] = "gone"
    BY <1>1, <1>2, <1>4, WrittenIs, FunctionsAre DEF ForceDelete
  <2>2. row[link[j]] = "gone" => row'[link[j]] = "gone"
    BY <1>4, <1>6 DEF Ages
  <2>3. row[link[j]] # "gone" => a > 0
    BY <1>1, FunctionsAre
  <2>4. QED
    BY <1>7, <2>1, <2>2, <2>3 DEF PurgeInv
<1>9. QED
  BY <1>3, <1>6, <1>7, <1>8, OneJobPurges

LEMMA JobEndsPurges ==
  ASSUME BatchInv, WorkOK', NEW j \in Jobs, JobEnds(j)
  PROVE  BatchInv'
<1>1. WorkOK /\ UNCHANGED <<row, file, request, link, acted, sync>> /\ step' = [step EXCEPT ![j] = "idle"]
  BY BatchMeans DEF JobEnds
<1>2. CASE step[j] = "done"
  <2>1. \/ UNCHANGED <<call, mem>> /\ \E b : bull' = [bull EXCEPT ![j] = b]
        \/ UNCHANGED <<call, bull>> /\ \E m : mem' = [mem EXCEPT ![j] = m]
    BY <1>2 DEF JobEnds, Complete, SetBull, MemoryComplete, SetMem, redisVars, localVars
  <2>2. \A i \in Jobs : SaysNoMore(i)
    BY <1>1, <1>2, <2>1, FunctionsAre DEF SaysNoMore
  <2>3. QED
    BY <1>1, <2>2, QuietStep, WritersHaveCalls
<1>3. CASE step[j] = "throw" /\ Fail(j)
  <2> DEFINE st == IF bull[j].made + 1 < call[j].attempts THEN "waiting" ELSE "failed"
             b == [bull[j] EXCEPT !.state = st, !.made = bull[j].made + 1]
  <2>1. bull[j] # None /\ bull' = [bull EXCEPT ![j] = b] /\ UNCHANGED <<call, mem>>
    BY <1>3 DEF Fail, SetBull, localVars
  <2>2. bull[j] \in Copy /\ st # "completed"
    BY <1>1, <2>1, FunctionsAre
  <2> HIDE DEF st
  <2>3. b.state = st
    BY <2>2 DEF Copy
  <2> HIDE DEF b
  <2>4. \A i \in Jobs : SaysNoMore(i)
    BY <1>1, <2>1, <2>2, <2>3, FunctionsAre DEF SaysNoMore, HasEnded
  <2>5. QED
    BY <1>1, <2>4, QuietStep, WritersHaveCalls
<1>4. CASE step[j] = "throw" /\ MemoryFail(j)
  <2> DEFINE st == IF mem[j].made + 1 < call[j].attempts THEN "waiting" ELSE "failed"
             m == [mem[j] EXCEPT !.state = st, !.made = mem[j].made + 1]
  <2>1. mem[j] # None /\ mem' = [mem EXCEPT ![j] = m] /\ UNCHANGED <<call, bull>>
    BY <1>4 DEF MemoryFail, SetMem, redisVars
  <2>2. mem[j] \in Copy /\ st # "completed"
    BY <1>1, <2>1, FunctionsAre
  <2> HIDE DEF st
  <2>3. m.state = st
    BY <2>2 DEF Copy
  <2> HIDE DEF m
  <2>4. \A i \in Jobs : SaysNoMore(i)
    BY <1>1, <2>1, <2>2, <2>3, FunctionsAre DEF SaysNoMore, HasEnded
  <2>5. QED
    BY <1>1, <2>4, QuietStep, WritersHaveCalls
<1>5. QED
  BY <1>2, <1>3, <1>4 DEF JobEnds

LEMMA JobStalledPurges ==
  ASSUME BatchInv, WorkOK', NEW j \in Jobs, JobStalled(j)
  PROVE  BatchInv'
<1> DEFINE st == IF bull[j].stalls < MaxStalled THEN "waiting" ELSE "failed"
           b == [bull[j] EXCEPT !.state = st, !.stalls = bull[j].stalls + 1]
<1>1. /\ bull[j] # None /\ bull' = [bull EXCEPT ![j] = b]
      /\ UNCHANGED <<call, mem, row, file, request, link, step, acted, sync>>
  BY DEF JobStalled, Stall, SetBull, localVars, batchVars
<1>2. WorkOK /\ bull[j] \in Copy /\ st # "completed"
  BY <1>1, BatchMeans, FunctionsAre
<1> HIDE DEF st
<1>3. b.state = st
  BY <1>2 DEF Copy
<1> HIDE DEF b
<1>4. \A i \in Jobs : SaysNoMore(i)
  BY <1>1, <1>2, <1>3, FunctionsAre DEF SaysNoMore, HasEnded
<1>5. QED
  BY <1>1, <1>4, QuietStep, WritersHaveCalls

\* A job that is added has said nothing yet.
LEMMA QueueNextPurges ==
  ASSUME BatchInv, WorkOK', NEW j \in Jobs, NEW l \in Links, QueueNext(j, l)
  PROVE  BatchInv'
<1>1. WorkOK /\ link' = [link EXCEPT ![j] = l] /\ UNCHANGED <<row, file, step, acted, sync>>
  BY BatchMeans DEF QueueNext
<1>2. PICK c \in Calls :
        \/ AddToMemory(j, c) \/ AddToRedis(j, c)
        \/ \E stored \in BOOLEAN : AddFails(j, c, stored)
  BY DEF QueueNext
<1>3. call[j] = None /\ call' = [call EXCEPT ![j] = c]
  BY <1>1, <1>2, AddMakes, BatchHas
<1>4. PICK b \in Copy \cup {None}, m \in Copy \cup {None} :
        /\ bull' = [bull EXCEPT ![j] = b] /\ mem' = [mem EXCEPT ![j] = m]
        /\ b # None => b.state = "waiting" /\ b.stalls = 0
        /\ m # None => m.state = "waiting"
  BY <1>1, <1>2, AddMakes, BatchHas
<1>5. step[j] = "idle" /\ acted[j] = 0
  <2>1. WorkInv(call[j], link[j], step[j], acted[j], bull[j], mem[j]) /\ acted[j] \in Nat
    BY <1>1, WorkHas
  <2>2. bull[j] = None /\ mem[j] = None
    BY <1>1, <1>3, Apart, BatchHas
  <2>3. step[j] = "idle"
    BY <2>1, <2>2 DEF WorkInv, Runs
  <2>4. acted[j] <= 0
    BY <2>1, <2>2, <2>3, <1>3 DEF WorkInv, Acting, Stalls
  <2>5. QED
    BY <2>1, <2>3, <2>4
<1>6. Purges /\ SyncPurge(sync, file) /\ RowsPurged(row, file) /\ Ages
  BY <1>1, BatchMeans DEF Ages
<1>7. Purges'
  <2> SUFFICES ASSUME NEW i \in Jobs
               PROVE  PurgeInv(call'[i], link'[i], step'[i], acted'[i], bull'[i], mem'[i], row', file')
    BY DEF Purges
  <2>1. CASE i = j
    <3>1. ~ HasEnded(bull'[j]) /\ ~ HasEnded(mem'[j]) /\ step'[j] = "idle" /\ acted'[j] = 0
      BY <1>1, <1>4, <1>5, FunctionsAre DEF HasEnded
    <3>2. QED
      BY <2>1, <3>1 DEF PurgeInv
  <2>2. CASE i # j
    <3>1. SaysNoMore(i)
      BY <1>1, <1>3, <1>4, <2>2, FunctionsAre DEF SaysNoMore
    <3>2. QED
      BY <1>1, <1>6, <3>1, SayingNoMore
  <2>3. QED
    BY <2>1, <2>2
<1>8. QED
  BY <1>1, <1>6, <1>7, BatchMeansNext, WritersHaveCalls

\* A step of a synchronous call that leaves the jobs alone.
LEMMA SyncPurges ==
  ASSUME BatchInv, WorkOK', UNCHANGED <<call, bull, mem, link, step, acted>>,
         Ages, RowsPurged(row', file'), SyncPurge(sync', file')
  PROVE  BatchInv'
<1>1. WorkOK /\ Purges
  BY BatchMeans
<1>2. \A j \in Jobs : SaysNoMore(j)
  BY DEF SaysNoMore
<1>3. Purges'
  <2>1. \A j \in Jobs : PurgeInv(call'[j], link'[j], step'[j], acted'[j], bull'[j], mem'[j], row', file')
    BY <1>1, <1>2, SayingNoMore
  <2>2. QED
    BY <2>1 DEF Purges
<1>4. QED
  BY <1>3, BatchMeansNext, WritersHaveCalls

\* What the steps of a synchronous call do to files and rows.
LEMMA SyncCallPurges ==
  ASSUME BatchInv, WorkOK',
         \/ \E type \in CallTypes, links \in setting.syncs : SyncCall(type, links)
         \/ \E l \in Links : SyncFetches(l)
         \/ SyncLooksAgain \/ SyncUnlinks \/ SyncWrites \/ SyncQueryFails \/ SyncEnds
  PROVE  BatchInv'
<1>1. WorkOK /\ SyncPurge(sync, file) /\ RowsPurged(row, file)
  BY BatchMeans
<1>2. CASE \E type \in CallTypes, links \in setting.syncs : SyncCall(type, links)
  <2>1. PICK type \in CallTypes, links \in setting.syncs : SyncCall(type, links)
    BY <1>2
  <2>2. sync'.step = "fetch" /\ UNCHANGED <<call, bull, mem, link, step, acted, row, file>>
    BY <2>1 DEF SyncCall, vars, redisVars, localVars
  <2>3. QED
    BY <1>1, <2>2, SyncPurges DEF Ages, SyncPurge
<1>3. CASE \E l \in Links : SyncFetches(l)
  <2>1. PICK l \in Links : SyncFetches(l)
    BY <1>3
  <2>2. UNCHANGED <<call, bull, mem, link, step, acted, row, file>>
    BY <2>1 DEF SyncFetches, vars, redisVars, localVars
  <2>3. sync \in Synchronous
    BY <1>1, <2>1, SyncHas DEF SyncFetches
  <2>4. sync'.step # "write"
    BY <2>1, <2>3 DEF SyncFetches, Synchronous
  <2>5. QED
    BY <1>1, <2>2, <2>4, SyncPurges DEF Ages, SyncPurge
<1>4. CASE SyncLooksAgain
  <2>1. UNCHANGED <<call, bull, mem, link, step, acted, row, file>>
    BY <1>4 DEF SyncLooksAgain, vars, redisVars, localVars
  <2>2. sync \in Synchronous
    BY <1>1, <1>4, SyncHas DEF SyncLooksAgain
  <2>3. sync'.type = sync.type /\ (sync'.step = "write" => sync.type # ForceDelete)
    BY <1>4, <2>2 DEF SyncLooksAgain, SyncFailed, AfterLookup, Synchronous, ForceDelete
  <2>4. QED
    BY <1>1, <2>1, <2>3, SyncPurges DEF Ages, SyncPurge
<1>5. CASE SyncUnlinks
  <2>1. /\ sync # None /\ sync.step = "unlink" /\ StorageDeletes(sync.at)
        /\ sync' = [sync EXCEPT !.step = "write"]
        /\ UNCHANGED <<redisVars, localVars, ran, crashes, row, request, link, step, acted>>
    BY <1>5 DEF SyncUnlinks
  <2>2. UNCHANGED <<call, bull, mem, link, step, acted, row>>
    BY <2>1 DEF redisVars, localVars
  <2>3. sync \in Synchronous /\ sync.at \in Links
    BY <1>1, <2>1, SyncHas
  <2>4. file'[sync.at] # "stored" /\ \A k \in Links : file[k] # "stored" => file'[k] # "stored"
    BY <1>1, <2>1, <2>3, StorageHas
  <2>5. sync'.at = sync.at
    BY <2>1, <2>3 DEF Synchronous
  <2>6. Ages /\ RowsPurged(row', file') /\ SyncPurge(sync', file')
    BY <1>1, <2>2, <2>4, <2>5 DEF Ages, RowsPurged, SyncPurge
  <2>7. QED
    BY <2>2, <2>6, SyncPurges
<1>6. CASE SyncWrites
  <2>1. /\ sync # None /\ sync.step = "write" /\ row' = Written(sync.type, sync.at)
        /\ sync' = [sync EXCEPT !.at = None, !.step = "fetch", !.success = sync.success + 1]
        /\ UNCHANGED <<vars, file, request, link, step, acted>>
    BY <1>6 DEF SyncWrites
  <2>2. UNCHANGED <<call, bull, mem, link, step, acted, file>>
    BY <2>1 DEF vars, redisVars, localVars
  <2>3. sync \in Synchronous /\ sync.at \in Links /\ sync.type \in BatchTypes
    BY <1>1, <2>1, SyncHas
  <2>4. sync.type = ForceDelete => file[sync.at] # "stored"
    BY <1>1, <2>1 DEF SyncPurge
  <2>5. Ages /\ RowsPurged(row', file')
    BY <1>1, <2>1, <2>2, <2>3, <2>4, WritePurges
  <2>6. sync'.step = "fetch"
    BY <2>1, <2>3 DEF Synchronous
  <2>7. QED
    BY <2>2, <2>5, <2>6, SyncPurges DEF SyncPurge
<1>7. CASE SyncQueryFails
  <2>1. UNCHANGED <<call, bull, mem, link, step, acted, row, file>> /\ sync # None /\ sync' = SyncFailed
    BY <1>7 DEF SyncQueryFails, redisVars, localVars
  <2>2. sync \in Synchronous
    BY <1>1, <2>1, SyncHas
  <2>3. sync'.step = "fetch"
    BY <2>1, <2>2 DEF SyncFailed, Synchronous
  <2>4. QED
    BY <1>1, <2>1, <2>3, SyncPurges DEF Ages, SyncPurge
<1>8. CASE SyncEnds
  <2>1. UNCHANGED <<call, bull, mem, link, step, acted, row, file>> /\ sync' = None
    BY <1>8 DEF SyncEnds, vars, redisVars, localVars
  <2>2. QED
    BY <1>1, <2>1, SyncPurges DEF Ages, SyncPurge
<1>9. QED
  BY <1>2, <1>3, <1>4, <1>5, <1>6, <1>7, <1>8

LEMMA BatchCrashPurges ==
  ASSUME BatchInv, WorkOK', BatchCrash
  PROVE  BatchInv'
<1>1. WorkOK /\ RowsPurged(row, file)
  BY BatchMeans
<1>2. /\ bull' = [j \in Jobs |-> IF bull[j] # None /\ bull[j].state = "active"
                                  THEN [bull[j] EXCEPT !.state = "locked"] ELSE bull[j]]
      /\ mem' = [j \in Jobs |-> None] /\ UNCHANGED <<call, row, file, link, acted>>
      /\ step' = [j \in Jobs |-> "idle"] /\ sync' = None
  BY DEF BatchCrash, Crash
<1>3. Purges'
  <2> SUFFICES ASSUME NEW j \in Jobs
               PROVE  PurgeInv(call'[j], link'[j], step'[j], acted'[j], bull'[j], mem'[j], row', file')
    BY DEF Purges
  <2>1. /\ call'[j] = call[j] /\ link'[j] = link[j] /\ acted'[j] = acted[j]
        /\ step'[j] = "idle" /\ mem'[j] = None
    BY <1>2
  <2>2. HasEnded(bull'[j]) => HasEnded(bull[j])
    <3>1. CASE bull[j] # None /\ bull[j].state = "active"
      <4>1. bull'[j] = [bull[j] EXCEPT !.state = "locked"] /\ bull[j] \in Copy
        BY <1>1, <1>2, <3>1, FunctionsAre
      <4>2. bull'[j].state = "locked"
        BY <4>1 DEF Copy
      <4>3. QED
        BY <4>2 DEF HasEnded
    <3>2. CASE ~ (bull[j] # None /\ bull[j].state = "active")
      <4>1. bull'[j] = bull[j]
        BY <1>2, <3>2
      <4>2. QED
        BY <4>1
    <3>3. QED
      BY <3>1, <3>2
  <2>3. SaysNoMore(j)
    BY <2>1, <2>2 DEF SaysNoMore, HasEnded
  <2>4. QED
    BY <1>1, <1>2, <2>3, BatchMeans, SayingNoMore DEF Ages
<1>4. SyncPurge(sync', file') /\ RowsPurged(row', file')
  BY <1>1, <1>2 DEF SyncPurge, RowsPurged
<1>5. QED
  BY <1>3, <1>4, BatchMeansNext, WritersHaveCalls

\* A step that touches no job, no link and no synchronous call.
LEMMA ProcessPurges ==
  ASSUME BatchInv, WorkOK', UNCHANGED <<call, bull, mem, link, step, acted, row, file, sync>>
  PROVE  BatchInv'
<1>1. \A j \in Jobs : SaysNoMore(j)
  BY DEF SaysNoMore
<1>2. QED
  BY <1>1, QuietStep, WritersHaveCalls

LEMMA InvBegins == BatchInit => BatchInv
<1> SUFFICES ASSUME BatchInit PROVE BatchInv
  OBVIOUS
<1>1. WorkOK
  BY BatchBegins
<1>2. /\ call = [j \in Jobs |-> None] /\ sync = None /\ row \in [Links -> {"active", "trashed"}]
  BY DEF BatchInit, Init
<1>3. Purges /\ SyncPurge(sync, file) /\ RowsPurged(row, file)
  BY <1>2 DEF Purges, PurgeInv, SyncPurge, RowsPurged
<1>4. QED
  BY <1>1, <1>3, BatchMeans

LEMMA InvSteps == BatchInv /\ [BatchNext]_allVars => BatchInv'
<1> SUFFICES ASSUME BatchInv, [BatchNext]_allVars
             PROVE  BatchInv'
  OBVIOUS
<1>1. WorkOK'
  BY BatchMeans, BatchSteps
<1>2. CASE \E broken \in SUBSET QueueNames : Register(broken) /\ UNCHANGED batchVars
  <2>1. UNCHANGED <<call, bull, mem, link, step, acted, row, file, sync>>
    BY <1>2 DEF Register, redisVars, batchVars
  <2>2. QED
    BY <1>1, <2>1, ProcessPurges
<1>3. CASE \E type \in CallTypes, links \in setting.batches : BatchRequest(type, links)
  <2>1. UNCHANGED <<call, bull, mem, link, step, acted, row, file, sync>>
    BY <1>3 DEF BatchRequest, vars, redisVars, localVars
  <2>2. QED
    BY <1>1, <2>1, ProcessPurges
<1>4. CASE \E j \in Jobs, l \in Links : QueueNext(j, l)
  BY <1>1, <1>4, QueueNextPurges
<1>5. CASE RequestEnds
  <2>1. UNCHANGED <<call, bull, mem, link, step, acted, row, file, sync>>
    BY <1>5 DEF RequestEnds, vars, redisVars, localVars
  <2>2. QED
    BY <1>1, <2>1, ProcessPurges
<1>6. CASE \E j \in Jobs :
             \/ JobStarts(j) \/ JobFetches(j) \/ JobLooksAgain(j) \/ JobUnlinks(j)
             \/ JobWrites(j) \/ JobQueryFails(j) \/ JobEnds(j) \/ JobStalled(j)
  BY <1>1, <1>6, JobStartsPurges, JobFetchesPurges, JobLooksAgainPurges, JobUnlinksPurges,
     JobWritesPurges, JobQueryFailsPurges, JobEndsPurges, JobStalledPurges
<1>7. CASE \/ \E type \in CallTypes, links \in setting.syncs : SyncCall(type, links)
           \/ \E l \in Links : SyncFetches(l)
           \/ SyncLooksAgain \/ SyncUnlinks \/ SyncWrites \/ SyncQueryFails \/ SyncEnds
  BY <1>1, <1>7, SyncCallPurges
<1>8. CASE \/ \E q \in QueueNames : CloseWorker(q) /\ UNCHANGED batchVars
           \/ (WorkerClosed \/ CloseQueues) /\ UNCHANGED batchVars
  <2>1. UNCHANGED <<call, bull, mem, link, step, acted, row, file, sync>>
    BY <1>8 DEF CloseWorker, WorkerClosed, CloseQueues, redisVars, batchVars
  <2>2. QED
    BY <1>1, <2>1, ProcessPurges
<1>9. CASE BatchCrash
  BY <1>1, <1>9, BatchCrashPurges
<1>10. CASE UNCHANGED allVars
  <2>1. UNCHANGED <<call, bull, mem, link, step, acted, row, file, sync>>
    BY <1>10 DEF allVars, vars, redisVars, localVars, batchVars
  <2>2. QED
    BY <1>1, <2>1, ProcessPurges
<1>11. QED
  BY <1>2, <1>3, <1>4, <1>5, <1>6, <1>7, <1>8, <1>9, <1>10 DEF BatchNext

\* What holds of the queue and of the batches on it, whatever fails and whenever the
\* process dies: no job runs in both queues, more often than its attempts and its
\* deaths allow, or beyond the concurrency of its worker; shutdown waits for what
\* runs; a row is written once per job; every link of a batch is counted once; and no
\* row is purged before the storage was asked to delete its file.
THEOREM BatchesAreInOrder == BatchSpec => []BatchInv
<1>1. BatchInit => BatchInv
  BY InvBegins
<1>2. BatchInv /\ [BatchNext]_allVars => BatchInv'
  BY InvSteps
<1>3. QED
  BY <1>1, <1>2, PTL DEF BatchSpec

\* What is said of a job at its end is true of its link: a job that was given up, without
\* its process having died, has written no row; one that is done has written its row or
\* found it purged; and a force delete that is done leaves neither a row nor a file that
\* the storage did not refuse to delete.
THEOREM OutcomesHold == BatchSpec => []OutcomesAreTrue
<1>1. BatchInv => OutcomesAreTrue
  <2> SUFFICES ASSUME BatchInv, NEW j \in Jobs
               PROVE  /\ bull[j] # None /\ bull[j].state = "failed" /\ bull[j].stalls = 0 => acted[j] = 0
                      /\ HasEnded(bull[j]) \/ HasEnded(mem[j]) =>
                           /\ acted[j] > 0 \/ row[link[j]] = "gone"
                           /\ call[j].type = "batch_force_delete" =>
                                row[link[j]] = "gone" /\ file[link[j]] # "stored"
    BY DEF OutcomesAreTrue
  <2>1. /\ WorkOK /\ RowsPurged(row, file)
        /\ PurgeInv(call[j], link[j], step[j], acted[j], bull[j], mem[j], row, file)
    BY BatchMeans DEF Purges
  <2>2. /\ BullInv /\ WorkInv(call[j], link[j], step[j], acted[j], bull[j], mem[j])
        /\ acted[j] \in Nat
    BY <2>1, WorkHas
  <2>3. bull[j] # None /\ bull[j].state = "failed" /\ bull[j].stalls = 0 => acted[j] = 0
    <3>1. SUFFICES ASSUME bull[j] # None, bull[j].state = "failed", bull[j].stalls = 0
                   PROVE  acted[j] = 0
      OBVIOUS
    <3>2. ~ Runs(mem[j]) /\ (mem[j] # None => mem[j].state # "completed")
      BY <2>2, <3>1, Apart
    <3>3. step[j] = "idle"
      BY <2>2, <3>1, <3>2 DEF WorkInv, Runs
    <3>4. acted[j] <= Stalls(bull[j])
      BY <2>1, <3>1, <3>2, <3>3, Quiet
    <3>5. QED
      BY <2>2, <3>1, <3>4 DEF Stalls
  <2>4. HasEnded(bull[j]) \/ HasEnded(mem[j]) =>
          /\ acted[j] > 0 \/ row[link[j]] = "gone"
          /\ call[j].type = "batch_force_delete" => row[link[j]] = "gone" /\ file[link[j]] # "stored"
    <3>1. SUFFICES ASSUME HasEnded(bull[j]) \/ HasEnded(mem[j])
                   PROVE  /\ acted[j] > 0 \/ row[link[j]] = "gone"
                          /\ call[j].type = "batch_force_delete" =>
                               row[link[j]] = "gone" /\ file[link[j]] # "stored"
      OBVIOUS
    <3>2. call[j] # None
      BY <2>2, <3>1, Apart DEF HasEnded
    <3>3. link[j] \in Links
      BY <2>1, <3>2, LinkIs
    <3>4. QED
      BY <2>1, <3>1, <3>2, <3>3 DEF PurgeInv, RowsPurged, ForceDelete
  <2>5. QED
    BY <2>3, <2>4
<1>2. QED
  BY <1>1, BatchesAreInOrder, PTL

-----------------------------------------------------------------------------
(* Who may change a link *)

LEMMA ByRight ==
  ASSUME BatchInv, BatchNext, NEW l \in Links, row'[l] # row[l]
  PROVE  l \in Owned /\ row[l] # "gone"
<1>1. WorkOK /\ RowsTyped
  BY BatchMeans, FunctionsAre
<1>2. CASE \E j \in Jobs : JobWrites(j)
  <2>1. PICK j \in Jobs : JobWrites(j)
    BY <1>2
  <2>2. step[j] = "write" /\ row' = Written(call[j].type, link[j])
    BY <2>1 DEF JobWrites
  <2>3. link[j] \in Owned /\ link[j] \in Links /\ call[j].type \in BatchTypes
    BY <1>1, <2>2, HandlerHas
  <2>4. l = link[j] /\ row[link[j]] # "gone"
    BY <1>1, <2>2, <2>3, WrittenIs
  <2>5. QED
    BY <2>3, <2>4
<1>3. CASE SyncWrites
  <2>1. sync # None /\ sync.step = "write" /\ row' = Written(sync.type, sync.at)
    BY <1>3 DEF SyncWrites
  <2>2. sync.at \in Owned /\ sync.at \in Links /\ sync.type \in BatchTypes
    BY <1>1, <2>1, SyncHas
  <2>3. l = sync.at /\ row[sync.at] # "gone"
    BY <1>1, <2>1, <2>2, WrittenIs
  <2>4. QED
    BY <2>2, <2>3
<1>4. (\E j \in Jobs : JobWrites(j)) \/ SyncWrites \/ UNCHANGED row
  BY DEF BatchNext, batchVars, BatchRequest, QueueNext, RequestEnds, JobStarts, JobFetches,
         JobLooksAgain, JobUnlinks, JobQueryFails, JobEnds, JobStalled, SyncCall, SyncFetches,
         SyncLooksAgain, SyncUnlinks, SyncQueryFails, SyncEnds, BatchCrash
<1>5. QED
  BY <1>2, <1>3, <1>4

\* No batch changes a link of another user, or one that was purged.
THEOREM BatchesChangeByRight == BatchSpec => LinksChangeByRight
<1>1. BatchInv /\ [BatchNext]_allVars
        => [\A l \in Links : row'[l] # row[l] => l \in Owned /\ row[l] # "gone"]_allVars
  BY ByRight
<1>2. QED
  BY <1>1, BatchesAreInOrder, PTL DEF BatchSpec, LinksChangeByRight

-----------------------------------------------------------------------------
(* What each queue does to a copy *)

\* A copy x of a job with the call cx becomes y, with the call cy, as JobPromise says.
KeptBy(x, cx, y, cy) ==
  \/ y = x /\ (x # None => cy = cx)
  \/ x = None /\ y \in Copy /\ y.state = "waiting" /\ y.made = 0 /\ cy.attempts \in {2, 3}
  \/ /\ x \in Copy /\ y \in Copy /\ cx = cy
     /\ \/ x.state = "waiting" /\ y.state = "active" /\ y.made = x.made /\ x.made < cx.attempts
        \/ x.state = "waiting" /\ y.state = "failed" /\ y.made = 0 /\ x.made = 0
        \/ /\ x.state = "active" /\ y.made = x.made + 1
           /\ \/ y.state = "completed"
              \/ y.state = "waiting" /\ y.made < cx.attempts
              \/ y.state = "failed" /\ y.made = cx.attempts

\* In Redis a job may be locked by a process that died, and unlocked; and what was in
\* memory goes with the process.
InRedis(x, cx, y, cy, n) == KeptBy(x, cx, y, cy) \/ (n # 0 /\ x # None /\ x.state \in {"active", "locked"})
InMemory(x, cx, y, cy, n) == KeptBy(x, cx, y, cy) \/ n # 0

Kept ==
  \A j \in Jobs :
    /\ InRedis(bull[j], call[j], bull'[j], call'[j], crashes')
    /\ InMemory(mem[j], call[j], mem'[j], call'[j], crashes')

\* A step that changes one job.
LEMMA OneJobKept ==
  ASSUME BullInv, NEW j \in Jobs, NEW c, NEW b, NEW m,
         call' = [call EXCEPT ![j] = c], bull' = [bull EXCEPT ![j] = b], mem' = [mem EXCEPT ![j] = m],
         InRedis(bull[j], call[j], b, c, crashes'), KeptBy(mem[j], call[j], m, c)
  PROVE  Kept
<1>1. /\ call' = [i \in Jobs |-> IF i = j THEN c ELSE call[i]]
      /\ bull' = [i \in Jobs |-> IF i = j THEN b ELSE bull[i]]
      /\ mem' = [i \in Jobs |-> IF i = j THEN m ELSE mem[i]]
  BY BullMeans DEF TypeOK
<1> SUFFICES ASSUME NEW i \in Jobs
             PROVE  /\ InRedis(bull[i], call[i], bull'[i], call'[i], crashes')
                    /\ InMemory(mem[i], call[i], mem'[i], call'[i], crashes')
  BY DEF Kept
<1>2. CASE i = j
  BY <1>1, <1>2 DEF InMemory
<1>3. CASE i # j
  <2>1. bull'[i] = bull[i] /\ mem'[i] = mem[i] /\ call'[i] = call[i]
    BY <1>1, <1>3
  <2>2. KeptBy(bull[i], call[i], bull'[i], call'[i]) /\ KeptBy(mem[i], call[i], mem'[i], call'[i])
    BY <2>1 DEF KeptBy
  <2>3. QED
    BY <2>2 DEF InRedis, InMemory
<1>4. QED
  BY <1>2, <1>3

\* A step that changes none.
LEMMA NoJobMoved ==
  ASSUME UNCHANGED <<call, bull, mem>>
  PROVE  Kept
BY DEF Kept, InRedis, InMemory, KeptBy

LEMMA AddKept ==
  ASSUME BullInv, NEW j \in Jobs, NEW c \in Calls,
         \/ AddToMemory(j, c) \/ AddToRedis(j, c)
         \/ \E stored \in BOOLEAN : AddFails(j, c, stored)
  PROVE  Kept
<1>1. bull[j] = None /\ mem[j] = None
  BY AddMakes, Apart
<1>2. c.attempts \in {2, 3} /\ c.priority \in Arrays \cup {"3", "5"}
  BY CallHas
<1>3. /\ MemoryPriority(c.priority) \in Arrays \cup {"3", "5"}
      /\ RawPriority(c.priority) \in Arrays \cup {"3", "5"}
  BY DEF MemoryPriority, RawPriority, Arrays
<1>4. \A x : x = None \/ (\E p \in Arrays \cup {"3", "5"} : x = NewCopy(p)) => KeptBy(None, call[j], x, c)
  <2> SUFFICES ASSUME NEW p \in Arrays \cup {"3", "5"} PROVE KeptBy(None, call[j], NewCopy(p), c)
    BY DEF KeptBy
  <2>1. NewCopy(p) \in Copy /\ NewCopy(p).state = "waiting" /\ NewCopy(p).made = 0
    BY NewCopyIs
  <2>2. QED
    BY <1>2, <2>1 DEF KeptBy
<1>5. \E b, m : /\ call' = [call EXCEPT ![j] = c] /\ bull' = [bull EXCEPT ![j] = b]
                /\ mem' = [mem EXCEPT ![j] = m]
                /\ b = None \/ b = NewCopy(c.priority)
                /\ \/ m = None \/ m = NewCopy(MemoryPriority(c.priority))
                   \/ m = NewCopy(RawPriority(c.priority))
  <2>1. bull = [bull EXCEPT ![j] = None] /\ mem = [mem EXCEPT ![j] = None]
    BY <1>1, JobHas
  <2>2. CASE AddToMemory(j, c)
    BY <2>1, <2>2 DEF AddToMemory, Adding
  <2>3. CASE AddToRedis(j, c)
    BY <2>1, <2>3 DEF AddToRedis, Adding
  <2>4. CASE \E stored \in BOOLEAN : AddFails(j, c, stored)
    BY <2>1, <2>4 DEF AddFails, Adding
  <2>5. QED
    BY <2>2, <2>3, <2>4
<1>6. PICK b, m : /\ call' = [call EXCEPT ![j] = c] /\ bull' = [bull EXCEPT ![j] = b]
                  /\ mem' = [mem EXCEPT ![j] = m]
                  /\ b = None \/ b = NewCopy(c.priority)
                  /\ \/ m = None \/ m = NewCopy(MemoryPriority(c.priority))
                     \/ m = NewCopy(RawPriority(c.priority))
  BY <1>5
<1>7. KeptBy(bull[j], call[j], b, c) /\ KeptBy(mem[j], call[j], m, c)
  BY <1>1, <1>2, <1>3, <1>4, <1>6
<1>8. InRedis(bull[j], call[j], b, c, crashes')
  BY <1>7 DEF InRedis
<1>9. QED
  BY <1>6, <1>7, <1>8, OneJobKept

\* A step on the copy in Redis, and one on the copy in memory.
LEMMA RedisMoves ==
  ASSUME BullInv, NEW j \in Jobs, NEW b, SetBull(j, b), InRedis(bull[j], call[j], b, call[j], crashes')
  PROVE  Kept
<1>1. bull' = [bull EXCEPT ![j] = b] /\ UNCHANGED <<call, mem>>
  BY DEF SetBull, localVars
<1>2. call' = [call EXCEPT ![j] = call[j]] /\ mem' = [mem EXCEPT ![j] = mem[j]]
  BY <1>1, JobHas
<1>3. KeptBy(mem[j], call[j], mem[j], call[j])
  BY DEF KeptBy
<1>4. QED
  BY <1>1, <1>2, <1>3, OneJobKept

LEMMA MemoryMoves ==
  ASSUME BullInv, NEW j \in Jobs, NEW m, SetMem(j, m), KeptBy(mem[j], call[j], m, call[j])
  PROVE  Kept
<1>1. mem' = [mem EXCEPT ![j] = m] /\ UNCHANGED <<call, bull>>
  BY DEF SetMem, redisVars
<1>2. call' = [call EXCEPT ![j] = call[j]] /\ bull' = [bull EXCEPT ![j] = bull[j]]
  BY <1>1, JobHas
<1>3. InRedis(bull[j], call[j], bull[j], call[j], crashes')
  BY DEF InRedis, KeptBy
<1>4. QED
  BY <1>1, <1>2, <1>3, OneJobKept

LEMMA RedisKept ==
  ASSUME BullInv, NEW j \in Jobs, Start(j) \/ Complete(j) \/ Fail(j) \/ Stall(j)
  PROVE  Kept
<1>1. bull[j] # None
  BY DEF Start, Complete, Fail, Stall
<1>2. /\ bull[j] \in Copy /\ call[j].attempts \in {2, 3} /\ bull[j].made \in Nat
      /\ bull[j].state \in Live => bull[j].made < call[j].attempts
  BY <1>1, BullHas
<1>3. {"active", "completed", "waiting", "failed"} \subseteq States
  BY DEF States
<1>4. CASE Start(j)
  <2> DEFINE b == [bull[j] EXCEPT !.state = "active"]
  <2>1. SetBull(j, b) /\ bull[j].state = "waiting"
    BY <1>4 DEF Start
  <2>2. b \in Copy /\ b.state = "active" /\ b.made = bull[j].made
    BY <1>2, <1>3, CopyMoves
  <2> HIDE DEF b
  <2>3. InRedis(bull[j], call[j], b, call[j], crashes')
    BY <1>2, <2>1, <2>2 DEF InRedis, KeptBy, Live
  <2>4. QED
    BY <2>1, <2>3, RedisMoves
<1>5. CASE Complete(j)
  <2> DEFINE b == [bull[j] EXCEPT !.state = "completed", !.made = bull[j].made + 1]
  <2>1. SetBull(j, b) /\ bull[j].state = "active"
    BY <1>5 DEF Complete
  <2>2. b \in Copy /\ b.state = "completed" /\ b.made = bull[j].made + 1
    BY <1>2, <1>3, CopyMoves
  <2> HIDE DEF b
  <2>3. InRedis(bull[j], call[j], b, call[j], crashes')
    BY <1>2, <2>1, <2>2 DEF InRedis, KeptBy
  <2>4. QED
    BY <2>1, <2>3, RedisMoves
<1>6. CASE Fail(j)
  <2> DEFINE st == IF bull[j].made + 1 < call[j].attempts THEN "waiting" ELSE "failed"
             b == [bull[j] EXCEPT !.state = st, !.made = bull[j].made + 1]
  <2>1. SetBull(j, b) /\ bull[j].state = "active"
    BY <1>6 DEF Fail
  <2>2. /\ st \in States
        /\ \/ st = "waiting" /\ bull[j].made + 1 < call[j].attempts
           \/ st = "failed" /\ bull[j].made + 1 = call[j].attempts
    BY <1>2, <1>3, <2>1 DEF Live
  <2> HIDE DEF st
  <2>3. b \in Copy /\ b.state = st /\ b.made = bull[j].made + 1
    BY <1>2, <2>2, CopyMoves
  <2> HIDE DEF b
  <2>4. InRedis(bull[j], call[j], b, call[j], crashes')
    BY <1>2, <2>1, <2>2, <2>3 DEF InRedis, KeptBy
  <2>5. QED
    BY <2>1, <2>4, RedisMoves
<1>7. CASE Stall(j)
  <2> DEFINE st == IF bull[j].stalls < MaxStalled THEN "waiting" ELSE "failed"
             b == [bull[j] EXCEPT !.state = st, !.stalls = bull[j].stalls + 1]
  <2>1. SetBull(j, b) /\ bull[j].state = "locked" /\ crashes' = crashes
    BY <1>7 DEF Stall, SetBull
  <2>2. crashes # 0
    BY <1>1, <2>1, JobHas DEF LockInv
  <2> HIDE DEF b
  <2>3. InRedis(bull[j], call[j], b, call[j], crashes')
    BY <1>1, <2>1, <2>2 DEF InRedis
  <2>4. QED
    BY <2>1, <2>3, RedisMoves
<1>8. QED
  BY <1>4, <1>5, <1>6, <1>7

LEMMA MemoryKept ==
  ASSUME BullInv, NEW j \in Jobs, MemoryStart(j) \/ MemoryComplete(j) \/ MemoryFail(j)
  PROVE  Kept
<1>1. mem[j] # None
  BY DEF MemoryStart, MemoryComplete, MemoryFail
<1>2. /\ mem[j] \in Copy /\ call[j] \in Calls /\ call[j].attempts \in {2, 3} /\ mem[j].made \in Nat
      /\ mem[j].state \in {"waiting", "active"} => mem[j].made < call[j].attempts
      /\ mem[j].made > 0 => memHandlers = Types
  BY <1>1, MemHas
<1>3. {"active", "completed", "waiting", "failed"} \subseteq States
  BY DEF States
<1>4. CASE MemoryStart(j) /\ call[j].type \in memHandlers
  <2> DEFINE m == [mem[j] EXCEPT !.state = "active"]
  <2>1. SetMem(j, m) /\ mem[j].state = "waiting"
    BY <1>4 DEF MemoryStart
  <2>2. m \in Copy /\ m.state = "active" /\ m.made = mem[j].made
    BY <1>2, <1>3, CopyMoves
  <2> HIDE DEF m
  <2>3. KeptBy(mem[j], call[j], m, call[j])
    BY <1>2, <2>1, <2>2 DEF KeptBy
  <2>4. QED
    BY <2>1, <2>3, MemoryMoves
<1>5. CASE MemoryStart(j) /\ call[j].type \notin memHandlers
  <2> DEFINE m == [mem[j] EXCEPT !.state = "failed"]
  <2>1. SetMem(j, m) /\ mem[j].state = "waiting"
    BY <1>5 DEF MemoryStart
  <2>2. m \in Copy /\ m.state = "failed" /\ m.made = mem[j].made
    BY <1>2, <1>3, CopyMoves
  <2> HIDE DEF m
  <2>3. call[j].type \in Types
    BY <1>2, CallHas
  <2>4. mem[j].made = 0
    BY <1>2, <1>5, <2>3
  <2>5. KeptBy(mem[j], call[j], m, call[j])
    BY <1>2, <2>1, <2>2, <2>4 DEF KeptBy
  <2>6. QED
    BY <2>1, <2>5, MemoryMoves
<1>6. CASE MemoryComplete(j)
  <2> DEFINE m == [mem[j] EXCEPT !.state = "completed", !.made = mem[j].made + 1]
  <2>1. SetMem(j, m) /\ mem[j].state = "active"
    BY <1>6 DEF MemoryComplete
  <2>2. m \in Copy /\ m.state = "completed" /\ m.made = mem[j].made + 1
    BY <1>2, <1>3, CopyMoves
  <2> HIDE DEF m
  <2>3. KeptBy(mem[j], call[j], m, call[j])
    BY <1>2, <2>1, <2>2 DEF KeptBy
  <2>4. QED
    BY <2>1, <2>3, MemoryMoves
<1>7. CASE MemoryFail(j)
  <2> DEFINE st == IF mem[j].made + 1 < call[j].attempts THEN "waiting" ELSE "failed"
             m == [mem[j] EXCEPT !.state = st, !.made = mem[j].made + 1]
  <2>1. SetMem(j, m) /\ mem[j].state = "active"
    BY <1>7 DEF MemoryFail
  <2>2. /\ st \in States
        /\ \/ st = "waiting" /\ mem[j].made + 1 < call[j].attempts
           \/ st = "failed" /\ mem[j].made + 1 = call[j].attempts
    BY <1>2, <1>3, <2>1
  <2> HIDE DEF st
  <2>3. m \in Copy /\ m.state = st /\ m.made = mem[j].made + 1
    BY <1>2, <2>2, CopyMoves
  <2> HIDE DEF m
  <2>4. KeptBy(mem[j], call[j], m, call[j])
    BY <1>2, <2>1, <2>2, <2>3 DEF KeptBy
  <2>5. QED
    BY <2>1, <2>4, MemoryMoves
<1>8. QED
  BY <1>4, <1>5, <1>6, <1>7

LEMMA CrashKept ==
  ASSUME BullInv, Crash
  PROVE  Kept
<1>1. crashes \in Nat /\ crashes' = crashes + 1
  BY BullMeans, BullAssumption DEF TypeOK, Crash
<1> SUFFICES ASSUME NEW j \in Jobs
             PROVE  /\ InRedis(bull[j], call[j], bull'[j], call'[j], crashes')
                    /\ InMemory(mem[j], call[j], mem'[j], call'[j], crashes')
  BY DEF Kept
<1>2. crashes' # 0
  BY <1>1
<1>3. CASE bull[j] # None /\ bull[j].state = "active"
  BY <1>2, <1>3 DEF InRedis, InMemory
<1>4. CASE ~ (bull[j] # None /\ bull[j].state = "active")
  <2>1. bull'[j] = bull[j] /\ call'[j] = call[j]
    BY <1>4 DEF Crash
  <2>2. QED
    BY <1>2, <2>1 DEF InRedis, InMemory, KeptBy
<1>5. QED
  BY <1>3, <1>4

\* Whatever happens, each queue does to each of its copies what JobPromise allows.
LEMMA AllAreKept ==
  ASSUME BatchInv, [BatchNext]_allVars
  PROVE  Kept
<1>1. BullInv
  BY DEF BatchInv
<1>2. CASE \E j \in Jobs, l \in Links : QueueNext(j, l)
  <2>1. PICK j \in Jobs, l \in Links : QueueNext(j, l)
    BY <1>2
  <2>2. \E c \in Calls :
          \/ AddToMemory(j, c) \/ AddToRedis(j, c)
          \/ \E stored \in BOOLEAN : AddFails(j, c, stored)
    BY <2>1 DEF QueueNext
  <2>3. QED
    BY <1>1, <2>2, AddKept
<1>3. CASE \E j \in Jobs : JobStarts(j) \/ JobEnds(j) \/ JobStalled(j)
  BY <1>1, <1>3, RedisKept, MemoryKept DEF JobStarts, JobEnds, JobStalled
<1>4. CASE BatchCrash
  BY <1>1, <1>4, CrashKept DEF BatchCrash
<1>5. CASE \/ \E broken \in SUBSET QueueNames : Register(broken)
           \/ \E q \in QueueNames : CloseWorker(q)
           \/ WorkerClosed \/ CloseQueues
  BY <1>5, NoJobMoved DEF Register, CloseWorker, WorkerClosed, CloseQueues, redisVars
<1>6. CASE (\E j \in Jobs : JobQueryFails(j) \/ JobUnlinks(j)) \/ SyncQueryFails \/ SyncUnlinks
  BY <1>6, NoJobMoved DEF JobQueryFails, JobUnlinks, SyncQueryFails, SyncUnlinks, redisVars, localVars
<1>7. CASE UNCHANGED vars
  BY <1>7, NoJobMoved DEF vars, redisVars, localVars
<1>8. \/ \E type \in CallTypes, links \in setting.batches : BatchRequest(type, links)
      \/ \E j \in Jobs : JobFetches(j) \/ JobLooksAgain(j) \/ JobWrites(j)
      \/ \E type \in CallTypes, links \in setting.syncs : SyncCall(type, links)
      \/ \E l \in Links : SyncFetches(l)
      \/ RequestEnds \/ SyncLooksAgain \/ SyncWrites \/ SyncEnds \/ UNCHANGED allVars
      => UNCHANGED vars
  BY DEF BatchRequest, JobFetches, JobLooksAgain, JobWrites, SyncCall, SyncFetches, RequestEnds,
         SyncLooksAgain, SyncWrites, SyncEnds, allVars
<1>9. QED
  BY <1>2, <1>3, <1>4, <1>5, <1>6, <1>7, <1>8 DEF BatchNext

-----------------------------------------------------------------------------
(* The promise of each queue *)

\* A copy as JobPromise sees it.
LEMMA PhaseIs ==
  ASSUME NEW x \in Copy
  PROVE  /\ x # None
         /\ x.state = "waiting" => Phase(x) = "waiting" /\ Tries(x) = x.made
         /\ x.state = "active" => Phase(x) = "running" /\ Tries(x) = x.made + 1
         /\ x.state = "completed" => Phase(x) = "done" /\ Tries(x) = x.made
         /\ x.state = "failed" => Phase(x) = "dead" /\ Tries(x) = x.made
<1>1. x # None /\ x.made \in Nat
  BY Stored DEF Copy
<1>2. CASE x.state = "waiting"
  BY <1>1, <1>2 DEF Phase, Tries
<1>3. CASE x.state = "active"
  BY <1>1, <1>3 DEF Phase, Tries
<1>4. CASE x.state = "completed"
  BY <1>1, <1>4 DEF Phase, Tries
<1>5. CASE x.state = "failed"
  BY <1>1, <1>5 DEF Phase, Tries
<1>6. QED
  BY <1>1, <1>2, <1>3, <1>4, <1>5

\* The most often a job may be tried.
LimitOf(x, c) == IF x = None THEN 0 ELSE c.attempts

\* What JobPromise lets a step make of the phase p, the limit m and the tries t of a job.
Promises(p, m, t, pn, mn, tn) ==
  \/ pn = p /\ mn = m /\ tn = t
  \/ p = "new" /\ pn = "waiting" /\ mn \in {2, 3} /\ tn = 0
  \/ p = "waiting" /\ pn = "running" /\ mn = m /\ t < m /\ tn = t + 1
  \/ p = "waiting" /\ pn = "dead" /\ mn = m /\ t = 0 /\ tn = 0
  \/ /\ p = "running" /\ mn = m /\ tn = t
     /\ pn = "done" \/ (pn = "waiting" /\ t < m) \/ (pn = "dead" /\ t = m)

\* What a queue does to a copy is allowed.
LEMMA KeptIsPromised ==
  ASSUME NEW x, NEW y, NEW cx, NEW cy, KeptBy(x, cx, y, cy)
  PROVE  Promises(Phase(x), LimitOf(x, cx), Tries(x), Phase(y), LimitOf(y, cy), Tries(y))
<1>1. CASE y = x /\ (x # None => cy = cx)
  BY <1>1 DEF Promises, LimitOf
<1>2. CASE x = None /\ y \in Copy /\ y.state = "waiting" /\ y.made = 0 /\ cy.attempts \in {2, 3}
  <2>1. Phase(x) = "new" /\ Phase(y) = "waiting" /\ Tries(y) = 0 /\ LimitOf(y, cy) \in {2, 3}
    BY <1>2, PhaseIs DEF Phase, LimitOf
  <2>2. QED
    BY <2>1 DEF Promises
<1>3. CASE /\ x \in Copy /\ y \in Copy /\ cx = cy
           /\ \/ x.state = "waiting" /\ y.state = "active" /\ y.made = x.made /\ x.made < cx.attempts
              \/ x.state = "waiting" /\ y.state = "failed" /\ y.made = 0 /\ x.made = 0
              \/ /\ x.state = "active" /\ y.made = x.made + 1
                 /\ \/ y.state = "completed"
                    \/ y.state = "waiting" /\ y.made < cx.attempts
                    \/ y.state = "failed" /\ y.made = cx.attempts
  <2>1. x # None /\ y # None /\ LimitOf(x, cx) = cx.attempts /\ LimitOf(y, cy) = cx.attempts
    BY <1>3, Stored DEF LimitOf
  <2>2. CASE x.state = "waiting" /\ y.state = "active" /\ y.made = x.made /\ x.made < cx.attempts
    <3>1. /\ Phase(x) = "waiting" /\ Tries(x) = x.made
          /\ Phase(y) = "running" /\ Tries(y) = x.made + 1
      BY <1>3, <2>2, PhaseIs
    <3>2. QED
      BY <2>1, <2>2, <3>1 DEF Promises
  <2>3. CASE x.state = "waiting" /\ y.state = "failed" /\ y.made = 0 /\ x.made = 0
    <3>1. Phase(x) = "waiting" /\ Tries(x) = 0 /\ Phase(y) = "dead" /\ Tries(y) = 0
      BY <1>3, <2>3, PhaseIs
    <3>2. QED
      BY <2>1, <3>1 DEF Promises
  <2>4. CASE /\ x.state = "active" /\ y.made = x.made + 1
             /\ \/ y.state = "completed"
                \/ y.state = "waiting" /\ y.made < cx.attempts
                \/ y.state = "failed" /\ y.made = cx.attempts
    <3>1. Phase(x) = "running" /\ Tries(x) = y.made
      BY <1>3, <2>4, PhaseIs
    <3>2. /\ Tries(y) = y.made
          /\ \/ Phase(y) = "done"
             \/ Phase(y) = "waiting" /\ y.made < cx.attempts
             \/ Phase(y) = "dead" /\ y.made = cx.attempts
      BY <1>3, <2>4, PhaseIs
    <3>3. QED
      BY <2>1, <3>1, <3>2 DEF Promises
  <2>5. QED
    BY <1>3, <2>2, <2>3, <2>4
<1>4. QED
  BY <1>1, <1>2, <1>3 DEF KeptBy

\* And that is what a step of JobPromise is, of the one queue and of the other.
LEMMA RedisPromise ==
  ASSUME \A j \in Jobs : Promises(Phase(bull[j]), LimitOf(bull[j], call[j]), Tries(bull[j]),
                                  Phase(bull'[j]), LimitOf(bull'[j], call'[j]), Tries(bull'[j]))
  PROVE  Redis!PromiseNext
<1> SUFFICES ASSUME NEW j \in Jobs
             PROVE  \/ Redis!Stay(j) \/ Redis!Accept(j) \/ Redis!Start(j) \/ Redis!Refuse(j)
                    \/ Redis!Finish(j)
  BY DEF Redis!PromiseNext
<1> DEFINE p == Phase(bull[j])
           m == LimitOf(bull[j], call[j])
           t == Tries(bull[j])
           pn == Phase(bull'[j])
           mn == LimitOf(bull'[j], call'[j])
           tn == Tries(bull'[j])
<1>1. Promises(p, m, t, pn, mn, tn)
  OBVIOUS
<1>2. Limit(bull[j], j) = m /\ Limit(bull[j], j)' = mn
  BY DEF Limit, LimitOf
<1>3. Phase(bull[j])' = pn /\ Tries(bull[j])' = tn
  BY DEF Phase, Tries
<1> HIDE DEF m, mn, pn, tn
<1>4. /\ Redis!Stay(j) <=> pn = p /\ mn = m /\ tn = t
      /\ Redis!Accept(j) <=> /\ p = "new" /\ pn \in {"waiting", "running", "dead"}
                             /\ \E max \in {2, 3} : mn = Redis!TriesFor(max)
                             /\ tn = IF pn = "running" THEN 1 ELSE 0
      /\ Redis!Start(j) <=> p = "waiting" /\ pn = "running" /\ mn = m /\ t < m /\ tn = t + 1
      /\ Redis!Refuse(j) <=> p = "waiting" /\ pn = "dead" /\ mn = m /\ t = 0 /\ tn = 0
      /\ Redis!Finish(j) <=>
           /\ p = "running" /\ mn = m /\ tn = t
           /\ pn = "done" \/ (pn = "waiting" /\ t < m) \/ (pn = "dead" /\ t = m)
  BY <1>2, <1>3 DEF Redis!Stay, Redis!Accept, Redis!Start, Redis!Refuse, Redis!Finish
<1>5. p = "new" /\ pn = "waiting" /\ mn \in {2, 3} /\ tn = 0 => Redis!Accept(j)
  BY <1>4 DEF Redis!TriesFor
<1> HIDE DEF p, t
<1>6. QED
  BY <1>1, <1>4, <1>5 DEF Promises

LEMMA MemoryPromise ==
  ASSUME \A j \in Jobs : Promises(Phase(mem[j]), LimitOf(mem[j], call[j]), Tries(mem[j]),
                                  Phase(mem'[j]), LimitOf(mem'[j], call'[j]), Tries(mem'[j]))
  PROVE  Memory!PromiseNext
<1> SUFFICES ASSUME NEW j \in Jobs
             PROVE  \/ Memory!Stay(j) \/ Memory!Accept(j) \/ Memory!Start(j) \/ Memory!Refuse(j)
                    \/ Memory!Finish(j)
  BY DEF Memory!PromiseNext
<1> DEFINE p == Phase(mem[j])
           m == LimitOf(mem[j], call[j])
           t == Tries(mem[j])
           pn == Phase(mem'[j])
           mn == LimitOf(mem'[j], call'[j])
           tn == Tries(mem'[j])
<1>1. Promises(p, m, t, pn, mn, tn)
  OBVIOUS
<1>2. Limit(mem[j], j) = m /\ Limit(mem[j], j)' = mn
  BY DEF Limit, LimitOf
<1>3. Phase(mem[j])' = pn /\ Tries(mem[j])' = tn
  BY DEF Phase, Tries
<1> HIDE DEF m, mn, pn, tn
<1>4. /\ Memory!Stay(j) <=> pn = p /\ mn = m /\ tn = t
      /\ Memory!Accept(j) <=> /\ p = "new" /\ pn \in {"waiting", "running", "dead"}
                             /\ \E max \in {2, 3} : mn = Memory!TriesFor(max)
                             /\ tn = IF pn = "running" THEN 1 ELSE 0
      /\ Memory!Start(j) <=> p = "waiting" /\ pn = "running" /\ mn = m /\ t < m /\ tn = t + 1
      /\ Memory!Refuse(j) <=> p = "waiting" /\ pn = "dead" /\ mn = m /\ t = 0 /\ tn = 0
      /\ Memory!Finish(j) <=>
           /\ p = "running" /\ mn = m /\ tn = t
           /\ pn = "done" \/ (pn = "waiting" /\ t < m) \/ (pn = "dead" /\ t = m)
  BY <1>2, <1>3 DEF Memory!Stay, Memory!Accept, Memory!Start, Memory!Refuse, Memory!Finish
<1>5. p = "new" /\ pn = "waiting" /\ mn \in {2, 3} /\ tn = 0 => Memory!Accept(j)
  BY <1>4 DEF Memory!TriesFor
<1> HIDE DEF p, t
<1>6. QED
  BY <1>1, <1>4, <1>5 DEF Promises

\* While the process lives, each of the two queues treats a job it was given as
\* addJob promises, although the two share nothing but the job's id.
THEOREM BothQueuesKeepPromise == BatchSpec => QueuesKeepPromise
<1>1. BatchInit => Redis!PromiseInit /\ Memory!PromiseInit
  <2> SUFFICES ASSUME BatchInit PROVE Redis!PromiseInit /\ Memory!PromiseInit
    OBVIOUS
  <2>1. \A j \in Jobs : bull[j] = None /\ mem[j] = None
    BY DEF BatchInit, Init
  <2>2. \A j \in Jobs :
          /\ Phase(bull[j]) = "new" /\ Limit(bull[j], j) = 0 /\ Tries(bull[j]) = 0
          /\ Phase(mem[j]) = "new" /\ Limit(mem[j], j) = 0 /\ Tries(mem[j]) = 0
    BY <2>1 DEF Phase, Limit, Tries
  <2>3. QED
    BY <2>2 DEF Redis!PromiseInit, Memory!PromiseInit
<1>2. BatchInv /\ [BatchNext]_allVars
        => [crashes' = 0 => Redis!PromiseNext /\ Memory!PromiseNext]_vars
  <2> SUFFICES ASSUME BatchInv, [BatchNext]_allVars, crashes' = 0
               PROVE  Redis!PromiseNext /\ Memory!PromiseNext
    OBVIOUS
  <2>1. \A j \in Jobs : KeptBy(bull[j], call[j], bull'[j], call'[j]) /\ KeptBy(mem[j], call[j], mem'[j], call'[j])
    BY AllAreKept DEF Kept, InRedis, InMemory
  <2>2. Redis!PromiseNext
    BY <2>1, KeptIsPromised, RedisPromise
  <2>3. Memory!PromiseNext
    BY <2>1, KeptIsPromised, MemoryPromise
  <2>4. QED
    BY <2>2, <2>3
<1>3. QED
  BY <1>1, <1>2, BatchesAreInOrder, PTL DEF BatchSpec, QueuesKeepPromise

=============================================================================
