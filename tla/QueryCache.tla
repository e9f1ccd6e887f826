------------------------------ MODULE QueryCache ------------------------------
(***************************************************************************)
(* The cache of query results (utils/queryCache.js) between the services   *)
(* that read through it (cacheQuery) and those that write to the database  *)
(* and then invalidate a tag (services/linkService.js).                    *)
(*                                                                         *)
(* The data behind a tag is a version number, and the result of a query    *)
(* the versions it saw.  An entry has an age, which stops growing when it  *)
(* has passed its time to live; lastAccess is the order of the accesses.   *)
(***************************************************************************)
EXTENDS Naturals, FiniteSets

CONSTANTS
  Callers, Writers,
  Keys, Tags,
  TagsOf,      \* the tags a query is cached with
  Ttl,
  MaxSize,
  None,
  MaxWrites    \* bound: writes to the database

CacheAssumption ==
  /\ Ttl \in Nat \ {0} /\ MaxSize \in Nat \ {0} /\ MaxWrites \in Nat
  /\ TagsOf \in [Keys -> SUBSET Tags]

\* The versions behind some tags; what is cached; a query under way; a write to be followed.
Versions == UNION {[T -> 0..MaxWrites] : T \in SUBSET Tags}
Entry == [value : Versions, age : Nat, raced : BOOLEAN]
Query == [phase : {"idle", "query", "result"}, key : Keys \cup {None},
          value : Versions \cup {None}, floor : Versions \cup {None}, raced : BOOLEAN]
Written == [tag : Tags, version : 0..MaxWrites]

\* null is no entry and no write.
NoneAssumption == None \notin Entry \cup Written

VARIABLES
  db,         \* the version of the data behind each tag
  cache,      \* key to value, age, and whether an invalidation passed its query
  older,      \* pairs of cached keys: the first was accessed before the second
  tagIndex,   \* tag to keys
  call,       \* a cacheQuery under way
  write,      \* a service call that has written and not yet invalidated
  settled,    \* history: the version of each tag that was invalidated last
  missed      \* history: the version that a writer last failed to invalidate

vars == <<db, cache, older, tagIndex, call, write, settled, missed>>

Cached == {k \in Keys : cache[k] # None}
ResultOf(k) == [t \in TagsOf[k] |-> db[t]]

\* Mutant: nothing expires.
MutExpired(e) == FALSE

\* entry.expiresAt && Date.now() > entry.expiresAt
Expired(e) == e.age > Ttl

-----------------------------------------------------------------------------
(* The operations of the cache *)

\* The index without some keys.
Del(ks, index) == [t \in Tags |-> {k \in index[t] : ~(k \in ks /\ t \in TagsOf[k])}]

\* The order of the accesses of some keys, and that with k as the last.
Among(ks) == {p \in older : p[1] \in ks /\ p[2] \in ks}
Last(k, ks) == Among(ks \ {k}) \cup {<<j, k>> : j \in ks \ {k}}

\* lastAccess = Date.now()
Touch(k) == older' = Last(k, Cached)

\* A full cache gives up the entry accessed longest ago, before it is known
\* whether the key is new.
Victims ==
  IF Cardinality(Cached) < MaxSize THEN {}
  ELSE {v \in Cached : \A j \in Cached \ {v} : <<v, j>> \in older}

Set(k, value, raced) ==
  LET gone == Victims
      index == Del(gone, tagIndex)
  IN  /\ cache' = [j \in Keys |-> IF j = k THEN [value |-> value, age |-> 0, raced |-> raced]
                                  ELSE IF j \in gone THEN None ELSE cache[j]]
      /\ older' = Last(k, Cached \ gone)
      /\ tagIndex' = [t \in Tags |-> IF t \in TagsOf[k] THEN index[t] \cup {k} ELSE index[t]]

\* Forgets some entries; the index is for the caller.
Drop(ks) ==
  /\ cache' = [k \in Keys |-> IF k \in ks THEN None ELSE cache[k]]
  /\ older' = Among(Cached \ ks)

InvalidateByTag(t) ==
  /\ Drop(tagIndex[t])
  /\ tagIndex' = [tagIndex EXCEPT ![t] = {}]

-----------------------------------------------------------------------------
(* cacheQuery *)

\* A hit is touched and returned; an entry that has expired is deleted, and its
\* keys stay in the index; a miss goes on to the query.
CacheQuery(c, k) ==
  /\ call[c].phase = "idle"
  /\ LET e == cache[k]
         floor == [t \in TagsOf[k] |-> settled[t]]
     IN  IF e # None /\ ~Expired(e)
         THEN /\ call' = [call EXCEPT ![c] = [phase |-> "idle", key |-> k, value |-> e.value,
                                              floor |-> floor, raced |-> FALSE]]
              /\ Touch(k)
              /\ UNCHANGED cache
         ELSE /\ call' = [call EXCEPT ![c] = [phase |-> "query", key |-> k, value |-> None,
                                              floor |-> floor, raced |-> FALSE]]
              /\ Drop({k})
  /\ UNCHANGED <<db, tagIndex, write, settled, missed>>

\* The database answers, some time before the caller goes on.
QueryDone(c) ==
  /\ call[c].phase = "query"
  /\ call' = [call EXCEPT ![c].phase = "result", ![c].value = ResultOf(call[c].key)]
  /\ UNCHANGED <<db, cache, older, tagIndex, write, settled, missed>>

QueryFails(c) ==
  /\ call[c].phase = "query"
  /\ call' = [call EXCEPT ![c].phase = "idle"]
  /\ UNCHANGED <<db, cache, older, tagIndex, write, settled, missed>>

StoreResult(c) ==
  /\ call[c].phase = "result"
  /\ Set(call[c].key, call[c].value, call[c].raced)
  /\ call' = [call EXCEPT ![c].phase = "idle"]
  /\ UNCHANGED <<db, write, settled, missed>>

-----------------------------------------------------------------------------
(* Writers and timers *)

\* A transaction changes what is behind a tag.
Write(w, t) ==
  /\ write[w] = None
  /\ db[t] < MaxWrites
  /\ db' = [db EXCEPT ![t] = @ + 1]
  /\ write' = [write EXCEPT ![w] = [tag |-> t, version |-> db[t] + 1]]
  /\ UNCHANGED <<cache, older, tagIndex, call, settled, missed>>

\* The later of two versions.
Later(m, n) == IF m < n THEN n ELSE m

\* And its service invalidates the tag at the end.
Invalidate(w) ==
  /\ write[w] # None
  /\ LET t == write[w].tag
     IN  /\ InvalidateByTag(t)
         /\ settled' = [settled EXCEPT ![t] = Later(@, write[w].version)]
         /\ call' = [c \in Callers |-> IF call[c].phase = "result" /\ t \in TagsOf[call[c].key]
                                       THEN [call[c] EXCEPT !.raced = TRUE] ELSE call[c]]
  /\ write' = [write EXCEPT ![w] = None]
  /\ UNCHANGED <<db, missed>>

\* A cleanup run that has deleted rows fails at its next batch, and does not come to
\* the invalidation at its end.
FailsToInvalidate(w) ==
  /\ write[w] # None
  /\ missed' = [missed EXCEPT ![write[w].tag] = Later(@, write[w].version)]
  /\ write' = [write EXCEPT ![w] = None]
  /\ UNCHANGED <<db, cache, older, tagIndex, call, settled>>

\* Every minute: the entries that have expired.
Cleanup ==
  LET old == {k \in Cached : Expired(cache[k])}
  IN  /\ old # {}
      /\ Drop(old)
      /\ tagIndex' = Del(old, tagIndex)
      /\ UNCHANGED <<db, call, write, settled, missed>>

Tick ==
  /\ \E k \in Cached : cache[k].age <= Ttl
  /\ cache' = [k \in Keys |-> IF cache[k] = None \/ cache[k].age > Ttl THEN cache[k]
                              ELSE [cache[k] EXCEPT !.age = @ + 1]]
  /\ UNCHANGED <<db, older, tagIndex, call, write, settled, missed>>

-----------------------------------------------------------------------------
(* Specification *)

Init ==
  /\ db = [t \in Tags |-> 0]
  /\ cache = [k \in Keys |-> None]
  /\ older = {}
  /\ tagIndex = [t \in Tags |-> {}]
  /\ call = [c \in Callers |-> [phase |-> "idle", key |-> None, value |-> None,
                                floor |-> None, raced |-> FALSE]]
  /\ write = [w \in Writers |-> None]
  /\ settled = [t \in Tags |-> 0] /\ missed = [t \in Tags |-> 0]

Next ==
  \/ \E c \in Callers :
       \/ \E k \in Keys : CacheQuery(c, k)
       \/ QueryDone(c) \/ QueryFails(c) \/ StoreResult(c)
  \/ \E w \in Writers : Invalidate(w) \/ FailsToInvalidate(w) \/ \E t \in Tags : Write(w, t)
  \/ Cleanup \/ Tick

Spec == Init /\ [][Next]_vars

\* The database answers, continuations run, time passes and the interval fires; whether
\* a writer comes to its invalidation is left open.
FairSpec ==
  /\ Spec
  /\ WF_vars(Tick) /\ WF_vars(Cleanup)
  /\ \A c \in Callers : WF_vars(QueryDone(c) \/ QueryFails(c) \/ StoreResult(c))
  /\ \A w \in Writers : WF_vars(Invalidate(w) \/ FailsToInvalidate(w))

-----------------------------------------------------------------------------
(* Properties *)

Stale(k) == \E t \in TagsOf[k] : cache[k].value[t] < db[t]

\* Every variable has its type.
TypeOK ==
  /\ db \in [Tags -> 0..MaxWrites] /\ settled \in [Tags -> 0..MaxWrites]
  /\ missed \in [Tags -> 0..MaxWrites]
  /\ cache \in [Keys -> Entry \cup {None}]
  /\ \A k \in Cached : cache[k].value \in [TagsOf[k] -> 0..MaxWrites]
  /\ older \subseteq Cached \X Cached
  /\ tagIndex \in [Tags -> SUBSET Keys]
  /\ call \in [Callers -> Query]
  /\ \A c \in Callers :
       /\ call[c].phase # "idle" => call[c].key \in Keys
       /\ call[c].phase = "result" => call[c].value \in [TagsOf[call[c].key] -> 0..MaxWrites]
  /\ write \in [Writers -> Written \cup {None}]

\* Whatever was evicted, expired, invalidated by another tag or set twice: an
\* entry is found by the invalidation of each of its tags.
EntriesAreIndexed == \A k \in Cached : \A t \in TagsOf[k] : k \in tagIndex[t]

\* The cache never holds more than its limit, two calls that miss the same key
\* at once included.
SizeIsBounded == Cardinality(Cached) <= MaxSize

\* The versions that a query saw may be older than the data: for each tag the writer has
\* not invalidated yet or has failed to, or an invalidation came while the query had
\* already been answered.
InTime(k, value, raced) ==
  \A t \in TagsOf[k] : value[t] < db[t] =>
    \/ raced
    \/ \E w \in Writers : /\ write[w] # None
                           /\ write[w].tag = t /\ value[t] < write[w].version
    \/ value[t] < missed[t]

\* A value in the cache is out of date only for one of these reasons.
StaleForAReason == \A k \in Cached : InTime(k, cache[k].value, cache[k].raced)

\* The accesses are in an order, so that a cache that is not empty has an entry
\* that was accessed longest ago, and the cache is never infinite.
AccessesAreOrdered ==
  /\ IsFiniteSet(Cached)
  /\ \A j, k \in Cached : j # k => (<<j, k>> \in older <=> <<k, j>> \notin older)
  /\ \A k \in Cached : <<k, k>> \notin older
  /\ \A i, j, k \in Cached : <<i, j>> \in older /\ <<j, k>> \in older => <<i, k>> \in older

\* The same of a result that is still to be stored.
ResultsAreStaleForAReason ==
  \A c \in Callers :
    call[c].phase = "result" => InTime(call[c].key, call[c].value, call[c].raced)

\* The inductive invariant of the cache.
CacheInv ==
  /\ TypeOK /\ EntriesAreIndexed /\ SizeIsBounded /\ StaleForAReason
  /\ AccessesAreOrdered /\ ResultsAreStaleForAReason

\* When the writes are over, so is what is out of date: by invalidation, or by age.
Converges == <>[](\A k \in Keys : cache[k] # None => ~Stale(k))

\* readme.md:99 "tag-based invalidation": a call that starts after a write was
\* invalidated sees it.
SeesSettledWrites ==
  \A c \in Callers : call[c].phase = "idle" /\ call[c].value # None =>
    \A t \in TagsOf[call[c].key] : call[c].value[t] >= call[c].floor[t]
=============================================================================
