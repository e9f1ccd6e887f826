----------------------------- MODULE MCDashboard -----------------------------
(***************************************************************************)
(* What an administrator looks at may be older than the data: a page in    *)
(* the browser, AdminPage, and the counts of the dashboard, QueryCache.    *)
(* The two share no variable: a behaviour is one of the first or one of    *)
(* the second, as `part` says from the start.                              *)
(***************************************************************************)
EXTENDS AdminPage

CONSTANTS Callers, Writers, Keys, Tags, TagsOf, Ttl, MaxSize, MaxWrites,
          k1, k2, links, stats, i1

VARIABLES db, cache, older, tagIndex, call, write, settled, missed, part

Cache == INSTANCE QueryCache

ASSUME CacheAssumption == Cache!CacheAssumption /\ Cache!NoneAssumption

cacheVars == <<db, cache, older, tagIndex, call, write, settled, missed>>

\* One query with both tags, as the dashboard's, and one with one of them.
MCTagsOf == [k \in Keys |-> IF k = k1 THEN Tags ELSE {links}]

Browsing == part = "page"
Caching == part = "cache"

\* Of the initial states of the part that rests one will do.
DashboardInit ==
  /\ part \in {"page", "cache"} /\ Init /\ Cache!Init
  /\ Caching => view = "list"

DashboardNext ==
  \/ Browsing /\ Next /\ UNCHANGED <<cacheVars, part>>
  \/ Caching /\ Cache!Next /\ UNCHANGED <<vars, part>>

DashboardSpec ==
  /\ DashboardInit
  /\ [][DashboardNext]_<<vars, cacheVars, part>>
  /\ WF_vars(Browsing /\ Tick)
  /\ \A i \in Items : WF_vars(Browsing /\ (ServerAnswersRow(i) \/ RowAnswered(i)))
  /\ WF_cacheVars(Caching /\ Cache!Tick)
  /\ WF_cacheVars(Caching /\ Cache!Cleanup)
  /\ \A c \in Callers :
       WF_cacheVars(Caching /\ (Cache!QueryDone(c) \/ Cache!QueryFails(c) \/ Cache!StoreResult(c)))
  /\ \A w \in Writers :
       WF_cacheVars(Caching /\ (Cache!Invalidate(w) \/ Cache!FailsToInvalidate(w)))

-----------------------------------------------------------------------------
(* Properties *)

\* No row leaves the page unasked but one that was ticked while a batch was out, and no
\* entry of the cache is out of reach of an invalidation, one too many, or out of date
\* but for a race or an invalidation that has not come.
DashboardInv == PageInv /\ Cache!CacheInv

\* A row that is busy is freed, one for all as nothing tells them apart, and a toast
\* goes by itself.
PageSettles == RowIsFreed(i1) /\ ToastHides

\* QueryCache's: what is out of date goes, when nothing is written any more.
CacheConverges == Caching => Cache!Converges
=============================================================================
