------------------------------ MODULE LinkList ------------------------------
(***************************************************************************)
(* What a user sees of the links table: "My Downloads" and the trash, page *)
(* by page and filtered, the statistics of the dashboard and the days that *)
(* are left (linkService's lists, linkRepository, linkPresenter and the    *)
(* admin view controller).  A page is two queries that run beside each     *)
(* other, one for its rows and one for the total, and the pages of a walk  *)
(* are separate requests: the table changes in between.                    *)
(*                                                                         *)
(* A service call of LinkLifecycle is one step here; a run of cleanup is   *)
(* two, since it deletes by id what it has selected before, and the runs   *)
(* that overlap are CleanupOverlap's.  Time is Date.now() in coarse ticks, *)
(* 0 is null in a column and in a filter.                                  *)
(***************************************************************************)
EXTENDS Integers, FiniteSets, FiniteSetsExt, SequencesExt

CONSTANTS
  Users,
  Admins,         \* users whose session has the role admin
  Names,          \* what is searched for in original_name
  None,           \* no row, no search, and created_by when it is null
  Filters,        \* bound: the filters that pages are asked with
  Lives,          \* how long a link may live, in ticks (0: for ever)
  Limit,          \* rows of a page
  Day,            \* ticks of a day
  RetentionDays,  \* config.trashRetentionDays
  MaxLinks,       \* bound: links created in a behaviour
  MaxTime         \* bound: last tick of the clock

LinkIds == 1 .. MaxLinks

ASSUME ListAssumption ==
  /\ Admins \subseteq Users
  /\ Limit \in Nat \ {0} /\ Day \in Nat \ {0} /\ RetentionDays \in Nat
  /\ Lives \subseteq Nat /\ MaxLinks \in Nat /\ MaxTime \in Nat \ {0}
  /\ \A f \in Filters : f.view \in {"list", "trash"}

VARIABLES
  links,   \* the links table: LinkIds -> row or None
  maker,   \* history: the user who created a link
  now,     \* Date.now()
  cleanup, \* a run of cleanup: the ids it has selected, and when
  walk,    \* somebody goes through the pages of a list
  calm     \* history: what the walk is about has not changed since it began

vars == <<links, maker, now, cleanup, walk, calm>>

Exists(l) == links[l] # None
Live(l) == Exists(l) /\ links[l].deleted = 0
Trashed(l) == Exists(l) /\ links[l].deleted # 0

-----------------------------------------------------------------------------
(* Queries *)

\* _applyScope: an administrator's query is not restricted.
InScope(u, l) == u \in Admins \/ links[l].created_by = u

\* The status filter of findAll and countAll.
HasStatus(status, l) ==
  CASE status = "active"  -> links[l].expires = 0 \/ links[l].expires > now
    [] status = "expired" -> links[l].expires # 0 /\ links[l].expires <= now
    [] OTHER -> TRUE

Found(f, l) == f.name = None \/ links[l].name = f.name

\* What findAll and countAll select: the search, the status and the dates.
Listed(u, f) ==
  {l \in LinkIds : /\ Live(l) /\ InScope(u, l) /\ Found(f, l)
                   /\ HasStatus(f.status, l)
                   /\ f.from = 0 \/ links[l].created >= f.from
                   /\ f.to = 0 \/ links[l].created <= f.to}

\* What findSoftDeleted and countSoftDeleted select.
InTrash(u, f) == {l \in LinkIds : Trashed(l) /\ InScope(u, l) /\ Found(f, l)}

Matching(u, f) == IF f.view = "list" THEN Listed(u, f) ELSE InTrash(u, f)

\* ORDER BY created_at or deleted_at.
SortKey(f, l) == IF f.view = "list" THEN links[l].created ELSE links[l].deleted

\* The newest come first; rows of the same millisecond come in any order.
Orders(u, f) ==
  {s \in SetToSeqs(Matching(u, f)) :
     \A i, j \in DOMAIN s : i < j => SortKey(f, s[i]) >= SortKey(f, s[j])}

\* Mutant: the pages are counted from nought.
MutPageOf(s, page) == SubSeq(s, page * Limit + 1, Min({(page + 1) * Limit, Len(s)}))

\* LIMIT and OFFSET
PageOf(s, page) == SubSeq(s, (page - 1) * Limit + 1, Min({page * Limit, Len(s)}))

CeilDiv(a, b) == (a + b - 1) \div b

\* pagination.hasNext
HasNext(total, page) == page < CeilDiv(total, Limit)

\* getStats of the repository: of all users, whoever asks.  The service keeps the
\* counts for five minutes (QueryCache).
Stats ==
  LET counted == {l \in LinkIds : Live(l)}
  IN  [total |-> Cardinality(counted),
       active |-> Cardinality({l \in counted : links[l].expires = 0 \/ links[l].expires > now}),
       expired |-> Cardinality({l \in counted : links[l].expires # 0 /\ links[l].expires <= now})]

\* toViewModel: the badge of a row.
IsExpired(l) == links[l].expires # 0 /\ links[l].expires < now

\* toTrashViewModel
DaysUntilPurge(l) ==
  Max({0, CeilDiv(links[l].deleted + RetentionDays * Day - now, Day)})

\* Mutant: the retention is counted from the creation.
MutGarbageCreated ==
  {l \in LinkIds : Exists(l) /\ \/ IsExpired(l)
                                \/ Trashed(l) /\ links[l].created < now - RetentionDays * Day}

\* findGarbage
Garbage ==
  {l \in LinkIds : Exists(l) /\ \/ IsExpired(l)
                                \/ Trashed(l) /\ links[l].deleted < now - RetentionDays * Day}

-----------------------------------------------------------------------------
(* History *)

\* The rows a walk is about, with what they are sorted by.
Subject(w) == {<<l, SortKey(w.filter, l)>> : l \in Matching(w.user, w.filter)}

Steady == walk.stage = "off" \/ Subject(walk) = walk.subject
Watch == calm' = (calm /\ Steady')

-----------------------------------------------------------------------------
(* The table *)

\* createLink writes no created_by.
Create(u, name, life) ==
  \E l \in LinkIds :
    /\ maker[l] = None /\ \A m \in LinkIds : m < l => maker[m] # None
    /\ links' = [links EXCEPT ![l] =
         [created_by |-> None, name |-> name, created |-> now, deleted |-> 0,
          expires |-> IF life = 0 THEN 0 ELSE now + life]]
    /\ maker' = [maker EXCEPT ![l] = u]
    /\ UNCHANGED <<now, cleanup, walk>> /\ Watch

\* The controllers look the link up in the scope of the session, and the service
\* then changes it by its id.
Trash(u, l) ==
  /\ Live(l) /\ InScope(u, l)
  /\ links' = [links EXCEPT ![l].deleted = now]
  /\ UNCHANGED <<maker, now, cleanup, walk>> /\ Watch

Restore(u, l) ==
  /\ Exists(l) /\ InScope(u, l)
  /\ links' = [links EXCEPT ![l].deleted = 0]
  /\ UNCHANGED <<maker, now, cleanup, walk>> /\ Watch

Purge(u, l) ==
  /\ Exists(l) /\ InScope(u, l)
  /\ links' = [links EXCEPT ![l] = None]
  /\ UNCHANGED <<maker, now, cleanup, walk>> /\ Watch

NoCleanup == [rows |-> {}, at |-> 0]

\* The cleanup cron: findGarbage.
SelectGarbage ==
  /\ cleanup = NoCleanup /\ Garbage # {}
  /\ cleanup' = [rows |-> Garbage, at |-> now]
  /\ UNCHANGED <<links, maker, now, walk>> /\ Watch

\* The rows whose files could be deleted go, whatever has become of them.
DeleteSelected ==
  /\ cleanup # NoCleanup /\ cleanup' = NoCleanup
  /\ \E gone \in SUBSET cleanup.rows :
       links' = [l \in LinkIds |-> IF l \in gone THEN None ELSE links[l]]
  /\ UNCHANGED <<maker, now, walk>> /\ Watch

Tick ==
  /\ now < MaxTime
  /\ now' = now + 1
  /\ UNCHANGED <<links, maker, walk, cleanup>> /\ Watch

-----------------------------------------------------------------------------
(* Pages *)

NoWalk == [stage |-> "off"]

\* The first page of a list is asked for.
Open(u, f) ==
  /\ walk.stage # "asked"
  /\ walk' = [stage |-> "asked", user |-> u, filter |-> f, page |-> 1,
              rows |-> {}, total |-> {}, seen |-> <<>>,
              subject |-> {<<l, SortKey(f, l)>> : l \in Matching(u, f)}]
  /\ calm' = TRUE
  /\ UNCHANGED <<links, maker, now, cleanup>>

\* findAll or findSoftDeleted.
FindRows ==
  /\ walk.stage = "asked" /\ walk.rows = {}
  /\ \E s \in Orders(walk.user, walk.filter) :
       walk' = [walk EXCEPT !.rows = {PageOf(s, walk.page)}]
  /\ UNCHANGED <<links, maker, now, cleanup>> /\ Watch

\* countAll or countSoftDeleted, at the same time.
CountRows ==
  /\ walk.stage = "asked" /\ walk.total = {}
  /\ walk' = [walk EXCEPT !.total = {Cardinality(Matching(walk.user, walk.filter))}]
  /\ UNCHANGED <<links, maker, now, cleanup>> /\ Watch

\* Both answers are in and the page is rendered.
Show ==
  /\ walk.stage = "asked" /\ walk.rows # {} /\ walk.total # {}
  /\ walk' = [walk EXCEPT !.stage = "shown",
                          !.seen = @ \o CHOOSE s \in walk.rows : TRUE]
  /\ UNCHANGED <<links, maker, now, cleanup>> /\ Watch

ShownTotal == CHOOSE n \in walk.total : TRUE

\* The links between pages keep the filter, and `limit` only as it is by default.
NextPage ==
  /\ walk.stage = "shown" /\ HasNext(ShownTotal, walk.page)
  /\ walk' = [walk EXCEPT !.stage = "asked", !.page = @ + 1, !.rows = {}, !.total = {}]
  /\ UNCHANGED <<links, maker, now, cleanup>> /\ Watch

-----------------------------------------------------------------------------
Init ==
  /\ links = [l \in LinkIds |-> None]
  /\ maker = [l \in LinkIds |-> None]
  /\ now = 1
  /\ cleanup = NoCleanup
  /\ walk = NoWalk
  /\ calm = TRUE

Next ==
  \/ \E u \in Users, name \in Names, life \in Lives : Create(u, name, life)
  \/ \E u \in Users, l \in LinkIds : Trash(u, l) \/ Restore(u, l) \/ Purge(u, l)
  \/ SelectGarbage \/ DeleteSelected \/ Tick
  \/ \E u \in Users, f \in Filters : Open(u, f)
  \/ FindRows \/ CountRows \/ Show \/ NextPage

Spec == Init /\ [][Next]_vars

-----------------------------------------------------------------------------
(* Properties *)

\* No two rows of the walk were created, or deleted, in the same millisecond.
Distinct == \A a, b \in walk.subject : a # b => a[2] # b[2]

\* A walk through rows that do not change meanwhile shows each of them once, newest
\* first, and offers another page exactly while there are more: neither the two
\* queries of a page nor the pages disagree, whatever else happens to the table.
WalkShowsAll ==
  walk.stage = "shown" /\ calm /\ Distinct =>
    LET shown == {p \in walk.subject : \E i \in DOMAIN walk.seen : walk.seen[i] = p[1]}
    IN  /\ Len(walk.seen) = Min({walk.page * Limit, Cardinality(walk.subject)})
        /\ Cardinality(shown) = Len(walk.seen)
        /\ \A p \in shown, q \in walk.subject \ shown : q[2] < p[2]
        /\ HasNext(ShownTotal, walk.page) <=> walk.subject # shown

All(view) == [view |-> view, name |-> None, status |-> "all", from |-> 0, to |-> 0]
WithStatus(status) == [All("list") EXCEPT !.status = status]

\* Whenever the dashboard's statistics are counted they are the totals of what an
\* administrator's lists show: a live link is active or expired, and not both, also
\* at the moment it expires.  (What the cache keeps of them gets older than that.)
StatsMatchLists ==
  \A u \in Admins :
    /\ Stats.total = Cardinality(Listed(u, All("list")))
    /\ Stats.active = Cardinality(Listed(u, WithStatus("active")))
    /\ Stats.expired = Cardinality(Listed(u, WithStatus("expired")))

\* A link with the badge "expired" is found under that status and not as an active
\* one, and cleanup would select it.  The filter is ahead of the badge and of cleanup,
\* by the one moment at which the link expires.
ExpiredEverywhere ==
  \A u \in Admins, l \in LinkIds : Live(l) =>
    LET found == l \in Listed(u, WithStatus("expired"))
    IN  /\ found <=> l \notin Listed(u, WithStatus("active"))
        /\ IsExpired(l) => found /\ l \in Garbage
        /\ found /\ ~ IsExpired(l) => links[l].expires = now

\* Of the trashed links that do not expire, cleanup takes one of which the trash still
\* shows days only if it was trashed after cleanup had selected it: a link that was
\* restored and trashed again meanwhile goes with the others.
DaysAreKept ==
  [][DeleteSelected => \A l \in LinkIds :
       Trashed(l) /\ ~ IsExpired(l) /\ links'[l] = None =>
         DaysUntilPurge(l) = 0 \/ links[l].deleted >= cleanup.at]_vars

\* linkPresenter.js:52 'Calculate "Days Remaining" until auto-purge': no trashed link
\* goes before.
DaysRemaining ==
  [][DeleteSelected => \A l \in LinkIds :
       Trashed(l) /\ links'[l] = None => DaysUntilPurge(l) = 0]_vars

\* readme.md:10 "regular users only see and manage their own files": what a user has
\* created and nobody deleted is in the user's list.
UsersSeeTheirOwn ==
  \A u \in Users, l \in LinkIds :
    Live(l) /\ maker[l] = u => l \in Listed(u, All("list"))

\* readme.md:65 "Users see metrics for their own files".
StatsAreScoped ==
  \A u \in Users \ Admins :
    Stats.total = Cardinality({l \in LinkIds : Live(l) /\ maker[l] = u})
=============================================================================
