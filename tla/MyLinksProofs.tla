---------------------------- MODULE MyLinksProofs ----------------------------
(***************************************************************************)
(* Proofs about LinkList and LinkEdit, as MCMyLinks puts them side by      *)
(* side, for every set of users, filters and tabs, every page size,        *)
(* retention and number of links.                                          *)
(*                                                                         *)
(* A row has a rank: how many entries of its list are newer.  Whatever     *)
(* order the database returns, a row stands where its rank says            *)
(* (OrderedByRank), so two queries of one list agree, and the pages of a   *)
(* walk are put together row by row (WalkIsTrue); rows in their places are *)
(* the first ones of the list, each of them once (ShownAreFirst).          *)
(* SelectedInv says of a run of cleanup that what it selected of the trash *)
(* is still as old as it was, or has been trashed since.                   *)
(* Of an edit form, OneUpdate says that what an update decided about the   *)
(* address fits the link until it writes.                                  *)
(***************************************************************************)
EXTENDS MCMyLinks, FiniteSetTheorems, TLAPS

-----------------------------------------------------------------------------
(* Arithmetic *)

\* Min and Max of the community modules choose: of two numbers they are these.
LEMMA MinOfTwo ==
  ASSUME NEW a \in Int, NEW b \in Int
  PROVE  Min({a, b}) = IF a <= b THEN a ELSE b
BY DEF Min

LEMMA MaxOfTwo ==
  ASSUME NEW a \in Int, NEW b \in Int
  PROVE  Max({a, b}) = IF a >= b THEN a ELSE b
BY DEF Max

\* A page of n rows comes after `page` pages exactly if these hold fewer rows.
LEMMA HasNextMeans ==
  ASSUME NEW n \in Nat, NEW page \in Nat
  PROVE  HasNext(n, page) <=> page * Limit < n
<1> DEFINE d == (n + Limit - 1) \div Limit
<1>1. Limit \in Nat \ {0}
  BY ListAssumption
<1>2. d \in Int /\ Limit * d <= n + Limit - 1 /\ n + Limit - 1 < Limit * d + Limit
  BY <1>1
<1> QED
  BY <1>1, <1>2 DEF HasNext, CeilDiv

LEMMA PagesFollow ==
  ASSUME NEW page \in Nat
  PROVE  /\ (page - 1) * Limit \in Int
         /\ page * Limit = (page - 1) * Limit + Limit
BY ListAssumption

LEMMA NoDaysLeft ==
  ASSUME NEW x \in Int, x < 0
  PROVE  Max({0, CeilDiv(x, Day)}) = 0
<1> DEFINE d == (x + Day - 1) \div Day
<1>1. Day \in Nat \ {0}
  BY ListAssumption
<1>2. d \in Int /\ Day * d <= x + Day - 1
  BY <1>1
<1>3. d <= 0
  BY <1>1, <1>2
<1> QED
  BY <1>2, <1>3, MaxOfTwo DEF CeilDiv

-----------------------------------------------------------------------------
(* The places in a list *)

\* What stands before an entry: an entry is a row with what it is sorted by.
Before(S, p) == {q \in S : q[2] > p[2]}
Rank(S, p) == Cardinality(Before(S, p))

\* The row with k others before it.
InPlace(S, l, k) == \E p \in S : p[1] = l /\ Rank(S, p) = k

Entries == LinkIds \X Nat

\* The entries of a list: one for a row, none two sorted alike.
IsList(S) ==
  /\ S \subseteq Entries
  /\ \A p, q \in S : p[1] = q[1] => p = q
  /\ \A p, q \in S : p # q => p[2] # q[2]

LEMMA LinkIdsFinite == LinkIds \subseteq Nat /\ IsFiniteSet(LinkIds)
BY ListAssumption, FS_Interval DEF LinkIds

\* As many entries as rows.
LEMMA ListIsFinite ==
  ASSUME NEW S, NEW M \in SUBSET LinkIds, M = {p[1] : p \in S},
         \A p, q \in S : p[1] = q[1] => p = q
  PROVE  IsFiniteSet(S) /\ IsFiniteSet(M) /\ Cardinality(S) = Cardinality(M)
<1> DEFINE f == [l \in M |-> CHOOSE p \in S : p[1] = l]
<1>1. IsFiniteSet(M)
  BY LinkIdsFinite, FS_Subset
<1>2. \A l \in M : f[l] \in S /\ f[l][1] = l
  OBVIOUS
<1>3. \A p \in S : p[1] \in M /\ f[p[1]] = p
  BY <1>2
<1>4. f \in Bijection(M, S)
  <2>1. f \in [M -> S]
    BY <1>2
  <2>2. \A l, m \in M : f[l] = f[m] => l = m
    BY <1>2
  <2> QED
    BY <1>3, <2>1, <2>2, Zenon DEF Bijection, Injection, Surjection, IsInjective
<1>5. ExistsBijection(M, S)
  BY <1>4 DEF ExistsBijection
<1> QED
  BY <1>1, <1>5, FS_Bijection

LEMMA RankIsNat ==
  ASSUME NEW S, IsFiniteSet(S), NEW p
  PROVE  Rank(S, p) \in Nat
<1>1. Before(S, p) \subseteq S
  BY DEF Before
<1> QED
  BY <1>1, FS_Subset, FS_CardinalityType DEF Rank

\* The later has the smaller rank.
LEMMA LaterComesFirst ==
  ASSUME NEW S, IsFiniteSet(S), IsList(S), NEW p \in S, NEW q \in S, p[2] > q[2]
  PROVE  Rank(S, p) < Rank(S, q)
<1>1. p[2] \in Nat /\ q[2] \in Nat /\ \A r \in S : r[2] \in Nat
  BY DEF IsList, Entries
<1>2. Before(S, p) \subseteq Before(S, q) /\ p \in Before(S, q) /\ p \notin Before(S, p)
  BY <1>1 DEF Before
<1>3. IsFiniteSet(Before(S, q))
  BY FS_Subset DEF Before
<1>4. /\ Cardinality(Before(S, p)) <= Cardinality(Before(S, q))
      /\ Cardinality(Before(S, p)) # Cardinality(Before(S, q))
  BY <1>2, <1>3, FS_Subset
<1>5. Rank(S, p) \in Nat /\ Rank(S, q) \in Nat
  BY RankIsNat
<1> QED
  BY <1>4, <1>5 DEF Rank

LEMMA RanksDiffer ==
  ASSUME NEW S, IsFiniteSet(S), IsList(S), NEW p \in S, NEW q \in S,
         Rank(S, p) = Rank(S, q)
  PROVE  p = q
<1>1. p[2] \in Nat /\ q[2] \in Nat
  BY DEF IsList, Entries
<1>2. Rank(S, p) \in Nat /\ Rank(S, q) \in Nat
  BY RankIsNat
<1>3. ~ (p[2] > q[2]) /\ ~ (q[2] > p[2])
  BY <1>2, LaterComesFirst
<1> QED
  BY <1>1, <1>3 DEF IsList

LEMMA SmallerRankIsLater ==
  ASSUME NEW S, IsFiniteSet(S), IsList(S), NEW p \in S, NEW q \in S,
         Rank(S, p) < Rank(S, q)
  PROVE  q[2] < p[2]
<1>1. p[2] \in Nat /\ q[2] \in Nat
  BY DEF IsList, Entries
<1>2. Rank(S, p) \in Nat /\ Rank(S, q) \in Nat
  BY RankIsNat
<1>3. p # q /\ ~ (q[2] > p[2])
  BY <1>2, LaterComesFirst
<1> QED
  BY <1>1, <1>3 DEF IsList

\* What ORDER BY returns: each row stands where its rank says.
LEMMA OrderedByRank ==
  ASSUME NEW S, IsList(S), NEW M \in SUBSET LinkIds, M = {p[1] : p \in S},
         NEW s \in SetToSeqs(M),
         \A i, j \in DOMAIN s : i < j =>
           \A p, q \in S : p[1] = s[i] /\ q[1] = s[j] => p[2] >= q[2]
  PROVE  /\ s \in Seq(LinkIds) /\ Len(s) = Cardinality(S)
         /\ \A i \in 1 .. Len(s) : InPlace(S, s[i], i - 1)
<1> DEFINE n == Cardinality(M)
           e == [i \in 1 .. n |-> CHOOSE p \in S : p[1] = s[i]]
<1>1. IsFiniteSet(S) /\ IsFiniteSet(M) /\ Cardinality(S) = n /\ n \in Nat
  BY ListIsFinite, FS_CardinalityType DEF IsList
<1>2. /\ s \in [1 .. n -> M] /\ DOMAIN s = 1 .. n
      /\ \A i, j \in 1 .. n : i # j => s[i] # s[j]
  BY DEF SetToSeqs
<1> HIDE DEF n
<1>3. s \in Seq(LinkIds) /\ Len(s) = n
  <2>1. s \in [1 .. n -> LinkIds]
    BY <1>2
  <2> QED
    BY <1>1, <2>1
<1>4. \A i \in 1 .. n : e[i] \in S /\ e[i][1] = s[i]
  BY <1>2
<1>5. \A i, j \in 1 .. n : i # j => e[i] # e[j]
  BY <1>2, <1>4
<1>6. e \in Injection(1 .. n, S)
  BY <1>4, <1>5 DEF Injection, IsInjective
<1>7. \A p \in S : \E i \in 1 .. n : e[i] = p
  <2>1. IsFiniteSet(1 .. n) /\ Cardinality(1 .. n) = n
    <3>1. n \in Nat
      BY <1>1
    <3>2. /\ IsFiniteSet(1 .. n)
          /\ Cardinality(1 .. n) = IF 1 > n THEN 0 ELSE n - 1 + 1
      BY <3>1, FS_Interval
    <3> QED
      BY <3>1, <3>2
  <2>2. e \in Surjection(1 .. n, S)
    BY <1>1, <1>6, <2>1, FS_Injection
  <2> QED
    BY <2>2 DEF Surjection
<1>8. \A i, j \in 1 .. n : i < j => e[i][2] > e[j][2]
  <2> SUFFICES ASSUME NEW i \in 1 .. n, NEW j \in 1 .. n, i < j
               PROVE  e[i][2] > e[j][2]
    OBVIOUS
  <2>1. e[i] \in S /\ e[j] \in S /\ e[i] # e[j]
    BY <1>4, <1>5
  <2>2. e[i][2] >= e[j][2]
    BY <1>2, <1>4, <2>1
  <2> QED
    BY <2>1, <2>2 DEF IsList, Entries
<1> HIDE DEF e
<1>9. ASSUME NEW i \in 1 .. n PROVE InPlace(S, s[i], i - 1)
  <2> DEFINE g == [j \in 1 .. (i - 1) |-> e[j]]
  <2>1. \A j \in 1 .. (i - 1) : j \in 1 .. n /\ j < i
    BY <1>1
  <2>2. \A j \in 1 .. (i - 1) : g[j] \in Before(S, e[i])
    BY <1>4, <1>8, <2>1 DEF Before
  <2>3. \A p \in Before(S, e[i]) : \E j \in 1 .. (i - 1) : g[j] = p
    <3> SUFFICES ASSUME NEW p \in Before(S, e[i])
                 PROVE  \E j \in 1 .. (i - 1) : e[j] = p
      OBVIOUS
    <3>1. p \in S /\ p[2] > e[i][2]
      BY DEF Before
    <3>2. PICK j \in 1 .. n : e[j] = p
      BY <1>7, <3>1
    <3>3. p[2] \in Nat /\ e[i][2] \in Nat
      BY <1>4, <3>1 DEF IsList, Entries
    <3>4. ~ (i < j) /\ i # j
      BY <1>8, <3>1, <3>2, <3>3
    <3> QED
      BY <3>2, <3>4
  <2>4. g \in Bijection(1 .. (i - 1), Before(S, e[i]))
    BY <1>5, <2>1, <2>2, <2>3 DEF Bijection, Injection, Surjection, IsInjective
  <2>5. IsFiniteSet(1 .. (i - 1)) /\ Cardinality(1 .. (i - 1)) = i - 1
    <3>1. i - 1 \in Nat
      BY <1>1
    <3>2. /\ IsFiniteSet(1 .. (i - 1))
          /\ Cardinality(1 .. (i - 1)) = IF 1 > i - 1 THEN 0 ELSE i - 1 - 1 + 1
      BY <3>1, FS_Interval
    <3> QED
      BY <3>1, <3>2
  <2>6. ExistsBijection(1 .. (i - 1), Before(S, e[i]))
    BY <2>4 DEF ExistsBijection
  <2>7. Rank(S, e[i]) = i - 1
    BY <2>5, <2>6, FS_Bijection DEF Rank
  <2> QED
    BY <1>4, <2>7 DEF InPlace
<1> QED
  BY <1>1, <1>3, <1>9

\* The entries whose rows a walk has shown.
Shown(S, seen) == {p \in S : \E i \in DOMAIN seen : seen[i] = p[1]}

\* Rows in their places are the first ones of the list, each of them once.
LEMMA ShownAreFirst ==
  ASSUME NEW S, IsFiniteSet(S), IsList(S), NEW seen \in Seq(LinkIds),
         \A i \in 1 .. Len(seen) : InPlace(S, seen[i], i - 1)
  PROVE  /\ Cardinality(Shown(S, seen)) = Len(seen)
         /\ \A p \in Shown(S, seen), q \in S \ Shown(S, seen) : q[2] < p[2]
<1> DEFINE k == Len(seen)
           e == [i \in 1 .. k |-> CHOOSE p \in S : p[1] = seen[i] /\ Rank(S, p) = i - 1]
<1>1. k \in Nat /\ DOMAIN seen = 1 .. k
  OBVIOUS
<1>2. \A i \in 1 .. k : e[i] \in S /\ e[i][1] = seen[i] /\ Rank(S, e[i]) = i - 1
  BY DEF InPlace
<1> HIDE DEF k, e
<1>3. \A p \in Shown(S, seen) : \E i \in 1 .. k : e[i] = p
  BY <1>1, <1>2 DEF Shown, IsList
<1>4. \A i \in 1 .. k : e[i] \in Shown(S, seen)
  BY <1>1, <1>2 DEF Shown
<1>5. Cardinality(Shown(S, seen)) = k
  <2>1. \A i, j \in 1 .. k : i # j => e[i] # e[j]
    BY <1>1, <1>2
  <2>2. e \in Bijection(1 .. k, Shown(S, seen))
    <3>1. e \in [1 .. k -> Shown(S, seen)]
      BY <1>4 DEF e
    <3> QED
      BY <1>3, <2>1, <3>1 DEF Bijection, Injection, Surjection, IsInjective
  <2>3. ExistsBijection(1 .. k, Shown(S, seen))
    BY <2>2 DEF ExistsBijection
  <2>4. IsFiniteSet(1 .. k) /\ Cardinality(1 .. k) = k
    BY <1>1, FS_Interval
  <2> QED
    BY <2>3, <2>4, FS_Bijection
<1>6. ASSUME NEW p \in Shown(S, seen), NEW q \in S \ Shown(S, seen) PROVE q[2] < p[2]
  <2>1. PICK i \in 1 .. k : e[i] = p
    BY <1>3
  <2>2. p \in S /\ Rank(S, p) < k
    BY <1>1, <1>2, <2>1
  <2>3. ~ Rank(S, q) < k
    <3> SUFFICES ASSUME Rank(S, q) < k PROVE FALSE
      OBVIOUS
    <3>1. Rank(S, q) + 1 \in 1 .. k
      BY <1>1, RankIsNat
    <3>2. e[Rank(S, q) + 1] \in S /\ Rank(S, e[Rank(S, q) + 1]) = Rank(S, q)
      BY <1>2, <3>1, RankIsNat
    <3>3. e[Rank(S, q) + 1] = q
      BY <3>2, RanksDiffer
    <3> QED
      BY <1>4, <3>1, <3>3
  <2>4. Rank(S, p) < Rank(S, q)
    BY <1>1, <2>2, <2>3, RankIsNat
  <2> QED
    BY <2>2, <2>4, SmallerRankIsLater
<1> QED
  BY <1>5, <1>6 DEF k

-----------------------------------------------------------------------------
(* The invariant of the list *)

RowShape == [created_by : {None}, name : Names, created : Nat, deleted : Nat,
             expires : Nat]

WalkShape == [stage : {"asked", "shown"}, user : Users, filter : Filters,
              page : Nat \ {0}, rows : SUBSET Seq(LinkIds), total : SUBSET Nat,
              seen : Seq(LinkIds), subject : SUBSET Entries]

ListType ==
  /\ links \in [LinkIds -> RowShape \cup {None}]
  /\ now \in Nat
  /\ walk = NoWalk \/ walk \in WalkShape
  /\ calm \in BOOLEAN

\* The rows of the earlier pages, and those up to the end of a page.
Earlier(w) == (w.page - 1) * Limit
UpTo(w) == IF w.page * Limit <= Cardinality(w.subject)
           THEN w.page * Limit ELSE Cardinality(w.subject)

\* The page has rows left for it.
HasRows(w) == Earlier(w) <= Cardinality(w.subject)

\* What has been shown are all earlier rows, and then those of the page.
SeenSoFar(w) ==
  /\ w.stage = "asked" => Len(w.seen) = Earlier(w)
  /\ w.stage = "shown" => Len(w.seen) = UpTo(w) /\ w.total # {}
  /\ \A i \in 1 .. Len(w.seen) : InPlace(w.subject, w.seen[i], i - 1)

\* The rows that were found follow these.
RowsFollow(w) ==
  \A r \in w.rows : /\ Len(r) = UpTo(w) - Earlier(w)
                    /\ \A i \in 1 .. Len(r) : InPlace(w.subject, r[i], Earlier(w) + i - 1)

TotalIsTrue(w) == \A n \in w.total : n = Cardinality(w.subject)

WalkIsTrue(w) == HasRows(w) /\ SeenSoFar(w) /\ RowsFollow(w) /\ TotalIsTrue(w)

\* Of a walk whose rows have not changed.
WalkIsKept ==
  walk.stage # "off" /\ calm =>
    Subject(walk) = walk.subject /\ (Distinct => WalkIsTrue(walk))

ListInv == ListType /\ WalkIsKept

LEMMA RowHas ==
  ASSUME NEW r \in RowShape
  PROVE  r.created \in Nat /\ r.deleted \in Nat /\ r.expires \in Nat
BY DEF RowShape

LEMMA WalkHas ==
  ASSUME NEW w \in WalkShape
  PROVE  /\ w.stage \in {"asked", "shown"} /\ w.user \in Users /\ w.filter \in Filters
         /\ w.page \in Nat \ {0} /\ w.rows \in SUBSET Seq(LinkIds)
         /\ w.total \in SUBSET Nat /\ w.seen \in Seq(LinkIds)
         /\ w.subject \in SUBSET Entries
BY DEF WalkShape

LEMMA SubjectIsFunctional ==
  ASSUME ListType, NEW u \in Users, NEW f \in Filters
  PROVE  LET S == {<<l, SortKey(f, l)>> : l \in Matching(u, f)}
         IN  /\ S \subseteq Entries /\ Matching(u, f) \subseteq LinkIds
             /\ Matching(u, f) = {p[1] : p \in S}
             /\ \A p, q \in S : p[1] = q[1] => p = q
<1>1. Matching(u, f) \subseteq LinkIds
  BY DEF Matching, Listed, InTrash
<1>2. ASSUME NEW l \in Matching(u, f) PROVE SortKey(f, l) \in Nat
  <2>1. l \in LinkIds /\ links[l] # None
    BY DEF Matching, Listed, InTrash, Live, Trashed, Exists
  <2>2. links[l] \in RowShape
    BY <2>1 DEF ListType
  <2> QED
    BY <2>2, RowHas DEF SortKey
<1> DEFINE S == {<<l, SortKey(f, l)>> : l \in Matching(u, f)}
<1>3. \A l \in Matching(u, f) : \E p \in S : p[1] = l
  <2> TAKE l \in Matching(u, f)
  <2>1. <<l, SortKey(f, l)>> \in S
    OBVIOUS
  <2> WITNESS <<l, SortKey(f, l)>> \in S
  <2> QED
    OBVIOUS
<1>4. \A p \in S : /\ p[1] \in Matching(u, f) /\ p[2] = SortKey(f, p[1])
                   /\ p = <<p[1], p[2]>>
  OBVIOUS
<1> HIDE DEF S
<1>5. S \subseteq Entries
  BY <1>1, <1>2, <1>4 DEF Entries
<1>6. Matching(u, f) = {p[1] : p \in S}
  BY <1>3, <1>4
<1>7. \A p, q \in S : p[1] = q[1] => p = q
  BY <1>4
<1> QED
  BY <1>1, <1>5, <1>6, <1>7 DEF S

LEMMA CalmWalkIsAList ==
  ASSUME ListType, walk \in WalkShape, Subject(walk) = walk.subject
  PROVE  LET M == Matching(walk.user, walk.filter)
         IN  /\ M \subseteq LinkIds /\ M = {p[1] : p \in walk.subject}
             /\ IsFiniteSet(walk.subject) /\ Cardinality(walk.subject) = Cardinality(M)
             /\ Cardinality(walk.subject) \in Nat
             /\ Distinct => IsList(walk.subject)
<1> DEFINE M == Matching(walk.user, walk.filter)
<1>1. /\ M \subseteq LinkIds /\ M = {p[1] : p \in walk.subject}
      /\ \A p, q \in walk.subject : p[1] = q[1] => p = q
      /\ walk.subject \subseteq Entries
  BY SubjectIsFunctional, WalkHas DEF Subject
<1>2. IsFiniteSet(walk.subject) /\ Cardinality(walk.subject) = Cardinality(M)
  BY <1>1, ListIsFinite
<1>3. Distinct => IsList(walk.subject)
  BY <1>1 DEF Distinct, IsList
<1> QED
  BY <1>1, <1>2, <1>3, FS_CardinalityType

-----------------------------------------------------------------------------
(* The steps of the table *)

LEMMA RowIsThere ==
  ASSUME ListType, NEW l \in LinkIds, Exists(l)
  PROVE  links[l] \in RowShape
BY DEF ListType, Exists

LEMMA RowWithDeleted ==
  ASSUME NEW r \in RowShape, NEW t \in Nat
  PROVE  [r EXCEPT !.deleted = t] \in RowShape
BY DEF RowShape

\* The walk stands still, and what it is about has changed or not.
LEMMA WalkStands ==
  ASSUME WalkIsKept, calm \in BOOLEAN, UNCHANGED walk, Watch
  PROVE  WalkIsKept' /\ calm' \in BOOLEAN
BY DEF WalkIsKept, Watch, Steady, Distinct

LEMMA CreateStep ==
  ASSUME ListInv, NEW u \in Users, NEW name \in Names, NEW life \in Lives,
         Create(u, name, life)
  PROVE  ListInv'
<1>1. PICK l \in LinkIds :
        links' = [links EXCEPT ![l] =
          [created_by |-> None, name |-> name, created |-> now, deleted |-> 0,
           expires |-> IF life = 0 THEN 0 ELSE now + life]]
  BY DEF Create
<1> DEFINE row == [created_by |-> None, name |-> name, created |-> now, deleted |-> 0,
                   expires |-> IF life = 0 THEN 0 ELSE now + life]
<1>2. now \in Nat /\ life \in Nat
  BY ListAssumption DEF ListInv, ListType
<1>3. row \in RowShape
  BY <1>2 DEF RowShape
<1> HIDE DEF row
<1>4. links' = [links EXCEPT ![l] = row]
  BY <1>1 DEF row
<1>5. links' \in [LinkIds -> RowShape \cup {None}]
  BY <1>3, <1>4 DEF ListInv, ListType
<1>6. UNCHANGED <<now, walk>> /\ Watch
  BY DEF Create
<1> QED
  BY <1>5, <1>6, WalkStands DEF ListInv, ListType

LEMMA DeletedStep ==
  ASSUME ListInv, NEW l \in LinkIds, Exists(l), NEW t \in Nat,
         links' = [links EXCEPT ![l].deleted = t],
         UNCHANGED <<now, walk>>, Watch
  PROVE  ListInv'
<1>1. links' = [links EXCEPT ![l] = [links[l] EXCEPT !.deleted = t]]
  OBVIOUS
<1>2. [links[l] EXCEPT !.deleted = t] \in RowShape
  BY RowIsThere, RowWithDeleted DEF ListInv
<1>3. links' \in [LinkIds -> RowShape \cup {None}]
  BY <1>1, <1>2 DEF ListInv, ListType
<1> QED
  BY <1>3, WalkStands DEF ListInv, ListType

LEMMA TrashStep ==
  ASSUME ListInv, NEW u \in Users, NEW l \in LinkIds, Trash(u, l)
  PROVE  ListInv'
<1>1. now \in Nat
  BY DEF ListInv, ListType
<1> QED
  BY <1>1, DeletedStep DEF Trash, Live

LEMMA RestoreStep ==
  ASSUME ListInv, NEW u \in Users, NEW l \in LinkIds, Restore(u, l)
  PROVE  ListInv'
<1>1. 0 \in Nat
  OBVIOUS
<1> QED
  BY <1>1, DeletedStep DEF Restore

LEMMA PurgeStep ==
  ASSUME ListInv, NEW u \in Users, NEW l \in LinkIds, Purge(u, l)
  PROVE  ListInv'
<1>1. links' \in [LinkIds -> RowShape \cup {None}]
  BY DEF ListInv, ListType, Purge
<1> QED
  BY <1>1, WalkStands DEF ListInv, ListType, Purge

LEMMA SelectStep ==
  ASSUME ListInv, SelectGarbage
  PROVE  ListInv'
BY WalkStands DEF ListInv, ListType, SelectGarbage

LEMMA DeleteStep ==
  ASSUME ListInv, DeleteSelected
  PROVE  ListInv'
<1>1. links' \in [LinkIds -> RowShape \cup {None}]
  <2>1. PICK gone \in SUBSET cleanup.rows :
          links' = [l \in LinkIds |-> IF l \in gone THEN None ELSE links[l]]
    BY DEF DeleteSelected
  <2> QED
    BY <2>1 DEF ListInv, ListType
<1> QED
  BY <1>1, WalkStands DEF ListInv, ListType, DeleteSelected

LEMMA TickStep ==
  ASSUME ListInv, Tick
  PROVE  ListInv'
<1>1. now' \in Nat
  BY DEF ListInv, ListType, Tick
<1> QED
  BY <1>1, WalkStands DEF ListInv, ListType, Tick

-----------------------------------------------------------------------------
(* The steps of a walk *)

LEMMA OpenStep ==
  ASSUME ListInv, NEW u \in Users, NEW f \in Filters, Open(u, f)
  PROVE  ListInv'
<1> DEFINE S == {<<l, SortKey(f, l)>> : l \in Matching(u, f)}
<1>1. walk' = [stage |-> "asked", user |-> u, filter |-> f, page |-> 1,
               rows |-> {}, total |-> {}, seen |-> <<>>, subject |-> S]
  BY DEF Open
<1>2. UNCHANGED <<links, now>> /\ calm' = TRUE
  BY DEF Open
<1>3. S \in SUBSET Entries /\ IsFiniteSet(S) /\ Cardinality(S) \in Nat
  <2>1. /\ S \subseteq Entries /\ Matching(u, f) \subseteq LinkIds
        /\ Matching(u, f) = {p[1] : p \in S}
        /\ \A p, q \in S : p[1] = q[1] => p = q
    BY SubjectIsFunctional DEF ListInv
  <2> HIDE DEF S
  <2> QED
    BY <2>1, ListIsFinite, FS_CardinalityType
<1>4. Subject(walk)' = S
  BY <1>1, <1>2 DEF Subject, SortKey, Matching, Listed, InTrash, Live, Trashed, Exists,
                    InScope, Found, HasStatus
<1> HIDE DEF S
<1>5. walk' \in WalkShape
  <2>1. <<>> \in Seq(LinkIds) /\ {} \in SUBSET Seq(LinkIds) /\ {} \in SUBSET Nat /\ 1 \in Nat \ {0}
    OBVIOUS
  <2> QED
    BY <1>1, <1>3, <2>1 DEF WalkShape
<1>6. WalkIsTrue(walk')
  <2>1. /\ walk'.stage = "asked" /\ walk'.page = 1 /\ walk'.rows = {} /\ walk'.total = {}
        /\ walk'.seen = <<>> /\ walk'.subject = S
    BY <1>1
  <2>2. Earlier(walk') = 0
    BY <2>1, ListAssumption DEF Earlier
  <2> QED
    BY <1>3, <2>1, <2>2 DEF WalkIsTrue, HasRows, SeenSoFar, RowsFollow, TotalIsTrue
<1> QED
  BY <1>1, <1>2, <1>4, <1>5, <1>6 DEF ListInv, ListType, WalkIsKept

\* A walk that goes on is about what it was about.
LEMMA CalmBefore ==
  ASSUME ListInv, walk \in WalkShape, walk'.stage # "off", Watch, calm',
         walk'.subject = walk.subject
  PROVE  /\ calm /\ Subject(walk) = walk.subject /\ Subject(walk)' = walk'.subject
         /\ Distinct' <=> Distinct
         /\ Distinct => WalkIsTrue(walk)
<1>1. calm /\ Subject(walk)' = walk'.subject
  BY DEF Watch, Steady, ListInv, ListType
<1>2. walk.stage # "off"
  BY WalkHas
<1> QED
  BY <1>1, <1>2 DEF ListInv, WalkIsKept, Distinct

\* A step of the walk that keeps what it has to keep.
LEMMA WalkGoesOn ==
  ASSUME ListInv, walk \in WalkShape, UNCHANGED <<links, now>>, Watch,
         walk' \in WalkShape, walk'.subject = walk.subject,
         Subject(walk) = walk.subject /\ Distinct /\ WalkIsTrue(walk) => WalkIsTrue(walk')
  PROVE  ListInv'
<1>1. walk'.stage # "off"
  BY WalkHas
<1>2. calm' \in BOOLEAN
  BY DEF Watch, ListInv, ListType
<1>3. WalkIsKept'
  BY <1>1, CalmBefore DEF WalkIsKept
<1> QED
  BY <1>2, <1>3 DEF ListInv, ListType

LEMMA AskedIsWalk ==
  ASSUME ListType, walk.stage # "off"
  PROVE  walk \in WalkShape
BY DEF ListType, NoWalk

\* The rows of a page, of an order of all.
LEMMA PageOfMeans ==
  ASSUME NEW s \in Seq(LinkIds), NEW page \in Nat \ {0}, (page - 1) * Limit <= Len(s)
  PROVE  LET k == (page - 1) * Limit
             e == IF page * Limit <= Len(s) THEN page * Limit ELSE Len(s)
         IN  /\ PageOf(s, page) \in Seq(LinkIds) /\ Len(PageOf(s, page)) = e - k
             /\ \A i \in 1 .. (e - k) : k + i \in 1 .. Len(s) /\ PageOf(s, page)[i] = s[k + i]
<1> DEFINE k == (page - 1) * Limit
           e == IF page * Limit <= Len(s) THEN page * Limit ELSE Len(s)
<1>1. k \in Nat /\ page * Limit = k + Limit /\ Limit \in Nat
  BY PagesFollow, ListAssumption
<1>2. e \in Nat /\ k <= e /\ e <= Len(s)
  BY <1>1
<1>3. PageOf(s, page) = SubSeq(s, k + 1, e)
  <2>1. page * Limit \in Int /\ Len(s) \in Int
    BY <1>1
  <2>2. Min({page * Limit, Len(s)}) = e
    BY <2>1, MinOfTwo
  <2> QED
    BY <2>2, Zenon DEF PageOf
<1> HIDE DEF k, e
<1>4. /\ SubSeq(s, k + 1, e) \in Seq(LinkIds) /\ Len(SubSeq(s, k + 1, e)) = e - k
      /\ \A i \in 1 .. (e - k) : SubSeq(s, k + 1, e)[i] = s[k + i]
  BY <1>1, <1>2
<1>5. \A i \in 1 .. (e - k) : k + i \in 1 .. Len(s)
  BY <1>1, <1>2
<1> QED
  BY <1>3, <1>4, <1>5 DEF k, e

\* What the database orders by, each row stands where its rank says.
LEMMA RowsInOrder ==
  ASSUME ListType, walk \in WalkShape, Subject(walk) = walk.subject, Distinct,
         NEW s \in Orders(walk.user, walk.filter)
  PROVE  /\ s \in Seq(LinkIds) /\ Len(s) = Cardinality(walk.subject)
         /\ \A i \in 1 .. Len(s) : InPlace(walk.subject, s[i], i - 1)
<1> DEFINE M == Matching(walk.user, walk.filter)
           S == walk.subject
<1>1. /\ M \subseteq LinkIds /\ M = {p[1] : p \in S} /\ IsList(S)
  BY CalmWalkIsAList
<1>2. /\ s \in SetToSeqs(M)
      /\ \A i, j \in DOMAIN s : i < j =>
           SortKey(walk.filter, s[i]) >= SortKey(walk.filter, s[j])
  BY DEF Orders
<1>3. \A p \in S : p[2] = SortKey(walk.filter, p[1])
  BY DEF Subject
<1>4. \A i, j \in DOMAIN s : i < j =>
        \A p, q \in S : p[1] = s[i] /\ q[1] = s[j] => p[2] >= q[2]
  BY <1>2, <1>3
<1> HIDE DEF M, S
<1>5. /\ s \in Seq(LinkIds) /\ Len(s) = Cardinality(S)
      /\ \A i \in 1 .. Len(s) : InPlace(S, s[i], i - 1)
  BY <1>1, <1>2, <1>4, OrderedByRank
<1> QED
  BY <1>5 DEF S

LEMMA PageIsSequence ==
  ASSUME NEW M \in SUBSET LinkIds, NEW s \in SetToSeqs(M), NEW page \in Nat \ {0}
  PROVE  PageOf(s, page) \in Seq(LinkIds)
<1>1. Cardinality(M) \in Nat
  BY LinkIdsFinite, FS_Subset, FS_CardinalityType
<1>2. s \in [1 .. Cardinality(M) -> LinkIds]
  BY DEF SetToSeqs
<1>3. s \in Seq(LinkIds) /\ Len(s) = Cardinality(M)
  BY <1>1, <1>2
<1> DEFINE k == (page - 1) * Limit
           e == IF page * Limit <= Len(s) THEN page * Limit ELSE Len(s)
<1>4. k \in Nat /\ page * Limit \in Nat
  BY ListAssumption
<1>5. PageOf(s, page) = SubSeq(s, k + 1, e) /\ e \in Nat /\ e <= Len(s)
  <2>1. page * Limit \in Int /\ Len(s) \in Int /\ e \in Nat /\ e <= Len(s)
    BY <1>3, <1>4
  <2>2. Min({page * Limit, Len(s)}) = e
    BY <2>1, MinOfTwo
  <2>3. PageOf(s, page) = SubSeq(s, k + 1, e)
    BY <2>2, Zenon DEF PageOf
  <2> QED
    BY <2>1, <2>3
<1> HIDE DEF k, e
<1> QED
  BY <1>3, <1>4, <1>5

LEMMA FindRowsStep ==
  ASSUME ListInv, FindRows
  PROVE  ListInv'
<1>1. walk \in WalkShape /\ walk.stage = "asked"
  BY AskedIsWalk DEF FindRows, ListInv
<1>2. PICK s \in Orders(walk.user, walk.filter) :
        walk' = [walk EXCEPT !.rows = {PageOf(s, walk.page)}]
  BY DEF FindRows
<1> DEFINE r == PageOf(s, walk.page)
<1>3. r \in Seq(LinkIds)
  <2>1. Matching(walk.user, walk.filter) \subseteq LinkIds
    BY DEF Matching, Listed, InTrash
  <2> QED
    BY <1>1, <2>1, PageIsSequence, WalkHas DEF Orders
<1> HIDE DEF r
<1>4. walk' = [walk EXCEPT !.rows = {r}]
  BY <1>2 DEF r
<1>5. /\ walk' \in WalkShape /\ walk'.subject = walk.subject /\ walk'.stage = walk.stage
      /\ walk'.rows = {r} /\ walk'.page = walk.page /\ walk'.seen = walk.seen
      /\ walk'.total = walk.total
  BY <1>1, <1>3, <1>4 DEF WalkShape
<1>6. ASSUME Subject(walk) = walk.subject, Distinct, WalkIsTrue(walk)
      PROVE  WalkIsTrue(walk')
  <2>1. /\ s \in Seq(LinkIds) /\ Len(s) = Cardinality(walk.subject)
        /\ \A i \in 1 .. Len(s) : InPlace(walk.subject, s[i], i - 1)
    BY <1>1, <1>6, RowsInOrder DEF ListInv
  <2>2. walk.page \in Nat \ {0} /\ (walk.page - 1) * Limit <= Len(s)
    BY <1>1, <1>6, <2>1, WalkHas DEF WalkIsTrue, HasRows, Earlier
  <2> DEFINE k == (walk.page - 1) * Limit
             e == IF walk.page * Limit <= Len(s) THEN walk.page * Limit ELSE Len(s)
  <2>3. /\ Len(r) = e - k
        /\ \A i \in 1 .. (e - k) : k + i \in 1 .. Len(s) /\ r[i] = s[k + i]
    BY <2>1, <2>2, PageOfMeans DEF r
  <2>4. k = Earlier(walk') /\ e = UpTo(walk')
    BY <1>5, <2>1 DEF Earlier, UpTo
  <2> HIDE DEF k, e
  <2>5. k \in Nat /\ e \in Nat
    BY <2>1, <2>2, ListAssumption DEF k, e
  <2>6. Len(r) = UpTo(walk') - Earlier(walk')
    BY <2>3, <2>4
  <2>7. ASSUME NEW i \in 1 .. Len(r) PROVE InPlace(walk'.subject, r[i], Earlier(walk') + i - 1)
    <3>1. k + i \in 1 .. Len(s) /\ r[i] = s[k + i]
      BY <2>3
    <3>2. PICK j \in 1 .. Len(s) : j = k + i
      BY <3>1
    <3>3. InPlace(walk.subject, s[j], j - 1)
      BY <2>1
    <3>4. j - 1 = k + i - 1
      BY <2>5, <3>2
    <3>5. InPlace(walk.subject, r[i], k + i - 1)
      BY <3>1, <3>2, <3>3, <3>4, Zenon
    <3> QED
      BY <1>5, <2>4, <3>5, Zenon
  <2>8. RowsFollow(walk')
    BY <1>5, <2>6, <2>7 DEF RowsFollow
  <2> QED
    BY <1>5, <1>6, <2>8 DEF WalkIsTrue, HasRows, SeenSoFar, TotalIsTrue, Earlier, UpTo
<1>7. UNCHANGED <<links, now>> /\ Watch
  BY DEF FindRows
<1> QED
  BY <1>1, <1>5, <1>6, <1>7, WalkGoesOn

LEMMA CountRowsStep ==
  ASSUME ListInv, CountRows
  PROVE  ListInv'
<1> DEFINE n == Cardinality(Matching(walk.user, walk.filter))
<1>1. walk \in WalkShape /\ walk.stage = "asked"
  BY AskedIsWalk DEF CountRows, ListInv
<1>2. n \in Nat
  <2>1. Matching(walk.user, walk.filter) \subseteq LinkIds
    BY DEF Matching, Listed, InTrash
  <2> QED
    BY <2>1, LinkIdsFinite, FS_Subset, FS_CardinalityType
<1>3. walk' = [walk EXCEPT !.total = {n}]
  BY DEF CountRows
<1>4. Subject(walk) = walk.subject => n = Cardinality(walk.subject)
  BY <1>1, CalmWalkIsAList DEF ListInv
<1> HIDE DEF n
<1>5. /\ walk' \in WalkShape /\ walk'.subject = walk.subject /\ walk'.stage = walk.stage
      /\ walk'.rows = walk.rows /\ walk'.page = walk.page /\ walk'.seen = walk.seen
      /\ walk'.total = {n}
  BY <1>1, <1>2, <1>3 DEF WalkShape
<1>6. ASSUME Subject(walk) = walk.subject, Distinct, WalkIsTrue(walk)
      PROVE  WalkIsTrue(walk')
  BY <1>4, <1>5, <1>6
     DEF WalkIsTrue, HasRows, SeenSoFar, RowsFollow, TotalIsTrue, Earlier, UpTo
<1>7. UNCHANGED <<links, now>> /\ Watch
  BY DEF CountRows
<1> QED
  BY <1>1, <1>5, <1>6, <1>7, WalkGoesOn

LEMMA AppendedAre ==
  ASSUME NEW s \in Seq(LinkIds), NEW t \in Seq(LinkIds)
  PROVE  /\ s \o t \in Seq(LinkIds) /\ Len(s \o t) = Len(s) + Len(t)
         /\ \A i \in 1 .. Len(s) : (s \o t)[i] = s[i]
         /\ \A i \in 1 .. Len(t) : (s \o t)[Len(s) + i] = t[i]
OBVIOUS

\* The rows of a page are put behind those of the earlier ones.
LEMMA RowsAreAppended ==
  ASSUME NEW S, NEW seen \in Seq(LinkIds), NEW r \in Seq(LinkIds),
         \A i \in 1 .. Len(seen) : InPlace(S, seen[i], i - 1),
         \A i \in 1 .. Len(r) : InPlace(S, r[i], Len(seen) + i - 1)
  PROVE  \A i \in 1 .. Len(seen \o r) : InPlace(S, (seen \o r)[i], i - 1)
<1> DEFINE k == Len(seen)
           e == Len(seen \o r)
<1>1. k \in Nat /\ Len(r) \in Nat /\ e = k + Len(r)
  BY AppendedAre
<1> SUFFICES ASSUME NEW i \in 1 .. e PROVE InPlace(S, (seen \o r)[i], i - 1)
  OBVIOUS
<1>2. CASE i <= k
  <2>1. i \in 1 .. Len(seen)
    BY <1>1, <1>2
  <2>2. (seen \o r)[i] = seen[i]
    BY <2>1, AppendedAre
  <2> QED
    BY <2>1, <2>2
<1>3. CASE ~ i <= k
  <2>1. PICK j \in 1 .. Len(r) : i = k + j
    <3>1. i - k \in 1 .. Len(r) /\ i = k + (i - k)
      BY <1>1, <1>3
    <3> QED
      BY <3>1
  <2>2. (seen \o r)[i] = r[j]
    BY <2>1, AppendedAre
  <2>3. InPlace(S, r[j], k + j - 1)
    OBVIOUS
  <2> QED
    BY <2>1, <2>2, <2>3
<1> QED
  BY <1>1, <1>2, <1>3

LEMMA ShowStep ==
  ASSUME ListInv, Show
  PROVE  ListInv'
<1> DEFINE r == CHOOSE s \in walk.rows : TRUE
<1>1. walk \in WalkShape /\ walk.stage = "asked" /\ walk.total # {}
  BY AskedIsWalk DEF Show, ListInv
<1>2. r \in walk.rows
  BY DEF Show
<1>3. walk' = [walk EXCEPT !.stage = "shown", !.seen = walk.seen \o r]
  BY DEF Show
<1> HIDE DEF r
<1>4. r \in Seq(LinkIds) /\ walk.seen \in Seq(LinkIds) /\ walk.seen \o r \in Seq(LinkIds)
  <2>1. r \in Seq(LinkIds) /\ walk.seen \in Seq(LinkIds)
    BY <1>1, <1>2, WalkHas
  <2> QED
    BY <2>1
<1>5. /\ walk' \in WalkShape /\ walk'.subject = walk.subject /\ walk'.stage = "shown"
      /\ walk'.rows = walk.rows /\ walk'.page = walk.page /\ walk'.seen = walk.seen \o r
      /\ walk'.total = walk.total
  BY <1>1, <1>3, <1>4 DEF WalkShape
<1>6. ASSUME Subject(walk) = walk.subject, Distinct, WalkIsTrue(walk)
      PROVE  WalkIsTrue(walk')
  <2> DEFINE k == Earlier(walk)
             e == UpTo(walk)
  <2>1. Cardinality(walk.subject) \in Nat
    BY <1>1, <1>6, CalmWalkIsAList DEF ListInv
  <2>2. k \in Nat /\ e \in Nat /\ k <= e
    <3>1. walk.page \in Nat \ {0} /\ k <= Cardinality(walk.subject)
      BY <1>1, <1>6, WalkHas DEF WalkIsTrue, HasRows
    <3>2. k \in Nat /\ walk.page * Limit = k + Limit /\ Limit \in Nat
      BY <3>1, PagesFollow, ListAssumption DEF Earlier
    <3> QED
      BY <2>1, <3>1, <3>2 DEF UpTo
  <2>3. /\ Len(walk.seen) = k /\ Len(r) = e - k
        /\ \A i \in 1 .. Len(walk.seen) : InPlace(walk.subject, walk.seen[i], i - 1)
        /\ \A i \in 1 .. Len(r) : InPlace(walk.subject, r[i], k + i - 1)
    BY <1>1, <1>2, <1>6 DEF WalkIsTrue, SeenSoFar, RowsFollow
  <2> HIDE DEF k, e
  <2>4. /\ Len(walk'.seen) = e
        /\ \A i \in 1 .. e : InPlace(walk.subject, walk'.seen[i], i - 1)
    <3>1. Len(walk.seen \o r) = Len(walk.seen) + Len(r)
      BY <1>4, AppendedAre
    <3>2. Len(walk.seen \o r) = e
      BY <2>2, <2>3, <3>1
    <3>3. \A i \in 1 .. Len(walk.seen \o r) :
            InPlace(walk.subject, (walk.seen \o r)[i], i - 1)
      BY <1>4, <2>3, RowsAreAppended
    <3> QED
      BY <1>5, <3>2, <3>3
  <2>5. e = UpTo(walk')
    BY <1>5 DEF e, UpTo
  <2>6. SeenSoFar(walk')
    BY <1>1, <1>5, <2>4, <2>5 DEF SeenSoFar
  <2> QED
    BY <1>5, <1>6, <2>6 DEF WalkIsTrue, HasRows, RowsFollow, TotalIsTrue, Earlier, UpTo
<1>7. UNCHANGED <<links, now>> /\ Watch
  BY DEF Show
<1> QED
  BY <1>1, <1>5, <1>6, <1>7, WalkGoesOn

LEMMA NextPageStep ==
  ASSUME ListInv, NextPage
  PROVE  ListInv'
<1>1. walk \in WalkShape /\ walk.stage = "shown"
  BY AskedIsWalk DEF NextPage, ListInv
<1>2. walk' = [walk EXCEPT !.stage = "asked", !.page = walk.page + 1, !.rows = {}, !.total = {}]
  BY DEF NextPage
<1>3. walk.page \in Nat \ {0} /\ walk.page + 1 \in Nat \ {0}
  BY <1>1, WalkHas
<1>4. {} \in SUBSET Seq(LinkIds) /\ {} \in SUBSET Nat
  OBVIOUS
<1>5. /\ walk' \in WalkShape /\ walk'.subject = walk.subject /\ walk'.stage = "asked"
      /\ walk'.rows = {} /\ walk'.page = walk.page + 1 /\ walk'.seen = walk.seen
      /\ walk'.total = {}
  BY <1>1, <1>2, <1>3, <1>4 DEF WalkShape
<1>6. ASSUME Subject(walk) = walk.subject, Distinct, WalkIsTrue(walk)
      PROVE  WalkIsTrue(walk')
  <2>1. Cardinality(walk.subject) \in Nat
    BY <1>1, <1>6, CalmWalkIsAList DEF ListInv
  <2>2. ShownTotal = Cardinality(walk.subject)
    BY <1>1, <1>6 DEF WalkIsTrue, SeenSoFar, TotalIsTrue, ShownTotal
  <2>3. walk.page * Limit < Cardinality(walk.subject)
    BY <1>3, <2>1, <2>2, HasNextMeans DEF NextPage
  <2>4. Earlier(walk') = walk.page * Limit /\ walk.page * Limit \in Nat
    BY <1>3, <1>5, ListAssumption DEF Earlier
  <2>5. HasRows(walk')
    BY <1>5, <2>1, <2>3, <2>4 DEF HasRows
  <2>6. UpTo(walk) = walk.page * Limit
    BY <2>1, <2>3, <2>4 DEF UpTo
  <2>7. SeenSoFar(walk')
    BY <1>1, <1>5, <1>6, <2>4, <2>6 DEF WalkIsTrue, SeenSoFar
  <2> QED
    BY <1>5, <2>5, <2>7 DEF WalkIsTrue, RowsFollow, TotalIsTrue
<1>7. UNCHANGED <<links, now>> /\ Watch
  BY DEF NextPage
<1> QED
  BY <1>1, <1>5, <1>6, <1>7, WalkGoesOn

-----------------------------------------------------------------------------
(* What follows of the list *)

LEMMA ListInit == Init => ListInv
<1> SUFFICES ASSUME Init PROVE ListInv
  OBVIOUS
<1>1. walk.stage = "off" /\ walk = NoWalk
  BY DEF Init, NoWalk
<1>2. ListType
  BY <1>1 DEF Init, ListType
<1> QED
  BY <1>1, <1>2 DEF ListInv, WalkIsKept

LEMMA ListStep == ListInv /\ Next => ListInv'
BY CreateStep, TrashStep, RestoreStep, PurgeStep, SelectStep, DeleteStep, TickStep, OpenStep,
   FindRowsStep, CountRowsStep, ShowStep, NextPageStep DEF Next

LEMMA ListStays ==
  ASSUME ListInv, UNCHANGED vars
  PROVE  ListInv'
BY DEF vars, ListInv, ListType, WalkIsKept, Distinct, Subject, SortKey, Matching, Listed,
       InTrash, Live, Trashed, Exists, InScope, Found, HasStatus

LEMMA WalkIsShown == ListInv => WalkShowsAll
<1> SUFFICES ASSUME ListInv, walk.stage = "shown", calm, Distinct
             PROVE  LET shown == Shown(walk.subject, walk.seen)
                    IN  /\ Len(walk.seen) = Min({walk.page * Limit, Cardinality(walk.subject)})
                        /\ Cardinality(shown) = Len(walk.seen)
                        /\ \A p \in shown, q \in walk.subject \ shown : q[2] < p[2]
                        /\ HasNext(ShownTotal, walk.page) <=> walk.subject # shown
  BY DEF WalkShowsAll, Shown
<1> DEFINE S == walk.subject
           n == Cardinality(S)
           shown == Shown(S, walk.seen)
<1>1. walk \in WalkShape /\ Subject(walk) = S /\ WalkIsTrue(walk)
  BY AskedIsWalk DEF ListInv, WalkIsKept
<1>2. IsFiniteSet(S) /\ IsList(S) /\ n \in Nat
  BY <1>1, CalmWalkIsAList DEF ListInv
<1>3. /\ walk.seen \in Seq(LinkIds) /\ Len(walk.seen) = UpTo(walk)
      /\ \A i \in 1 .. Len(walk.seen) : InPlace(S, walk.seen[i], i - 1)
  BY <1>1, WalkHas DEF WalkIsTrue, SeenSoFar
<1>4. walk.page \in Nat /\ walk.page * Limit \in Nat
  <2>1. walk.page \in Nat
    BY <1>1, WalkHas
  <2> QED
    BY <2>1, ListAssumption
<1>5. Len(walk.seen) = Min({walk.page * Limit, n})
  BY <1>2, <1>3, <1>4, MinOfTwo DEF UpTo
<1>6. /\ Cardinality(shown) = Len(walk.seen)
      /\ \A p \in shown, q \in S \ shown : q[2] < p[2]
  BY <1>2, <1>3, ShownAreFirst
<1>7. ShownTotal = n
  BY <1>1 DEF WalkIsTrue, SeenSoFar, TotalIsTrue, ShownTotal
<1>8. HasNext(n, walk.page) <=> walk.page * Limit < n
  BY <1>2, <1>4, HasNextMeans
<1>9. S # shown <=> walk.page * Limit < n
  <2>1. shown \in SUBSET S
    BY DEF Shown
  <2>2. Cardinality(shown) = n <=> S = shown
    BY <1>2, <2>1, FS_Subset
  <2>3. Cardinality(shown) = IF walk.page * Limit <= n THEN walk.page * Limit ELSE n
    BY <1>3, <1>6 DEF UpTo
  <2>4. CASE walk.page * Limit < n
    BY <1>2, <1>4, <2>2, <2>3, <2>4
  <2>5. CASE ~ walk.page * Limit < n
    BY <1>2, <1>4, <2>2, <2>3, <2>5
  <2> QED
    BY <2>4, <2>5
<1> HIDE DEF S, n, shown
<1>10. HasNext(ShownTotal, walk.page) <=> S # shown
  BY <1>7, <1>8, <1>9
<1> QED
  BY <1>5, <1>6, <1>10 DEF S, n, shown

\* An administrator's lists are not restricted.
LEMMA AdminSees ==
  ASSUME NEW u \in Admins, NEW status
  PROVE  /\ Listed(u, WithStatus(status)) = {l \in LinkIds : Live(l) /\ HasStatus(status, l)}
         /\ Listed(u, All("list")) = {l \in LinkIds : Live(l)}
<1>1. /\ WithStatus(status).name = None /\ WithStatus(status).status = status
      /\ WithStatus(status).from = 0 /\ WithStatus(status).to = 0
  BY DEF WithStatus, All
<1>2. /\ All("list").name = None /\ All("list").status = "all"
      /\ All("list").from = 0 /\ All("list").to = 0
  BY DEF All
<1>3. \A l \in LinkIds : InScope(u, l)
  BY DEF InScope
<1>4. \A l \in LinkIds : HasStatus("all", l)
  BY DEF HasStatus
<1>5. Listed(u, WithStatus(status)) = {l \in LinkIds : Live(l) /\ HasStatus(status, l)}
  BY <1>1, <1>3 DEF Listed, Found
<1>6. Listed(u, All("list")) = {l \in LinkIds : Live(l)}
  BY <1>2, <1>3, <1>4 DEF Listed, Found
<1> QED
  BY <1>5, <1>6

LEMMA StatsAreOfTheLists == StatsMatchLists
<1> DEFINE counted == {l \in LinkIds : Live(l)}
           active == {l \in counted : links[l].expires = 0 \/ links[l].expires > now}
           expired == {l \in counted : links[l].expires # 0 /\ links[l].expires <= now}
<1> SUFFICES ASSUME NEW u \in Admins
             PROVE  /\ Stats.total = Cardinality(Listed(u, All("list")))
                    /\ Stats.active = Cardinality(Listed(u, WithStatus("active")))
                    /\ Stats.expired = Cardinality(Listed(u, WithStatus("expired")))
  BY DEF StatsMatchLists
<1>1. /\ Stats.total = Cardinality(counted) /\ Stats.active = Cardinality(active)
      /\ Stats.expired = Cardinality(expired)
  BY DEF Stats
<1>2. /\ Listed(u, All("list")) = counted
      /\ Listed(u, WithStatus("active")) = {l \in LinkIds : Live(l) /\ HasStatus("active", l)}
      /\ Listed(u, WithStatus("expired")) = {l \in LinkIds : Live(l) /\ HasStatus("expired", l)}
  BY AdminSees
<1>3. active = {l \in LinkIds : Live(l) /\ HasStatus("active", l)}
  BY DEF HasStatus
<1>4. expired = {l \in LinkIds : Live(l) /\ HasStatus("expired", l)}
  BY DEF HasStatus
<1> HIDE DEF counted, active, expired
<1> QED
  BY <1>1, <1>2, <1>3, <1>4

LEMMA ExpiredIsEverywhere == ListInv => ExpiredEverywhere
<1> SUFFICES ASSUME ListInv, NEW u \in Admins, NEW l \in LinkIds, Live(l)
             PROVE  LET found == l \in Listed(u, WithStatus("expired"))
                    IN  /\ found <=> l \notin Listed(u, WithStatus("active"))
                        /\ IsExpired(l) => found /\ l \in Garbage
                        /\ found /\ ~ IsExpired(l) => links[l].expires = now
  BY DEF ExpiredEverywhere
<1>1. links[l].expires \in Nat /\ now \in Nat
  BY RowIsThere, RowHas DEF ListInv, ListType, Live
<1>2. /\ l \in Listed(u, WithStatus("expired")) <=> HasStatus("expired", l)
      /\ l \in Listed(u, WithStatus("active")) <=> HasStatus("active", l)
  BY AdminSees
<1>3. /\ HasStatus("expired", l) <=> ~ HasStatus("active", l)
      /\ IsExpired(l) => HasStatus("expired", l)
      /\ HasStatus("expired", l) /\ ~ IsExpired(l) => links[l].expires = now
  BY <1>1 DEF HasStatus, IsExpired
<1>4. IsExpired(l) => l \in Garbage
  BY DEF Garbage, Live
<1> QED
  BY <1>2, <1>3, <1>4

-----------------------------------------------------------------------------
(* What a run of cleanup has selected *)

\* A row that was in the trash before `at` was there long enough then.
OldEnough(r, moment, at) ==
  r # None /\ r.deleted # 0 /\ ~ (r.expires # 0 /\ r.expires < moment) /\ r.deleted < at
    => r.deleted < at - RetentionDays * Day

SelectedAreOld == \A l \in cleanup.rows : OldEnough(links[l], now, cleanup.at)

SelectedInv ==
  /\ cleanup.rows \subseteq LinkIds /\ cleanup.at \in Nat /\ cleanup.at <= now
  /\ SelectedAreOld

LEMMA SelectedStands ==
  ASSUME ListInv, SelectedInv, UNCHANGED <<cleanup, now>>,
         \A l \in LinkIds : links'[l] = links[l] \/ OldEnough(links'[l], now, cleanup.at)
  PROVE  SelectedInv'
BY DEF SelectedInv, SelectedAreOld

\* A row that is not in the trash, or not since the select.
LEMMA RowIsChanged ==
  ASSUME ListInv, SelectedInv, UNCHANGED <<cleanup, now>>, NEW l \in LinkIds, NEW r,
         links' = [links EXCEPT ![l] = r],
         r = None \/ r.deleted = 0 \/ r.deleted = now
  PROVE  SelectedInv'
<1>1. \A m \in LinkIds : m # l => links'[m] = links[m]
  OBVIOUS
<1>2. links'[l] = r
  BY DEF ListInv, ListType
<1>3. now \in Nat /\ cleanup.at \in Nat /\ cleanup.at <= now
  BY DEF ListInv, ListType, SelectedInv
<1>4. OldEnough(r, now, cleanup.at)
  BY <1>3 DEF OldEnough
<1> QED
  BY <1>1, <1>2, <1>4, SelectedStands

LEMMA SelectedKept ==
  ASSUME ListInv, SelectedInv, Next
  PROVE  SelectedInv'
<1>1. ASSUME NEW u \in Users, NEW name \in Names, NEW life \in Lives, Create(u, name, life)
      PROVE  SelectedInv'
  <2>1. PICK l \in LinkIds :
          links' = [links EXCEPT ![l] =
            [created_by |-> None, name |-> name, created |-> now, deleted |-> 0,
             expires |-> IF life = 0 THEN 0 ELSE now + life]]
    BY <1>1 DEF Create
  <2> DEFINE row == [created_by |-> None, name |-> name, created |-> now, deleted |-> 0,
                     expires |-> IF life = 0 THEN 0 ELSE now + life]
  <2>2. row.deleted = 0
    OBVIOUS
  <2> HIDE DEF row
  <2>3. links' = [links EXCEPT ![l] = row] /\ UNCHANGED <<cleanup, now>>
    BY <1>1, <2>1 DEF row, Create
  <2> QED
    BY <2>2, <2>3, RowIsChanged
<1>2. ASSUME NEW u \in Users, NEW l \in LinkIds, Trash(u, l) \/ Restore(u, l) \/ Purge(u, l)
      PROVE  SelectedInv'
  <2>1. CASE Purge(u, l)
    BY <2>1, RowIsChanged DEF Purge
  <2>2. ASSUME NEW t, t = 0 \/ t = now, Exists(l),
               links' = [links EXCEPT ![l].deleted = t], UNCHANGED <<cleanup, now>>
        PROVE  SelectedInv'
    <3> DEFINE row == [links[l] EXCEPT !.deleted = t]
    <3>1. links' = [links EXCEPT ![l] = row]
      BY <2>2
    <3>2. row.deleted = t
      BY <2>2, RowIsThere DEF ListInv, RowShape
    <3> HIDE DEF row
    <3> QED
      BY <2>2, <3>1, <3>2, RowIsChanged
  <2>3. CASE Trash(u, l)
    BY <2>2, <2>3 DEF Trash, Live
  <2>4. CASE Restore(u, l)
    BY <2>2, <2>4 DEF Restore
  <2> QED
    BY <1>2, <2>1, <2>3, <2>4
<1>3. CASE SelectGarbage
  <2>1. /\ cleanup' = [rows |-> Garbage, at |-> now] /\ UNCHANGED <<links, now>>
        /\ now \in Nat
    BY <1>3 DEF SelectGarbage, ListInv, ListType
  <2>2. cleanup'.rows = Garbage /\ cleanup'.at = now
    BY <2>1
  <2>3. \A l \in Garbage : OldEnough(links[l], now, now)
    BY DEF Garbage, OldEnough, Trashed, Exists, IsExpired
  <2>4. Garbage \subseteq LinkIds
    BY DEF Garbage
  <2> HIDE DEF Garbage
  <2> QED
    BY <2>1, <2>2, <2>3, <2>4 DEF SelectedInv, SelectedAreOld
<1>4. CASE DeleteSelected
  <2>1. cleanup'.rows = {} /\ cleanup'.at = 0 /\ now' = now /\ now \in Nat
    BY <1>4 DEF DeleteSelected, NoCleanup, ListInv, ListType
  <2> QED
    BY <2>1 DEF SelectedInv, SelectedAreOld
<1>5. CASE Tick
  <2>1. now' = now + 1 /\ now \in Nat /\ UNCHANGED <<links, cleanup>>
    BY <1>5 DEF Tick, ListInv, ListType
  <2>2. cleanup.at \in Nat /\ cleanup.at <= now /\ cleanup.rows \subseteq LinkIds
    BY DEF SelectedInv
  <2>3. ASSUME NEW l \in cleanup.rows PROVE OldEnough(links[l], now + 1, cleanup.at)
    <3>1. OldEnough(links[l], now, cleanup.at)
      BY DEF SelectedInv, SelectedAreOld
    <3>2. links[l] # None => links[l].expires \in Nat
      BY <2>2, RowIsThere, RowHas DEF ListInv, Exists
    <3> QED
      BY <2>1, <3>1, <3>2 DEF OldEnough
  <2> QED
    BY <2>1, <2>2, <2>3 DEF SelectedInv, SelectedAreOld
<1>6. ASSUME UNCHANGED <<links, now, cleanup>> PROVE SelectedInv'
  BY <1>6 DEF SelectedInv, SelectedAreOld
<1>7. CASE (\E u \in Users, f \in Filters : Open(u, f)) \/ FindRows \/ CountRows \/ Show \/ NextPage
  BY <1>6, <1>7 DEF Open, FindRows, CountRows, Show, NextPage
<1> QED
  BY <1>1, <1>2, <1>3, <1>4, <1>5, <1>7 DEF Next

LEMMA SelectedInit == Init => SelectedInv
BY DEF Init, NoCleanup, SelectedInv, SelectedAreOld

LEMMA SelectedStays ==
  ASSUME SelectedInv, UNCHANGED vars
  PROVE  SelectedInv'
BY DEF vars, SelectedInv, SelectedAreOld

\* What cleanup takes of the trash has no days left, if it was there at the select.
LEMMA DeletedHasNoDays ==
  ASSUME ListInv, SelectedInv, DeleteSelected, NEW l \in LinkIds, Trashed(l), ~ IsExpired(l),
         links'[l] = None
  PROVE  DaysUntilPurge(l) = 0 \/ links[l].deleted >= cleanup.at
<1>1. PICK gone \in SUBSET cleanup.rows :
        links' = [m \in LinkIds |-> IF m \in gone THEN None ELSE links[m]]
  BY DEF DeleteSelected
<1>2. links[l] # None /\ links[l].deleted # 0
  BY DEF Trashed, Exists
<1>3. l \in cleanup.rows
  BY <1>1, <1>2
<1> DEFINE kept == RetentionDays * Day
           x == links[l].deleted + kept - now
<1>4. /\ links[l].deleted \in Nat /\ now \in Nat /\ kept \in Nat
      /\ cleanup.at \in Nat /\ cleanup.at <= now
  <2>1. kept \in Nat
    BY ListAssumption
  <2> QED
    BY <2>1, RowIsThere, RowHas DEF ListInv, ListType, SelectedInv, Trashed
<1>5. links[l].deleted < cleanup.at => links[l].deleted < cleanup.at - kept
  BY <1>2, <1>3 DEF SelectedInv, SelectedAreOld, OldEnough, IsExpired
<1>6. DaysUntilPurge(l) = Max({0, CeilDiv(x, Day)})
  BY DEF DaysUntilPurge
<1> HIDE DEF kept
<1>7. x \in Int /\ (links[l].deleted < cleanup.at => x < 0)
  BY <1>4, <1>5
<1> HIDE DEF x
<1>8. CASE links[l].deleted < cleanup.at
  BY <1>6, <1>7, <1>8, NoDaysLeft
<1> QED
  BY <1>4, <1>8

-----------------------------------------------------------------------------
(* The edit form *)

\* The form keeps the expiry that is there.
Keeps(form) == form.choice = "blank" \/ (form.choice = "custom" /\ form.custom = 0)

\* What the form chose when it was submitted, at a moment.
Chosen(form, at, expires) ==
  /\ Keeps(form) => expires = Edit!Undefined
  /\ form.choice = "never" => expires = 0
  /\ form.choice = "for" => expires = at + form.for /\ expires # Edit!Undefined
  /\ ~ Keeps(form) /\ form.choice = "custom" =>
       expires = form.custom + ZoneShift /\ expires # Edit!Undefined

\* What an update that has read the link decided fits the link.
Fits(r, landing, short) ==
  IF landing
  THEN \/ short = Edit!Undefined /\ r.short # 0
       \/ short \notin {0, Edit!Undefined} /\ r.short = 0
  ELSE short = 0

Reading(t) == tab[t].stage = "read"

\* A page is open of a link that is there, and what was sent is what its form chose.
TabsAreInOrder ==
  \A t \in Tabs :
    /\ tab[t].stage # "closed" => link.there
    /\ tab[t].stage \in {"sent", "read"} => Chosen(tab[t].form, tab[t].at, tab[t].data.expires)

\* Without an overlap one update at most is under way, and the link is as it was read.
OneUpdate ==
  ~ overlap =>
    /\ \A t, u \in Tabs : Reading(t) /\ Reading(u) => t = u
    /\ \A t \in Tabs : Reading(t) => Fits(link, tab[t].data.landing, tab[t].short)

EditType ==
  /\ DOMAIN tab = Tabs /\ tab = [t \in Tabs |-> tab[t]]
  /\ editNow \in Nat /\ issued \in Nat
  /\ link.there => DOMAIN link = {"there", "landing", "short", "password", "expires"}

EditInv ==
  /\ EditType /\ TabsAreInOrder /\ OneUpdate
  /\ Edit!PageHasShortIdAlone

LEMMA ChosenByForm ==
  ASSUME NEW form \in Edit!Forms, editNow \in Nat
  PROVE  Chosen(form, editNow, Edit!Normalize(form).expires)
<1>1. /\ form.choice \in {"blank", "never", "for", "custom"}
      /\ form.for \in Durations /\ form.custom \in Dates \cup {0}
  BY DEF Edit!Forms
<1>2. /\ \A d \in Durations : d \in Nat \ {0}
      /\ \A d \in Dates : d + ZoneShift \in Nat \ {0}
  BY EditFormsAssumption DEF Edit!EditAssumption
<1>3. Edit!Normalize(form).expires = Edit!ParseExpiry(form)
  BY DEF Edit!Normalize
<1>4. CASE form.choice = "blank"
  BY <1>3, <1>4 DEF Edit!ParseExpiry, Chosen, Keeps
<1>5. CASE form.choice = "never"
  BY <1>3, <1>5 DEF Edit!ParseExpiry, Chosen, Keeps
<1>6. CASE form.choice = "for"
  <2>1. Edit!ParseExpiry(form) = editNow + form.for
    BY <1>6 DEF Edit!ParseExpiry
  <2>2. editNow + form.for # -1
    BY <1>1, <1>2
  <2> QED
    BY <1>3, <1>6, <2>1, <2>2 DEF Chosen, Keeps, Edit!Undefined
<1>7. CASE form.choice = "custom"
  <2>1. Edit!ParseExpiry(form) = IF form.custom # 0 THEN form.custom + ZoneShift
                                 ELSE Edit!Undefined
    BY <1>7 DEF Edit!ParseExpiry
  <2>2. form.custom # 0 => form.custom + ZoneShift # -1
    BY <1>1, <1>2
  <2> QED
    BY <1>3, <1>7, <2>1, <2>2 DEF Chosen, Keeps, Edit!Undefined
<1> QED
  BY <1>1, <1>4, <1>5, <1>6, <1>7

LEMMA EditInit == Edit!Init => EditInv
<1> SUFFICES ASSUME Edit!Init PROVE EditInv
  OBVIOUS
<1>1. ~ link.there
  BY DEF Edit!Init, Edit!NoLink
<1>2. /\ DOMAIN tab = Tabs /\ tab = [t \in Tabs |-> tab[t]]
      /\ \A t \in Tabs : tab[t].stage = "closed"
  BY DEF Edit!Init, Edit!Closed
<1> QED
  BY <1>1, <1>2 DEF Edit!Init, EditInv, EditType, TabsAreInOrder, OneUpdate, Reading,
                    Edit!PageHasShortIdAlone, Edit!PageHasShortId

LEMMA CreateEditStep ==
  ASSUME EditInv, NEW form \in Edit!Forms, Edit!Create(form)
  PROVE  EditInv'
<1> DEFINE data == Edit!Normalize(form)
           short == IF data.landing THEN issued + 1 ELSE 0
           expires == IF data.expires = Edit!Undefined THEN 0 ELSE data.expires
<1>1. /\ ~ link.there /\ UNCHANGED <<tab, editNow, overlap>>
      /\ issued' = IF data.landing THEN issued + 1 ELSE issued
      /\ link' = [there |-> TRUE, landing |-> data.landing,
                  short |-> IF data.landing THEN issued' ELSE 0,
                  password |-> data.password, expires |-> expires]
  BY DEF Edit!Create
<1>2. issued \in Nat
  BY DEF EditInv, EditType
<1> HIDE DEF data, expires
<1>3. issued' \in Nat /\ short \in Nat /\ (data.landing <=> short # 0)
  BY <1>1, <1>2
<1>4. /\ link'.there /\ link'.landing = data.landing /\ link'.short = short
      /\ DOMAIN link' = {"there", "landing", "short", "password", "expires"}
  BY <1>1
<1>5. \A t \in Tabs : tab[t].stage = "closed"
  BY <1>1 DEF EditInv, TabsAreInOrder
<1> HIDE DEF short
<1>6. EditType'
  BY <1>1, <1>3, <1>4 DEF EditInv, EditType
<1>7. TabsAreInOrder' /\ OneUpdate'
  BY <1>1, <1>4, <1>5 DEF TabsAreInOrder, OneUpdate, Reading
<1>8. Edit!PageHasShortId'
  BY <1>3, <1>4 DEF Edit!PageHasShortId
<1> QED
  BY <1>6, <1>7, <1>8 DEF EditInv, Edit!PageHasShortIdAlone

\* A tab that is not about to write, of a link that stays.
LEMMA TabMoves ==
  ASSUME EditInv, NEW t \in Tabs, NEW r, tab' = [tab EXCEPT ![t] = r],
         UNCHANGED <<link, editNow, issued, overlap>>,
         link.there, r.stage # "read", r.stage = "sent" => Chosen(r.form, r.at, r.data.expires)
  PROVE  EditInv'
<1>1. /\ DOMAIN tab' = Tabs /\ tab' = [u \in Tabs |-> tab'[u]]
      /\ tab'[t] = r /\ \A u \in Tabs \ {t} : tab'[u] = tab[u]
  BY DEF EditInv, EditType
<1>2. EditType'
  BY <1>1 DEF EditInv, EditType
<1>3. TabsAreInOrder'
  BY <1>1 DEF EditInv, TabsAreInOrder
<1>4. OneUpdate'
  BY <1>1 DEF EditInv, OneUpdate, Reading
<1> QED
  BY <1>2, <1>3, <1>4 DEF EditInv, Edit!PageHasShortIdAlone, Edit!PageHasShortId

LEMMA OpenEditStep ==
  ASSUME EditInv, NEW t \in Tabs, Edit!Open(t)
  PROVE  EditInv'
<1> DEFINE r == [stage |-> "open"]
<1>1. /\ tab' = [tab EXCEPT ![t] = r] /\ link.there
      /\ UNCHANGED <<link, editNow, issued, overlap>>
  BY DEF Edit!Open
<1>2. r.stage = "open"
  OBVIOUS
<1> HIDE DEF r
<1> QED
  BY <1>1, <1>2, TabMoves

LEMMA SubmitStep ==
  ASSUME EditInv, NEW t \in Tabs, NEW form \in Edit!Forms, Edit!Submit(t, form)
  PROVE  EditInv'
<1> DEFINE r == [stage |-> "sent", form |-> form, at |-> editNow,
                 data |-> Edit!Normalize(form)]
<1>1. /\ tab' = [tab EXCEPT ![t] = r] /\ link.there
      /\ UNCHANGED <<link, editNow, issued, overlap>>
  BY DEF Edit!Submit, EditInv, TabsAreInOrder
<1>2. /\ r.stage = "sent" /\ r.form = form /\ r.at = editNow
      /\ r.data = Edit!Normalize(form)
  OBVIOUS
<1>3. Chosen(form, editNow, Edit!Normalize(form).expires)
  BY ChosenByForm DEF EditInv, EditType
<1> HIDE DEF r
<1> QED
  BY <1>1, <1>2, <1>3, TabMoves

LEMMA ReadLinkStep ==
  ASSUME EditInv, NEW t \in Tabs, Edit!ReadLink(t)
  PROVE  EditInv'
<1> DEFINE data == tab[t].data
           short == IF Edit!NewShort(data) THEN issued'
                    ELSE IF ~ data.landing THEN 0 ELSE Edit!Undefined
           r == [stage |-> "read", form |-> tab[t].form, at |-> tab[t].at, data |-> data,
                 short |-> short]
<1>1. /\ tab[t].stage = "sent" /\ UNCHANGED <<link, editNow>>
      /\ issued' = IF Edit!NewShort(data) THEN issued + 1 ELSE issued
      /\ tab' = [tab EXCEPT ![t] = r]
      /\ overlap' = (overlap \/ \E u \in Tabs : tab[u].stage = "read")
  BY DEF Edit!ReadLink
<1>2. /\ r.stage = "read" /\ r.form = tab[t].form /\ r.at = tab[t].at
      /\ r.data = data /\ r.short = short
  OBVIOUS
<1>3. /\ issued' \in Nat
      /\ Edit!NewShort(data) => issued' \notin {0, Edit!Undefined}
  BY <1>1 DEF EditInv, EditType, Edit!Undefined
<1>4. link.there /\ Chosen(tab[t].form, tab[t].at, data.expires)
  BY <1>1 DEF EditInv, TabsAreInOrder
<1>5. Fits(link, data.landing, short)
  BY <1>3 DEF Fits, Edit!NewShort
<1> HIDE DEF data, short, r
<1>6. /\ DOMAIN tab' = Tabs /\ tab' = [u \in Tabs |-> tab'[u]]
      /\ tab'[t] = r /\ \A u \in Tabs \ {t} : tab'[u] = tab[u]
  BY <1>1 DEF EditInv, EditType
<1>7. EditType'
  BY <1>1, <1>3, <1>6 DEF EditInv, EditType
<1>8. TabsAreInOrder'
  BY <1>1, <1>2, <1>4, <1>6 DEF EditInv, TabsAreInOrder
<1>9. OneUpdate'
  <2>1. overlap' \/ \A u \in Tabs \ {t} : tab'[u].stage # "read"
    BY <1>1, <1>6
  <2> QED
    BY <1>1, <1>2, <1>5, <1>6, <2>1 DEF OneUpdate, Reading
<1> QED
  BY <1>1, <1>7, <1>8, <1>9 DEF EditInv, Edit!PageHasShortIdAlone, Edit!PageHasShortId

\* What an update writes.
LEMMA WrittenIs ==
  ASSUME EditInv, NEW t \in Tabs, Edit!WriteLink(t)
  PROVE  /\ link.there /\ link'.there
         /\ DOMAIN link' = {"there", "landing", "short", "password", "expires"}
         /\ link'.landing = tab[t].data.landing
         /\ link'.short = Edit!Or(tab[t].short, link.short)
         /\ link'.expires = Edit!Or(tab[t].data.expires, link.expires)
<1> DEFINE data == tab[t].data
           short == Edit!Or(tab[t].short, link.short)
           expires == Edit!Or(data.expires, link.expires)
<1>1. link' = [link EXCEPT !.landing = data.landing, !.short = short,
                           !.expires = expires, !.password = @ \/ data.password]
  BY DEF Edit!WriteLink
<1>2. link.there
  BY DEF Edit!WriteLink, EditInv, TabsAreInOrder
<1>3. DOMAIN link = {"there", "landing", "short", "password", "expires"}
  BY <1>2 DEF EditInv, EditType
<1> HIDE DEF data, short, expires
<1>4. /\ link'.there /\ link'.landing = data.landing /\ link'.short = short
      /\ link'.expires = expires
      /\ DOMAIN link' = {"there", "landing", "short", "password", "expires"}
  BY <1>1, <1>2, <1>3
<1> QED
  BY <1>2, <1>4 DEF data, short, expires

LEMMA WriteLinkStep ==
  ASSUME EditInv, NEW t \in Tabs, Edit!WriteLink(t)
  PROVE  EditInv'
<1> DEFINE r == [stage |-> "saved", data |-> tab[t].data]
<1>1. /\ tab[t].stage = "read" /\ tab' = [tab EXCEPT ![t] = r]
      /\ UNCHANGED <<editNow, issued, overlap>>
  BY DEF Edit!WriteLink
<1>2. r.stage = "saved"
  OBVIOUS
<1> HIDE DEF r
<1>3. /\ DOMAIN tab' = Tabs /\ tab' = [u \in Tabs |-> tab'[u]]
      /\ tab'[t] = r /\ \A u \in Tabs \ {t} : tab'[u] = tab[u]
  BY <1>1 DEF EditInv, EditType
<1>4. TabsAreInOrder'
  BY <1>2, <1>3, WrittenIs DEF EditInv, TabsAreInOrder
<1>5. OneUpdate'
  BY <1>1, <1>2, <1>3 DEF EditInv, OneUpdate, Reading
<1>6. EditType'
  BY <1>1, <1>3, WrittenIs DEF EditInv, EditType
<1>7. ~ overlap => Edit!PageHasShortId'
  <2>1. ~ overlap => Fits(link, tab[t].data.landing, tab[t].short)
    BY <1>1 DEF EditInv, OneUpdate, Reading
  <2> QED
    BY <2>1, WrittenIs DEF Fits, Edit!Or, Edit!PageHasShortId, Edit!Undefined
<1> QED
  BY <1>1, <1>4, <1>5, <1>6, <1>7 DEF EditInv, Edit!PageHasShortIdAlone

LEMMA EditTickStep ==
  ASSUME EditInv, Edit!Tick
  PROVE  EditInv'
<1>1. editNow' \in Nat /\ UNCHANGED <<link, tab, issued, overlap>>
  BY DEF EditInv, EditType, Edit!Tick
<1> QED
  BY <1>1 DEF EditInv, EditType, TabsAreInOrder, OneUpdate, Reading,
              Edit!PageHasShortIdAlone, Edit!PageHasShortId

LEMMA EditStep == EditInv /\ Edit!Next => EditInv'
BY CreateEditStep, OpenEditStep, SubmitStep, ReadLinkStep, WriteLinkStep, EditTickStep
   DEF Edit!Next

LEMMA EditStays ==
  ASSUME EditInv, UNCHANGED editVars
  PROVE  EditInv'
BY DEF editVars, EditInv, EditType, TabsAreInOrder, OneUpdate, Reading,
       Edit!PageHasShortIdAlone, Edit!PageHasShortId

\* Only a write changes the link or saves a tab.
LEMMA OnlyWrites ==
  ASSUME EditInv, Edit!Next, link.there
  PROVE  \/ \E t \in Tabs : Edit!WriteLink(t)
         \/ UNCHANGED link /\ \A t \in Tabs : ~ (Reading(t) /\ tab'[t].stage = "saved")
<1>1. ASSUME NEW form \in Edit!Forms, Edit!Create(form) PROVE FALSE
  BY <1>1 DEF Edit!Create
<1>2. ASSUME NEW t \in Tabs, Edit!Open(t) \/ Edit!ReadLink(t)
      PROVE  UNCHANGED link /\ \A u \in Tabs : ~ (Reading(u) /\ tab'[u].stage = "saved")
  <2>1. CASE Edit!Open(t)
    <3>1. UNCHANGED link /\ tab' = [tab EXCEPT ![t] = [stage |-> "open"]]
      BY <2>1 DEF Edit!Open
    <3> QED
      BY <3>1 DEF EditInv, EditType, Reading
  <2>2. CASE Edit!ReadLink(t)
    <3>1. tab[t].stage = "sent" /\ UNCHANGED link
      BY <2>2 DEF Edit!ReadLink
    <3>2. \A u \in Tabs \ {t} : tab'[u] = tab[u]
      BY <2>2 DEF Edit!ReadLink, EditInv, EditType
    <3> QED
      BY <3>1, <3>2 DEF Reading
  <2> QED
    BY <1>2, <2>1, <2>2
<1>3. ASSUME NEW t \in Tabs, NEW form \in Edit!Forms, Edit!Submit(t, form)
      PROVE  UNCHANGED link /\ \A u \in Tabs : ~ (Reading(u) /\ tab'[u].stage = "saved")
  <2>1. tab[t].stage = "open" /\ UNCHANGED link
    BY <1>3 DEF Edit!Submit
  <2>2. \A u \in Tabs \ {t} : tab'[u] = tab[u]
    BY <1>3 DEF Edit!Submit, EditInv, EditType
  <2> QED
    BY <2>1, <2>2 DEF Reading
<1>4. ASSUME Edit!Tick
      PROVE  UNCHANGED link /\ \A u \in Tabs : ~ (Reading(u) /\ tab'[u].stage = "saved")
  BY <1>4 DEF Edit!Tick, Reading
<1> QED
  BY <1>1, <1>2, <1>3, <1>4 DEF Edit!Next

LEMMA AddressIsKept ==
  ASSUME EditInv, Edit!Next, ~ overlap, link.there, link.landing, link'.landing
  PROVE  link'.short = link.short
<1>1. CASE UNCHANGED link
  BY <1>1
<1>2. ASSUME NEW t \in Tabs, Edit!WriteLink(t)
      PROVE  link'.short = link.short
  <2>1. /\ link'.landing = tab[t].data.landing
        /\ link'.short = Edit!Or(tab[t].short, link.short)
    BY <1>2, WrittenIs
  <2>2. Fits(link, tab[t].data.landing, tab[t].short)
    BY <1>2 DEF Edit!WriteLink, EditInv, OneUpdate, Reading
  <2>3. link.short # 0
    BY DEF EditInv, Edit!PageHasShortIdAlone, Edit!PageHasShortId
  <2> QED
    BY <2>1, <2>2, <2>3 DEF Fits, Edit!Or
<1> QED
  BY <1>1, <1>2, OnlyWrites

LEMMA ExpiryIsChosen ==
  ASSUME EditInv, Edit!Next, NEW t \in Tabs, tab[t].stage = "read", tab'[t].stage = "saved"
  PROVE  /\ Keeps(tab[t].form) => link'.expires = link.expires
         /\ tab[t].form.choice = "never" => link'.expires = 0
         /\ tab[t].form.choice = "for" => link'.expires = tab[t].at + tab[t].form.for
         /\ ~ Keeps(tab[t].form) /\ tab[t].form.choice = "custom" =>
              link'.expires = tab[t].form.custom + ZoneShift
<1>1. link.there /\ Chosen(tab[t].form, tab[t].at, tab[t].data.expires)
  BY DEF EditInv, TabsAreInOrder
<1>2. Edit!WriteLink(t)
  <2>1. PICK u \in Tabs : Edit!WriteLink(u)
    BY <1>1, OnlyWrites DEF Reading
  <2>2. \A v \in Tabs \ {u} : tab'[v] = tab[v]
    BY <2>1 DEF Edit!WriteLink, EditInv, EditType
  <2> QED
    BY <2>1, <2>2
<1>3. link'.expires = Edit!Or(tab[t].data.expires, link.expires)
  BY <1>2, WrittenIs
<1> QED
  BY <1>1, <1>3 DEF Chosen, Edit!Or, Edit!Undefined

-----------------------------------------------------------------------------
(* The theorems *)

MyLinksIInv == ListInv /\ SelectedInv /\ EditInv

LEMMA MyLinksStart == MyLinksInit => MyLinksIInv
BY ListInit, SelectedInit, EditInit DEF MyLinksInit, MyLinksIInv

LEMMA MyLinksStep == MyLinksIInv /\ [MyLinksNext]_<<vars, editVars, part>> => MyLinksIInv'
<1> SUFFICES ASSUME MyLinksIInv, [MyLinksNext]_<<vars, editVars, part>>
             PROVE  MyLinksIInv'
  OBVIOUS
<1>1. CASE Next /\ UNCHANGED editVars
  BY <1>1, ListStep, SelectedKept, EditStays DEF MyLinksIInv
<1>2. CASE Edit!Next /\ UNCHANGED vars
  BY <1>2, ListStays, SelectedStays, EditStep DEF MyLinksIInv
<1>3. CASE UNCHANGED vars /\ UNCHANGED editVars
  BY <1>3, ListStays, SelectedStays, EditStays DEF MyLinksIInv
<1> QED
  BY <1>1, <1>2, <1>3 DEF MyLinksNext

\* The inductive invariant of both parts: the rows of a walk stand where their rank
\* says, what cleanup has selected was old enough then, and an update under way fits the
\* link it has read and carries what its form chose.
THEOREM MyLinksInductive == MyLinksSpec => []MyLinksIInv
<1>1. MyLinksInit => MyLinksIInv
  BY MyLinksStart
<1>2. MyLinksIInv /\ [MyLinksNext]_<<vars, editVars, part>> => MyLinksIInv'
  BY MyLinksStep
<1> QED
  BY <1>1, <1>2, PTL DEF MyLinksSpec

\* A walk through the pages of a list that stays as it is shows each row once, newest
\* first, and offers another page exactly while there are more.
THEOREM PagesShowAll == MyLinksSpec => []WalkShowsAll
<1>1. MyLinksIInv => WalkShowsAll
  BY WalkIsShown DEF MyLinksIInv
<1> QED
  BY <1>1, MyLinksInductive, PTL

\* The statistics, when they are counted, are the totals of the lists; the expired and
\* the active filter divide the links between them, and are ahead of the badge and of
\* cleanup by the moment of the expiry only; and as long as no updates have overlapped a
\* link has an address exactly when it has a page.
THEOREM MyLinksAgree == MyLinksSpec => []MyLinksInv
<1>1. MyLinksIInv => MyLinksInv
  BY StatsAreOfTheLists, ExpiredIsEverywhere DEF MyLinksIInv, MyLinksInv, EditInv
<1> QED
  BY <1>1, MyLinksInductive, PTL

\* Of the trashed links that have not expired, cleanup takes one of which the trash
\* shows days only if it was trashed after cleanup had selected it.
THEOREM DaysAreRespected == MyLinksSpec => DaysAreKept
<1>1. MyLinksIInv =>
        [DeleteSelected => \A l \in LinkIds :
           Trashed(l) /\ ~ IsExpired(l) /\ links'[l] = None =>
             DaysUntilPurge(l) = 0 \/ links[l].deleted >= cleanup.at]_vars
  BY DeletedHasNoDays DEF MyLinksIInv
<1> QED
  BY <1>1, MyLinksInductive, PTL DEF DaysAreKept

\* Without overlapping updates the address of a page stays; and every update writes what
\* its form chose when it was sent: the expiry that is there, none, its duration from
\* then on, or the date that was picked, as the server's clock shows it.
THEOREM FormsAreObeyed == MyLinksSpec => EditsAsChosen
<1> DEFINE A == ~ overlap /\ link.there /\ link.landing /\ link'.landing =>
                  link'.short = link.short
           B == \A t \in Tabs : tab[t].stage = "read" /\ tab'[t].stage = "saved" =>
                  /\ Keeps(tab[t].form) => link'.expires = link.expires
                  /\ tab[t].form.choice = "never" => link'.expires = 0
                  /\ tab[t].form.choice = "for" => link'.expires = tab[t].at + tab[t].form.for
                  /\ ~ Keeps(tab[t].form) /\ tab[t].form.choice = "custom" =>
                       link'.expires = tab[t].form.custom + ZoneShift
<1>1. MyLinksIInv /\ [MyLinksNext]_<<vars, editVars, part>> =>
        [A]_<<link, tab, editNow, issued, overlap>> /\ [B]_<<link, tab, editNow, issued, overlap>>
  <2> SUFFICES ASSUME MyLinksIInv, Edit!Next
               PROVE  A /\ B
    BY DEF MyLinksNext, editVars
  <2>1. A
    BY AddressIsKept DEF MyLinksIInv
  <2>2. B
    BY ExpiryIsChosen DEF MyLinksIInv
  <2> QED
    BY <2>1, <2>2
<1> HIDE DEF A, B
<1>2. MyLinksSpec => [][A]_<<link, tab, editNow, issued, overlap>>
                     /\ [][B]_<<link, tab, editNow, issued, overlap>>
  BY <1>1, MyLinksInductive, PTL DEF MyLinksSpec
<1>3. EditsAsChosen <=> [][A]_<<link, tab, editNow, issued, overlap>>
                        /\ [][B]_<<link, tab, editNow, issued, overlap>>
  BY DEF EditsAsChosen, Edit!AddressStays, Edit!ExpiryAsChosen, Edit!vars,
         Keeps, A, B
<1> QED
  BY <1>2, <1>3
=============================================================================
