--------------------------- MODULE DashboardProofs ---------------------------
(***************************************************************************)
(* Proofs about AdminPage and QueryCache, as MCDashboard puts them side by *)
(* side: DashboardInv is an invariant, for every set of links, batches,    *)
(* keys, tags, callers and writers.                                        *)
(*                                                                         *)
(* The page: what it asks for takes a link away from where the page lists  *)
(* it (Carried never brings one back), so a row may go when it is told so; *)
(* what is selected while a batch is out was sent with it or ticked since  *)
(* (SelectedIsSent); and every row is counted down at least once.          *)
(* The cache: what is cached and what is still to be stored is out of date *)
(* only by a race or a missed invalidation (InTime); the accesses are in   *)
(* an order (Ordered), which has a first one, so a full cache has an entry *)
(* to give up (HasFirst).                                                  *)
(***************************************************************************)
EXTENDS MCDashboard, FiniteSetTheorems, NaturalsInduction, WellFoundedInduction, TLAPS

\* Nothing that the page stores is None.
LEMMA PageStored ==
  /\ \A r \in RowRequest : r # None
  /\ \A r \in BatchSent : r # None
  /\ \A kind \in Kinds : kind # None
  /\ \A n \in Nat : n # None
  /\ "ok" # None /\ "error" # None /\ "done" # None /\ "failed" # None
BY PageNoneAssumption

-----------------------------------------------------------------------------
(* The page *)

\* What the page offers takes a link away from where the page lists it, and
\* never brings one back there.
LEMMA CarriedTakesAway ==
  ASSUME TypeOK, NEW kind \in Offered, NEW ids \in SUBSET Items, Carried(kind, ids),
         view' = view
  PROVE  /\ server' \in [Items -> {"live", "trash", "purged"}]
         /\ \A i \in Items : server[i] # Home => server'[i] # Home'
         /\ \A i \in ids : Applies(kind, i) => server'[i] # Home'
<1>1. kind \in {"delete", "restore", "purge"}
  BY DEF Offered
<1>2. Outcome(kind) \in {"live", "trash", "purged"}
  BY <1>1 DEF Outcome
<1>3. server' \in [Items -> {"live", "trash", "purged"}]
  BY <1>2 DEF Carried, TypeOK
<1>4. Outcome(kind) # Home /\ Home' = Home
  BY <1>1 DEF Outcome, Offered, Home, TypeOK
<1>5. \A i \in Items : server'[i] = server[i] \/ server'[i] = Outcome(kind)
  BY DEF Carried
<1>6. \A i \in ids : Applies(kind, i) => server'[i] = Outcome(kind)
  BY DEF Carried
<1>7. QED
  BY <1>3, <1>4, <1>5, <1>6

\* The rows are finitely many, and those that go are counted down.
LEMMA RowsCount ==
  ASSUME TypeOK, NEW ids
  PROVE  /\ IsFiniteSet(rows) /\ Cardinality(rows) \in Nat
         /\ Cardinality(rows \cap ids) \in Nat
         /\ Cardinality(rows \ ids) = Cardinality(rows) - Cardinality(rows \cap ids)
<1>1. IsFiniteSet(rows)
  BY PageAssumption, FS_Subset DEF TypeOK
<1>2. rows \cap ids \in SUBSET rows
  OBVIOUS
<1>3. IsFiniteSet(rows \cap ids)
  BY <1>1, <1>2, FS_Subset
<1>4. QED
  BY <1>1, <1>3, FS_CardinalityType, FS_Difference

\* An empty table is counted down to nothing.
LEMMA CountHidesTable ==
  ASSUME TypeOK, CountIsNotTooHigh
  PROVE  EmptyTableIsHidden
BY FS_EmptySet DEF EmptyTableIsHidden, CountIsNotTooHigh

\* A step that leaves the rows and the view alone, brings no link back, and forgets
\* neither what a batch was sent for nor which of the rows that are gone were late.
LEMMA RowsStay ==
  ASSUME PageInv, TypeOK', UNCHANGED <<view, rows, linkCount>>,
         \A i \in Items : server[i] # Home => server'[i] # Home,
         \A b \in Batches : batch[b] # None /\ batch[b].answer = "done" =>
           batch'[b] # None /\ batch'[b].answer = "done" /\ batch'[b].ids = batch[b].ids,
         late \ rows \subseteq late',
         SelectedIsSent', RequestsTakeAway'
  PROVE  PageInv'
<1>1. CountIsNotTooHigh'
  BY DEF PageInv, CountIsNotTooHigh
<1>2. Home' = Home
  BY DEF Home
<1>3. GoneRowWasAskedFor'
  BY <1>2 DEF PageInv, GoneRowWasAskedFor
<1>4. EmptyTableIsHidden'
  BY DEF PageInv, EmptyTableIsHidden
<1>5. QED
  BY <1>1, <1>3, <1>4 DEF PageInv

\* A step that leaves the requests and the batches alone as well.
LEMMA PageRests ==
  ASSUME PageInv, TypeOK', UNCHANGED <<view, server, rows, linkCount, request, batch>>,
         late \ rows \subseteq late', SelectedIsSent',
         confirm' # None => confirm' \in Offered
  PROVE  PageInv'
<1>1. Home' = Home /\ Offered' = Offered
  BY DEF Home, Offered
<1>2. RequestsTakeAway'
  BY <1>1 DEF PageInv, RequestsTakeAway
<1>3. QED
  BY <1>2, RowsStay

\* What is selected and what was sent is what it was.
LEMMA SelectionStays ==
  ASSUME PageInv, UNCHANGED <<selected, batch, late>>
  PROVE  SelectedIsSent' /\ late \ rows \subseteq late'
BY DEF PageInv, SelectedIsSent, Out

LEMMA PageStart ==
  ASSUME Init
  PROVE  PageInv
<1>1. TypeOK
  <2>1. Cardinality(Items) \in Nat /\ ToastTime \in Nat
    BY PageAssumption, FS_CardinalityType
  <2>2. request \in [Items -> RowRequest \cup {None}] /\ batch \in [Batches -> BatchSent \cup {None}]
    BY DEF Init
  <2>3. server \in [Items -> {"live", "trash", "purged"}]
    BY DEF Init
  <2>4. toasts \in 0..MaxToasts /\ late \subseteq Items
    BY PageAssumption DEF Init
  <2>5. QED
    BY <2>1, <2>2, <2>3, <2>4 DEF Init, TypeOK
<1>2. CountIsNotTooHigh
  BY PageAssumption, FS_CardinalityType DEF Init, CountIsNotTooHigh
<1>3. EmptyTableIsHidden
  BY <1>1, <1>2, CountHidesTable, PageAssumption, FS_EmptySet
     DEF Init, EmptyTableIsHidden
<1>4. GoneRowWasAskedFor /\ SelectedIsSent /\ RequestsTakeAway
  BY DEF Init, GoneRowWasAskedFor, SelectedIsSent, Out, RequestsTakeAway
<1>5. QED
  BY <1>1, <1>2, <1>3, <1>4 DEF PageInv

\* The buttons of a row.
LEMMA PageClickRow ==
  ASSUME PageInv, NEW i \in Items, NEW kind \in Kinds, ClickRow(i, kind)
  PROVE  PageInv'
<1>1. [kind |-> kind, answer |-> None] \in RowRequest
  BY DEF RowRequest
<1>2. TypeOK'
  BY <1>1 DEF PageInv, TypeOK, ClickRow
<1>3. RequestsTakeAway'
  <2>1. Offered' = Offered /\ Home' = Home
    BY DEF Offered, Home, ClickRow
  <2>2. ASSUME NEW j \in Items, request'[j] # None
        PROVE  /\ request'[j].kind \in Offered
               /\ request'[j].answer = "ok" => server[j] # Home
    BY <2>2, PageStored DEF PageInv, TypeOK, RequestsTakeAway, ClickRow
  <2>3. QED
    BY <2>1, <2>2 DEF PageInv, RequestsTakeAway, ClickRow
<1>4. QED
  BY <1>2, <1>3, RowsStay, SelectionStays DEF ClickRow

LEMMA PageServerAnswersRow ==
  ASSUME PageInv, NEW i \in Items, ServerAnswersRow(i)
  PROVE  PageInv'
<1>1. request[i] \in RowRequest /\ request[i].kind \in Offered
  BY DEF PageInv, TypeOK, RequestsTakeAway, ServerAnswersRow
<1>2. PICK a \in {"ok", "error"} :
        /\ request' = [request EXCEPT ![i].answer = a]
        /\ \/ a = "error" /\ UNCHANGED server
           \/ Applies(request[i].kind, i) /\ Carried(request[i].kind, {i})
  BY DEF ServerAnswersRow
<1>3. /\ server' \in [Items -> {"live", "trash", "purged"}]
      /\ \A j \in Items : server[j] # Home => server'[j] # Home'
      /\ a = "ok" => server'[i] # Home'
  <2>1. CASE a = "error" /\ UNCHANGED server
    BY <2>1 DEF PageInv, TypeOK, Home, ServerAnswersRow
  <2>2. CASE Applies(request[i].kind, i) /\ Carried(request[i].kind, {i})
    <3>1. {i} \in SUBSET Items
      OBVIOUS
    <3>2. view' = view
      BY DEF ServerAnswersRow
    <3>3. QED
      BY <1>1, <2>2, <3>1, <3>2, CarriedTakesAway DEF PageInv
  <2>3. QED
    BY <1>2, <2>1, <2>2
<1>4. Home' = Home /\ Offered' = Offered
  BY DEF Home, Offered, ServerAnswersRow
<1>5. /\ request'[i] = [kind |-> request[i].kind, answer |-> a]
      /\ \A j \in Items \ {i} : request'[j] = request[j]
      /\ request' \in [Items -> RowRequest \cup {None}]
  BY <1>1, <1>2 DEF PageInv, TypeOK, RowRequest
<1>6. TypeOK'
  BY <1>3, <1>5 DEF PageInv, TypeOK, ServerAnswersRow
<1>7. RequestsTakeAway'
  <2>1. ASSUME NEW j \in Items, request'[j] # None
        PROVE  /\ request'[j].kind \in Offered
               /\ request'[j].answer = "ok" => server'[j] # Home'
    <3>1. CASE j = i
      BY <1>1, <1>3, <1>5, <3>1
    <3>2. CASE j # i
      BY <1>3, <1>5, <2>1, <3>2 DEF PageInv, RequestsTakeAway
    <3>3. QED
      BY <3>1, <3>2
  <2>2. QED
    BY <1>4, <2>1 DEF PageInv, RequestsTakeAway, ServerAnswersRow
<1>8. QED
  BY <1>3, <1>4, <1>6, <1>7, RowsStay, SelectionStays DEF ServerAnswersRow

LEMMA PageRowNetworkError ==
  ASSUME PageInv, NEW i \in Items, RowNetworkError(i)
  PROVE  PageInv'
<1>1. request[i] \in RowRequest /\ request[i].kind \in Offered
  BY DEF PageInv, TypeOK, RequestsTakeAway, RowNetworkError
<1>2. /\ request'[i] = [kind |-> request[i].kind, answer |-> "error"]
      /\ \A j \in Items \ {i} : request'[j] = request[j]
      /\ request' \in [Items -> RowRequest \cup {None}]
  BY <1>1 DEF PageInv, TypeOK, RowRequest, RowNetworkError
<1>3. TypeOK'
  BY <1>2 DEF PageInv, TypeOK, RowNetworkError
<1>4. Home' = Home /\ Offered' = Offered
  BY DEF Home, Offered, RowNetworkError
<1>5. RequestsTakeAway'
  BY <1>1, <1>2, <1>4 DEF PageInv, RequestsTakeAway, RowNetworkError
<1>6. QED
  BY <1>3, <1>5, RowsStay, SelectionStays DEF RowNetworkError

\* A row that goes was told that its link is no longer there.
LEMMA PageRowAnswered ==
  ASSUME PageInv, NEW i \in Items, RowAnswered(i)
  PROVE  PageInv'
<1>1. /\ request' = [request EXCEPT ![i] = None]
      /\ UNCHANGED <<view, server, selected, batch, confirm, toast, timers, toasts, late>>
  BY DEF RowAnswered
<1>2. request' \in [Items -> RowRequest \cup {None}]
  BY <1>1 DEF PageInv, TypeOK
<1>3. RequestsTakeAway'
  BY <1>1 DEF PageInv, TypeOK, RequestsTakeAway, Home, Offered
<1>4. CASE request[i].answer = "ok"
  <2>1. rows' = rows \ {i} /\ linkCount' = linkCount - Cardinality(rows \cap {i})
    BY <1>4 DEF RowAnswered, RowGone
  <2>2. /\ Cardinality(rows \cap {i}) \in Nat /\ Cardinality(rows) \in Nat
        /\ Cardinality(rows') = Cardinality(rows) - Cardinality(rows \cap {i})
    BY <2>1, RowsCount DEF PageInv
  <2>3. TypeOK'
    BY <1>1, <1>2, <2>1, <2>2 DEF PageInv, TypeOK
  <2>4. CountIsNotTooHigh'
    BY <2>1, <2>2 DEF PageInv, TypeOK, CountIsNotTooHigh
  <2>5. EmptyTableIsHidden'
    BY <2>2, <2>4, FS_EmptySet DEF CountIsNotTooHigh, EmptyTableIsHidden
  <2>6. server[i] # Home
    BY <1>4 DEF PageInv, RequestsTakeAway, RowAnswered
  <2>7. GoneRowWasAskedFor'
    BY <1>1, <2>1, <2>6 DEF PageInv, GoneRowWasAskedFor, Home
  <2>8. SelectedIsSent'
    BY <1>1, SelectionStays
  <2>9. QED
    BY <1>3, <2>3, <2>4, <2>5, <2>7, <2>8 DEF PageInv
<1>5. CASE request[i].answer # "ok"
  <2>1. UNCHANGED <<rows, linkCount>>
    BY <1>5 DEF RowAnswered
  <2>2. TypeOK'
    BY <1>1, <1>2, <2>1 DEF PageInv, TypeOK
  <2>3. QED
    BY <1>1, <1>3, <2>1, <2>2, RowsStay, SelectionStays DEF Home
<1>6. QED
  BY <1>4, <1>5

\* What is ticked while a batch is out is late.
LEMMA PageSelects ==
  ASSUME PageInv, NEW some \in SUBSET Items, Selects(some), confirm' = confirm
  PROVE  PageInv'
<1>1. /\ UNCHANGED <<view, server, rows, linkCount, request, batch, confirm, toast, timers, toasts>>
      /\ selected' = some
  BY DEF Selects
<1>2. /\ late \cap some \subseteq late' /\ late \ rows \subseteq late'
      /\ (\E b \in Batches : Out(b)) => some \ selected \subseteq late'
  BY DEF Selects
<1>3. TypeOK'
  <2>1. late' \subseteq Items
    BY DEF PageInv, TypeOK, Selects
  <2>2. QED
    BY <1>1, <2>1 DEF PageInv, TypeOK
<1>4. SelectedIsSent'
  <2>1. ASSUME NEW b \in Batches, Out(b)
        PROVE  some \subseteq batch[b].ids \cup late'
    <3>1. selected \subseteq batch[b].ids \cup late
      BY <2>1 DEF PageInv, SelectedIsSent
    <3>2. QED
      BY <1>2, <2>1, <3>1
  <2>2. QED
    BY <1>1, <2>1 DEF SelectedIsSent, Out
<1>5. confirm' # None => confirm' \in Offered
  BY DEF PageInv, RequestsTakeAway
<1>6. QED
  BY <1>1, <1>2, <1>3, <1>4, <1>5, PageRests

\* The check boxes.
LEMMA PageTicks ==
  ASSUME PageInv,
         \/ \E i \in Items : ToggleSelection(i)
         \/ \E checked \in BOOLEAN : ToggleAll(checked)
         \/ ClearSelection
  PROVE  PageInv'
<1>1. selected \subseteq Items /\ rows \subseteq Items
  BY DEF PageInv, TypeOK
<1>2. ASSUME NEW some \in SUBSET Items, Selects(some)
      PROVE  PageInv'
  BY <1>2, PageSelects DEF Selects
<1>3. ASSUME NEW i \in Items, ToggleSelection(i)
      PROVE  PageInv'
  <2>1. (IF i \in selected THEN selected \ {i} ELSE selected \cup {i}) \in SUBSET Items
    BY <1>1
  <2>2. QED
    BY <1>2, <1>3, <2>1 DEF ToggleSelection
<1>4. ASSUME NEW checked \in BOOLEAN, ToggleAll(checked)
      PROVE  PageInv'
  <2>1. (IF checked THEN rows ELSE {}) \in SUBSET Items
    BY <1>1
  <2>2. QED
    BY <1>2, <1>4, <2>1 DEF ToggleAll
<1>5. CASE ClearSelection
  BY <1>2, <1>5 DEF ClearSelection
<1>6. QED
  BY <1>3, <1>4, <1>5

LEMMA PageAsks ==
  ASSUME PageInv, NEW kind \in Kinds, AskForBatch(kind)
  PROVE  PageInv'
<1>1. UNCHANGED <<view, server, rows, linkCount, selected, request, batch, toast, timers, toasts,
                  late>>
      /\ confirm' = kind /\ kind \in Offered
  BY DEF AskForBatch
<1>2. TypeOK'
  BY <1>1 DEF PageInv, TypeOK
<1>3. QED
  BY <1>1, <1>2, PageRests, SelectionStays

LEMMA PageToastGoes ==
  ASSUME PageInv, CloseToast \/ Tick
  PROVE  PageInv'
<1>1. UNCHANGED <<view, server, rows, linkCount, selected, request, batch, confirm, toasts, late>>
  BY DEF CloseToast, Tick
<1>2. timers' \subseteq 1..ToastTime
  <2>1. CASE CloseToast
    BY <2>1 DEF PageInv, TypeOK, CloseToast
  <2>2. CASE Tick
    <3>1. timers' = {n - 1 : n \in timers} \ {0} /\ timers \subseteq 1..ToastTime
      BY <2>2 DEF PageInv, TypeOK, Tick
    <3>2. QED
      BY <3>1, PageAssumption
  <2>3. QED
    BY <2>1, <2>2
<1>3. toast' \in Nat \cup {None}
  BY DEF PageInv, TypeOK, CloseToast, Tick
<1>4. TypeOK'
  BY <1>1, <1>2, <1>3 DEF PageInv, TypeOK
<1>5. confirm' # None => confirm' \in Offered
  BY <1>1 DEF PageInv, RequestsTakeAway
<1>6. QED
  BY <1>1, <1>4, <1>5, PageRests, SelectionStays

\* A batch is sent, or goes on: it keeps what it was sent for, and its answer once that
\* has been seen.
LEMMA PageBatchChanges ==
  ASSUME PageInv, NEW b \in Batches, NEW x \in BatchSent,
         batch' = [batch EXCEPT ![b] = x], x.kind \in Offered,
         batch[b] = None => selected \subseteq x.ids,
         batch[b] # None =>
           /\ x.ids = batch[b].ids
           /\ batch[b].answer \in {"done", "failed"} => x.answer = batch[b].answer,
         confirm' \in {confirm, None}, server' \in [Items -> {"live", "trash", "purged"}],
         \A i \in Items : server[i] # Home => server'[i] # Home,
         UNCHANGED <<view, rows, linkCount, selected, request, toast, timers, toasts, late>>
  PROVE  PageInv'
<1>1. /\ batch' \in [Batches -> BatchSent \cup {None}]
      /\ batch'[b] = x /\ \A d \in Batches \ {b} : batch'[d] = batch[d]
  BY DEF PageInv, TypeOK
<1>2. TypeOK'
  BY <1>1 DEF PageInv, TypeOK
<1>3. Home' = Home /\ Offered' = Offered
  BY DEF Home, Offered
<1>4. RequestsTakeAway'
  <2>1. confirm' # None => confirm' \in Offered
    BY DEF PageInv, RequestsTakeAway
  <2>2. \A d \in Batches : batch'[d] # None => batch'[d].kind \in Offered
    BY <1>1 DEF PageInv, RequestsTakeAway
  <2>3. QED
    BY <1>3, <2>1, <2>2 DEF PageInv, TypeOK, RequestsTakeAway
<1>5. \A d \in Batches : batch[d] # None /\ batch[d].answer = "done" =>
        batch'[d] # None /\ batch'[d].answer = "done" /\ batch'[d].ids = batch[d].ids
  BY <1>1, PageStored
<1>6. SelectedIsSent'
  <2>1. ASSUME NEW d \in Batches, batch'[d] # None, batch'[d].answer \notin {"done", "failed"}
        PROVE  selected \subseteq batch'[d].ids \cup late
    <3>1. batch[d] # None => batch[d].answer \notin {"done", "failed"}
                          /\ batch'[d].ids = batch[d].ids
      BY <1>1, <2>1
    <3>2. batch[d] # None => selected \subseteq batch[d].ids \cup late
      BY <3>1 DEF PageInv, SelectedIsSent, Out
    <3>3. batch[d] = None => d = b
      BY <1>1, <2>1
    <3>4. QED
      BY <1>1, <3>1, <3>2, <3>3
  <2>2. QED
    BY <2>1 DEF SelectedIsSent, Out
<1>7. QED
  BY <1>2, <1>4, <1>5, <1>6, RowsStay

LEMMA PageHandleConfirm ==
  ASSUME PageInv, NEW b \in Batches, NEW confirmed \in BOOLEAN, HandleConfirm(b, confirmed)
  PROVE  PageInv'
<1>1. CASE confirmed
  <2>1. confirm \in Offered /\ confirm \in Kinds /\ selected \in SUBSET Items /\ batch[b] = None
    BY DEF PageInv, TypeOK, RequestsTakeAway, HandleConfirm
  <2> DEFINE x == [kind |-> confirm, ids |-> selected, jobs |-> {}, answer |-> None]
  <2>2. x \in BatchSent /\ x.kind \in Offered /\ x.ids = selected
    BY <2>1 DEF BatchSent
  <2>3. batch' = [batch EXCEPT ![b] = x]
    BY <1>1 DEF HandleConfirm
  <2>4. confirm' = None
    BY DEF HandleConfirm
  <2>5. UNCHANGED <<view, server, rows, linkCount, selected, request, toast, timers, toasts, late>>
    BY DEF HandleConfirm
  <2>6. server' \in [Items -> {"live", "trash", "purged"}]
    BY <2>5 DEF PageInv, TypeOK
  <2> HIDE DEF x
  <2>7. QED
    BY <2>1, <2>2, <2>3, <2>4, <2>5, <2>6, PageBatchChanges
<1>2. CASE ~confirmed
  <2>1. UNCHANGED <<view, server, rows, linkCount, selected, request, batch, toast, timers, toasts,
                    late>>
        /\ confirm' = None
    BY <1>2 DEF HandleConfirm
  <2>2. TypeOK'
    BY <2>1 DEF PageInv, TypeOK
  <2>3. QED
    BY <2>1, <2>2, PageRests, SelectionStays
<1>3. QED
  BY <1>1, <1>2

LEMMA PageServerQueues ==
  ASSUME PageInv, NEW b \in Batches, ServerQueues(b)
  PROVE  PageInv'
<1>1. batch[b] \in BatchSent /\ batch[b].kind \in Offered /\ batch[b].answer = None
  BY DEF PageInv, TypeOK, RequestsTakeAway, ServerQueues
<1>2. PICK jobs \in SUBSET batch[b].ids, answer \in {"ok", "error"} :
        batch' = [batch EXCEPT ![b] = [@ EXCEPT !.jobs = jobs, !.answer = answer]]
  BY DEF ServerQueues
<1> DEFINE x == [batch[b] EXCEPT !.jobs = jobs, !.answer = answer]
<1>3. jobs \in SUBSET Items
  BY <1>1 DEF BatchSent
<1>4. x \in BatchSent /\ x.kind = batch[b].kind /\ x.ids = batch[b].ids
  BY <1>1, <1>3 DEF BatchSent
<1>5. batch' = [batch EXCEPT ![b] = x]
  BY <1>2
<1>6. UNCHANGED <<view, server, rows, linkCount, selected, request, confirm, toast, timers, toasts,
                  late>>
  BY DEF ServerQueues
<1>7. server' \in [Items -> {"live", "trash", "purged"}]
  BY <1>6 DEF PageInv, TypeOK
<1>8. batch[b].answer \notin {"done", "failed"} /\ batch[b] # None
  BY <1>1, PageStored
<1> HIDE DEF x
<1>9. QED
  BY <1>1, <1>4, <1>5, <1>6, <1>7, <1>8, PageBatchChanges

LEMMA PageServerRunsJob ==
  ASSUME PageInv, NEW b \in Batches, NEW i \in Items, ServerRunsJob(b, i)
  PROVE  PageInv'
<1>1. batch[b] \in BatchSent /\ batch[b].kind \in Offered /\ batch[b] # None
  BY DEF PageInv, TypeOK, RequestsTakeAway, ServerRunsJob
<1> DEFINE x == [batch[b] EXCEPT !.jobs = batch[b].jobs \ {i}]
<1>2. /\ x \in BatchSent /\ x.kind \in Offered
      /\ x.answer = batch[b].answer /\ x.ids = batch[b].ids
  BY <1>1 DEF BatchSent
<1>3. batch' = [batch EXCEPT ![b] = x]
  BY DEF ServerRunsJob
<1>4. UNCHANGED <<view, rows, linkCount, selected, request, confirm, toast, timers, toasts, late>>
  BY DEF ServerRunsJob
<1>5. Home' = Home
  BY <1>4 DEF Home
<1>6. /\ server' \in [Items -> {"live", "trash", "purged"}]
      /\ \A j \in Items : server[j] # Home => server'[j] # Home
  <2>1. CASE Carried(batch[b].kind, {i})
    <3>1. {i} \in SUBSET Items
      OBVIOUS
    <3>2. QED
      BY <1>1, <1>4, <1>5, <2>1, <3>1, CarriedTakesAway DEF PageInv
  <2>2. CASE UNCHANGED server
    BY <2>2 DEF PageInv, TypeOK
  <2>3. QED
    BY <2>1, <2>2 DEF ServerRunsJob
<1> HIDE DEF x
<1>7. QED
  BY <1>1, <1>2, <1>3, <1>4, <1>6, PageBatchChanges

\* What goes with a batch was sent with it, or is late.
LEMMA PageBatchAnswered ==
  ASSUME PageInv, NEW b \in Batches, BatchAnswered(b)
  PROVE  PageInv'
<1>1. batch[b] \in BatchSent /\ batch[b].kind \in Offered /\ Out(b)
  BY DEF PageInv, TypeOK, RequestsTakeAway, BatchAnswered, Seen, Out
<1> DEFINE success == batch[b].answer = "ok"
           x == [batch[b] EXCEPT !.answer = IF success THEN "done" ELSE "failed"]
<1>2. /\ x \in BatchSent /\ x.kind \in Offered /\ x # None /\ x.ids = batch[b].ids
      /\ x.answer = IF success THEN "done" ELSE "failed"
  BY <1>1, PageStored DEF BatchSent
<1>3. batch' = [batch EXCEPT ![b] = x]
  BY DEF BatchAnswered, Seen
<1> HIDE DEF x
<1>4. /\ batch' \in [Batches -> BatchSent \cup {None}]
      /\ batch'[b] = x /\ \A d \in Batches \ {b} : batch'[d] = batch[d]
  BY <1>2, <1>3 DEF PageInv, TypeOK
<1>5. /\ UNCHANGED <<view, server, request, confirm>>
      /\ late' = IF \E d \in Batches \ {b} : Out(d) THEN late ELSE late \ rows'
  BY DEF BatchAnswered, Seen
<1>6. toast' \in Nat \cup {None} /\ timers' \subseteq 1..ToastTime /\ toasts' \in 0..MaxToasts
  BY PageAssumption DEF PageInv, TypeOK, BatchAnswered, Seen, ShowToast
<1>7. /\ rows' \subseteq Items /\ selected' \subseteq selected /\ linkCount' \in Int
      /\ linkCount' <= Cardinality(rows') /\ Cardinality(rows') \in Nat
      /\ IsFiniteSet(rows')
      /\ rows \ rows' \subseteq selected /\ (rows' # rows => success)
  <2>1. CASE success
    <3>1. rows' = rows \ selected /\ selected' = {}
          /\ linkCount' = linkCount - 2 * Cardinality(rows \cap selected)
      BY <2>1 DEF BatchAnswered, Seen
    <3>2. /\ Cardinality(rows \cap selected) \in Nat /\ Cardinality(rows) \in Nat
          /\ Cardinality(rows') = Cardinality(rows) - Cardinality(rows \cap selected)
      BY <3>1, RowsCount DEF PageInv
    <3>3. IsFiniteSet(rows')
      BY <3>1, RowsCount, FS_Subset DEF PageInv
    <3>4. Cardinality(rows') \in Nat
      BY <3>3, FS_CardinalityType
    <3>5. linkCount \in Int /\ linkCount <= Cardinality(rows) /\ rows \subseteq Items
      BY DEF PageInv, TypeOK, CountIsNotTooHigh
    <3>6. linkCount' \in Int /\ linkCount' <= Cardinality(rows')
      BY <3>1, <3>2, <3>5
    <3>7. QED
      BY <2>1, <3>1, <3>3, <3>4, <3>5, <3>6
  <2>2. CASE ~success
    BY <2>2, RowsCount DEF PageInv, TypeOK, CountIsNotTooHigh, BatchAnswered, Seen
  <2>3. QED
    BY <2>1, <2>2
<1>8. TypeOK'
  <2>1. selected' \subseteq Items /\ late' \subseteq Items
    BY <1>5, <1>7 DEF PageInv, TypeOK
  <2>2. QED
    BY <1>4, <1>5, <1>6, <1>7, <2>1 DEF PageInv, TypeOK
<1>9. CountIsNotTooHigh' /\ EmptyTableIsHidden'
  BY <1>7, FS_EmptySet DEF CountIsNotTooHigh, EmptyTableIsHidden
<1>10. GoneRowWasAskedFor'
  <2>1. SUFFICES ASSUME NEW i \in Items \ rows'
                 PROVE  \/ server[i] # Home
                        \/ \E d \in Batches : /\ batch'[d] # None /\ batch'[d].answer = "done"
                                               /\ i \in batch'[d].ids
                        \/ i \in late'
    BY <1>5 DEF GoneRowWasAskedFor, Home
  <2>2. i \in late => i \in late'
    BY <1>5, <2>1
  <2>3. CASE i \in rows
    <3>1. i \in selected /\ success
      BY <1>7, <2>1, <2>3
    <3>2. i \in batch[b].ids \cup late
      BY <1>1, <3>1 DEF PageInv, SelectedIsSent
    <3>3. QED
      BY <1>2, <1>4, <2>2, <3>1, <3>2
  <2>4. CASE i \notin rows
    <3>1. \A d \in Batches : batch[d] # None /\ batch[d].answer = "done" => batch'[d] = batch[d]
      BY <1>1, <1>4 DEF Out
    <3>2. QED
      BY <2>2, <2>4, <3>1 DEF PageInv, GoneRowWasAskedFor
  <2>5. QED
    BY <2>3, <2>4
<1>11. SelectedIsSent'
  <2>1. ASSUME NEW d \in Batches, batch'[d] # None, batch'[d].answer \notin {"done", "failed"}
        PROVE  selected' \subseteq batch'[d].ids \cup late'
    <3>1. d # b /\ Out(d) /\ batch'[d] = batch[d]
      BY <1>2, <1>4, <2>1 DEF Out
    <3>2. late' = late
      BY <1>5, <3>1
    <3>3. selected \subseteq batch[d].ids \cup late
      BY <3>1 DEF PageInv, SelectedIsSent
    <3>4. QED
      BY <1>7, <3>1, <3>2, <3>3
  <2>2. QED
    BY <2>1 DEF SelectedIsSent, Out
<1>12. RequestsTakeAway'
  <2>1. Home' = Home /\ Offered' = Offered
    BY <1>5 DEF Home, Offered
  <2>2. \A d \in Batches : batch'[d] # None => batch'[d].kind \in Offered
    BY <1>2, <1>4 DEF PageInv, RequestsTakeAway
  <2>3. QED
    BY <1>5, <2>1, <2>2 DEF PageInv, RequestsTakeAway
<1>13. QED
  BY <1>8, <1>9, <1>10, <1>11, <1>12 DEF PageInv

LEMMA PageStep ==
  ASSUME PageInv, Next
  PROVE  PageInv'
BY PageClickRow, PageServerAnswersRow, PageRowNetworkError, PageRowAnswered, PageTicks, PageAsks,
   PageToastGoes, PageHandleConfirm, PageServerQueues, PageServerRunsJob, PageBatchAnswered
   DEF Next

-----------------------------------------------------------------------------
(* The order of the accesses *)

\* R is an order of the finite set S.
Ordered(S, R) ==
  /\ IsFiniteSet(S) /\ R \subseteq S \X S
  /\ \A j, k \in S : j # k => (<<j, k>> \in R <=> <<k, j>> \notin R)
  /\ \A k \in S : <<k, k>> \notin R
  /\ \A i, j, k \in S : <<i, j>> \in R /\ <<j, k>> \in R => <<i, k>> \in R

\* The order of some of the entries, and with one more that comes last.
LEMMA OrderOfSome ==
  ASSUME NEW S, NEW R, Ordered(S, R), NEW T \in SUBSET S
  PROVE  Ordered(T, {p \in R : p[1] \in T /\ p[2] \in T})
<1> DEFINE Q == {p \in R : p[1] \in T /\ p[2] \in T}
<1>1. IsFiniteSet(T)
  BY FS_Subset DEF Ordered
<1>2. Q \subseteq T \X T
  BY DEF Ordered
<1>3. \A j, k \in T : <<j, k>> \in Q <=> <<j, k>> \in R
  OBVIOUS
<1> HIDE DEF Q
<1>4. QED
  BY <1>1, <1>2, <1>3 DEF Ordered, Q

LEMMA OrderWithLast ==
  ASSUME NEW T, NEW Q, Ordered(T, Q), NEW k, k \notin T
  PROVE  Ordered(T \cup {k}, Q \cup {<<j, k>> : j \in T})
<1> DEFINE U == T \cup {k}
           P == Q \cup {<<j, k>> : j \in T}
<1>1. IsFiniteSet(U)
  BY FS_AddElement DEF Ordered
<1>2. Q \subseteq T \X T
  BY DEF Ordered
<1>3. P \subseteq U \X U
  BY <1>2
<1>4. \A i, j \in T : <<i, j>> \in P <=> <<i, j>> \in Q
  OBVIOUS
<1>5. \A i \in T : <<i, k>> \in P
  OBVIOUS
<1>6. \A i \in U : <<k, i>> \notin P
  BY <1>2
<1>7. \A i, j \in T : i # j => (<<i, j>> \in Q <=> <<j, i>> \notin Q)
  BY DEF Ordered
<1>8. \A i \in T : <<i, i>> \notin Q
  BY DEF Ordered
<1>9. \A h, i, j \in T : <<h, i>> \in Q /\ <<i, j>> \in Q => <<h, j>> \in Q
  BY DEF Ordered
<1> HIDE DEF P
<1>10. \A i, j \in U : i # j => (<<i, j>> \in P <=> <<j, i>> \notin P)
  BY <1>4, <1>5, <1>6, <1>7
<1>11. \A i \in U : <<i, i>> \notin P
  BY <1>4, <1>6, <1>8
<1>12. \A h, i, j \in U : <<h, i>> \in P /\ <<i, j>> \in P => <<h, j>> \in P
  BY <1>4, <1>5, <1>6, <1>9
<1> HIDE DEF U
<1>13. QED
  BY <1>1, <1>3, <1>10, <1>11, <1>12 DEF Ordered, P, U

\* What is ordered, and is not empty, has a first one: the one with the fewest
\* before it.
LEMMA HasFirst ==
  ASSUME NEW S, NEW R, Ordered(S, R), S # {}
  PROVE  \E v \in S : \A j \in S \ {v} : <<v, j>> \in R
<1> DEFINE before(x) == {j \in S : <<j, x>> \in R}
           counts == {Cardinality(before(x)) : x \in S}
<1>1. \A x \in S : IsFiniteSet(before(x)) /\ Cardinality(before(x)) \in Nat
  <2>1. \A x \in S : before(x) \in SUBSET S
    OBVIOUS
  <2>2. \A x \in S : IsFiniteSet(before(x))
    BY <2>1, FS_Subset DEF Ordered
  <2>3. QED
    BY <2>2, FS_CardinalityType
<1>2. counts \subseteq Nat /\ counts # {}
  BY <1>1
<1>3. \E least \in counts : \A m \in counts : <<m, least>> \notin OpToRel(<, Nat)
  <2> HIDE DEF counts
  <2>1. QED
    BY <1>2, NatLessThanWellFounded, WFMin
<1>4. PICK v \in S : \A m \in counts : <<m, Cardinality(before(v))>> \notin OpToRel(<, Nat)
  BY <1>3
<1>5. \A x \in S : ~(Cardinality(before(x)) < Cardinality(before(v)))
  BY <1>1, <1>4 DEF OpToRel
<1>6. SUFFICES ASSUME NEW j \in S \ {v}, <<v, j>> \notin R
               PROVE  FALSE
  OBVIOUS
<1>7. <<j, v>> \in R /\ <<j, j>> \notin R
  BY <1>6 DEF Ordered
<1>8. before(j) \in SUBSET before(v) /\ before(j) # before(v)
  <2>1. \A i \in S : <<i, j>> \in R => <<i, v>> \in R
    BY <1>7 DEF Ordered
  <2>2. QED
    BY <1>7, <2>1
<1>9. Cardinality(before(j)) < Cardinality(before(v))
  <2> HIDE DEF before
  <2>1. /\ Cardinality(before(j)) <= Cardinality(before(v))
        /\ Cardinality(before(v)) = Cardinality(before(j)) => before(v) = before(j)
    BY <1>1, <1>8, FS_Subset
  <2>2. QED
    BY <1>1, <1>8, <2>1
<1>10. QED
  BY <1>5, <1>9

-----------------------------------------------------------------------------
(* What the invariant says of the values of the cache's variables *)

\* The keys of the entries in ch.
Held(ch) == {k \in Keys : ch[k] # None}

\* Each entry has the versions of the query's tags.
EntriesFit(ch) ==
  /\ ch \in [Keys -> Cache!Entry \cup {None}]
  /\ \A k \in Held(ch) : ch[k].value \in [TagsOf[k] -> 0..MaxWrites]

\* The entries were accessed in the order ol, and are not too many.
EntriesKept(ch, ol) == Ordered(Held(ch), ol) /\ Cardinality(Held(ch)) <= MaxSize

\* The index ix finds the entries in ch by each of their tags.
Indexed(ch, ix) ==
  /\ ix \in [Tags -> SUBSET Keys]
  /\ \A k \in Held(ch) : \A t \in TagsOf[k] : k \in ix[t]

\* The versions v that the query k saw are those of the data, or a writer is
\* still to invalidate, or has failed to, or an invalidation came between.
InTime(k, v, raced, data, writes, lost) ==
  \A t \in TagsOf[k] : v[t] < data[t] =>
    \/ raced
    \/ \E w \in Writers : writes[w] # None /\ writes[w].tag = t /\ v[t] < writes[w].version
    \/ v[t] < lost[t]

EntriesInTime(ch, data, writes, lost) ==
  \A k \in Held(ch) : InTime(k, ch[k].value, ch[k].raced, data, writes, lost)

CallFits(x) ==
  /\ x \in Cache!Query
  /\ x.phase # "idle" => x.key \in Keys
  /\ x.phase = "result" => x.value \in [TagsOf[x.key] -> 0..MaxWrites]

CallInTime(x, data, writes, lost) ==
  x.phase = "result" => InTime(x.key, x.value, x.raced, data, writes, lost)

CallsInTime(cl, data, writes, lost) ==
  /\ DOMAIN cl = Callers /\ cl = [c \in Callers |-> cl[c]]
  /\ \A c \in Callers : CallFits(cl[c]) /\ CallInTime(cl[c], data, writes, lost)

VersionsFit(data, writes, known, lost) ==
  /\ data \in [Tags -> 0..MaxWrites] /\ known \in [Tags -> 0..MaxWrites]
  /\ writes \in [Writers -> Cache!Written \cup {None}] /\ lost \in [Tags -> 0..MaxWrites]

\* The constants of the cache, and what null is not.
LEMMA CacheConstants ==
  /\ Ttl \in Nat \ {0} /\ MaxSize \in Nat \ {0} /\ MaxWrites \in Nat
  /\ TagsOf \in [Keys -> SUBSET Tags]
  /\ \A e \in Cache!Entry : e # None
  /\ \A x \in Cache!Written : x # None
BY CacheAssumption DEF Cache!CacheAssumption, Cache!NoneAssumption

\* The instance has its own Cardinality, which is the same.
LEMMA CacheSets ==
  ASSUME NEW S
  PROVE  /\ Cache!IsFiniteSet(S) <=> IsFiniteSet(S)
         /\ Cache!Cardinality(S) = Cardinality(S)
<1>1. Cache!IsFiniteSet(S) <=> IsFiniteSet(S)
  BY DEF Cache!IsFiniteSet, IsFiniteSet
<1>2. Cache!Cardinality(S) = Cardinality(S)
  BY DEF Cache!Cardinality, Cardinality
<1>3. QED
  BY <1>1, <1>2

\* The invariant of the cache in these terms, of a state and of the next.
LEMMA CacheMeans ==
  ASSUME Cache!CacheInv
  PROVE  /\ EntriesFit(cache) /\ EntriesKept(cache, older) /\ Indexed(cache, tagIndex)
         /\ EntriesInTime(cache, db, write, missed) /\ CallsInTime(call, db, write, missed)
         /\ VersionsFit(db, write, settled, missed)
<1>1. Cache!Cached = Held(cache)
  BY DEF Cache!Cached, Held
<1>2. EntriesFit(cache)
  BY <1>1 DEF Cache!CacheInv, Cache!TypeOK, EntriesFit
<1>3. EntriesKept(cache, older)
  <2>1. older \subseteq Cache!Cached \X Cache!Cached
    BY DEF Cache!CacheInv, Cache!TypeOK
  <2>2. Ordered(Cache!Cached, older)
    BY <2>1, CacheSets DEF Cache!CacheInv, Cache!AccessesAreOrdered, Ordered
  <2>3. Cardinality(Cache!Cached) <= MaxSize
    BY CacheSets DEF Cache!CacheInv, Cache!SizeIsBounded
  <2>4. QED
    BY <1>1, <2>2, <2>3 DEF EntriesKept
<1>4. Indexed(cache, tagIndex)
  BY <1>1 DEF Cache!CacheInv, Cache!TypeOK, Cache!EntriesAreIndexed, Indexed
<1>5. EntriesInTime(cache, db, write, missed)
  BY <1>1 DEF Cache!CacheInv, Cache!StaleForAReason, Cache!InTime, EntriesInTime, InTime
<1>6. CallsInTime(call, db, write, missed)
  <2>1. call \in [Callers -> Cache!Query]
    BY DEF Cache!CacheInv, Cache!TypeOK
  <2>2. \A c \in Callers : CallFits(call[c])
    BY <2>1 DEF Cache!CacheInv, Cache!TypeOK, CallFits
  <2>3. \A c \in Callers : CallInTime(call[c], db, write, missed)
    BY DEF Cache!CacheInv, Cache!ResultsAreStaleForAReason, Cache!InTime, CallInTime, InTime
  <2>4. QED
    BY <2>1, <2>2, <2>3 DEF CallsInTime
<1>7. VersionsFit(db, write, settled, missed)
  BY DEF Cache!CacheInv, Cache!TypeOK, VersionsFit
<1>8. QED
  BY <1>2, <1>3, <1>4, <1>5, <1>6, <1>7

LEMMA CacheHas ==
  ASSUME EntriesFit(cache'), EntriesKept(cache', older'), Indexed(cache', tagIndex'),
         EntriesInTime(cache', db', write', missed'), CallsInTime(call', db', write', missed'),
         VersionsFit(db', write', settled', missed')
  PROVE  Cache!CacheInv'
<1>1. Cache!Cached' = Held(cache')
  BY DEF Cache!Cached, Held
<1>2. Cache!TypeOK'
  <2>1. call' \in [Callers -> Cache!Query]
    BY DEF CallsInTime, CallFits
  <2>2. \A c \in Callers :
          /\ call'[c].phase # "idle" => call'[c].key \in Keys
          /\ call'[c].phase = "result" => call'[c].value \in [TagsOf[call'[c].key] -> 0..MaxWrites]
    BY DEF CallsInTime, CallFits
  <2>3. older' \subseteq Cache!Cached' \X Cache!Cached'
    BY <1>1 DEF EntriesKept, Ordered
  <2>4. /\ cache' \in [Keys -> Cache!Entry \cup {None}]
        /\ \A k \in Cache!Cached' : cache'[k].value \in [TagsOf[k] -> 0..MaxWrites]
    BY <1>1 DEF EntriesFit
  <2>5. QED
    BY <2>1, <2>2, <2>3, <2>4 DEF Cache!TypeOK, Indexed, VersionsFit
<1>3. Cache!EntriesAreIndexed'
  BY <1>1 DEF Cache!EntriesAreIndexed, Indexed
<1>4. Cache!SizeIsBounded' /\ Cache!AccessesAreOrdered'
  <2>1. Ordered(Cache!Cached', older') /\ Cardinality(Cache!Cached') <= MaxSize
    BY <1>1 DEF EntriesKept
  <2>2. Cache!AccessesAreOrdered'
    BY <2>1, CacheSets DEF Ordered, Cache!AccessesAreOrdered
  <2>3. QED
    BY <2>1, <2>2, CacheSets DEF Cache!SizeIsBounded
<1>5. Cache!StaleForAReason'
  BY <1>1 DEF Cache!StaleForAReason, Cache!InTime, EntriesInTime, InTime
<1>6. Cache!ResultsAreStaleForAReason'
  BY DEF Cache!ResultsAreStaleForAReason, Cache!InTime, CallsInTime, CallInTime, InTime
<1>7. QED
  BY <1>2, <1>3, <1>4, <1>5, <1>6 DEF Cache!CacheInv

LEMMA CacheStarts ==
  ASSUME Cache!Init
  PROVE  Cache!CacheInv
<1>1. cache = [k \in Keys |-> None] /\ older = {} /\ Cache!Cached = {}
  BY DEF Cache!Init, Cache!Cached
<1>2. Cache!TypeOK
  <2>1. call \in [Callers -> Cache!Query]
    BY DEF Cache!Init, Cache!Query
  <2>2. write \in [Writers -> Cache!Written \cup {None}]
    BY DEF Cache!Init
  <2>3. cache \in [Keys -> Cache!Entry \cup {None}]
    BY <1>1
  <2>4. db \in [Tags -> 0..MaxWrites] /\ settled \in [Tags -> 0..MaxWrites]
        /\ missed \in [Tags -> 0..MaxWrites]
    BY CacheConstants DEF Cache!Init
  <2>5. tagIndex \in [Tags -> SUBSET Keys]
    BY DEF Cache!Init
  <2>6. \A c \in Callers : call[c].phase = "idle"
    BY DEF Cache!Init
  <2>7. older \subseteq Cache!Cached \X Cache!Cached
        /\ \A k \in Cache!Cached : cache[k].value \in [TagsOf[k] -> 0..MaxWrites]
    BY <1>1
  <2>8. QED
    BY <2>1, <2>2, <2>3, <2>4, <2>5, <2>6, <2>7 DEF Cache!TypeOK
<1>3. Cache!EntriesAreIndexed /\ Cache!StaleForAReason
  BY <1>1 DEF Cache!EntriesAreIndexed, Cache!StaleForAReason
<1>4. Cache!SizeIsBounded /\ Cache!AccessesAreOrdered
  <2>1. IsFiniteSet(Cache!Cached) /\ Cardinality(Cache!Cached) = 0
    BY <1>1, FS_EmptySet
  <2>2. Cache!SizeIsBounded
    BY <2>1, CacheConstants, CacheSets DEF Cache!SizeIsBounded
  <2>3. Cache!AccessesAreOrdered
    BY <1>1, <2>1, CacheSets DEF Cache!AccessesAreOrdered
  <2>4. QED
    BY <2>2, <2>3
<1>5. Cache!ResultsAreStaleForAReason
  BY DEF Cache!Init, Cache!ResultsAreStaleForAReason
<1>6. QED
  BY <1>2, <1>3, <1>4, <1>5 DEF Cache!CacheInv

-----------------------------------------------------------------------------
(* The steps of the cache *)

\* What an operation that forgets some entries leaves.
LEMMA EntriesLess ==
  ASSUME Cache!CacheInv, NEW ks, Cache!Drop(ks)
  PROVE  /\ Held(cache') = Held(cache) \ ks
         /\ \A k \in Held(cache') : cache'[k] = cache[k]
         /\ EntriesFit(cache') /\ EntriesKept(cache', older')
<1>1. /\ cache' = [k \in Keys |-> IF k \in ks THEN None ELSE cache[k]]
      /\ older' = {p \in older : p[1] \in Held(cache) \ ks /\ p[2] \in Held(cache) \ ks}
  BY DEF Cache!Drop, Cache!Among, Cache!Cached, Held
<1>2. Held(cache') = Held(cache) \ ks
  BY <1>1 DEF Held
<1>3. \A k \in Held(cache') : cache'[k] = cache[k]
  BY <1>1, <1>2 DEF Held
<1>4. EntriesFit(cache')
  <2>1. cache' \in [Keys -> Cache!Entry \cup {None}]
    BY <1>1, CacheMeans DEF EntriesFit
  <2>2. QED
    BY <1>2, <1>3, <2>1, CacheMeans DEF EntriesFit
<1>5. Ordered(Held(cache'), older')
  <2>1. Ordered(Held(cache), older) /\ Held(cache) \ ks \in SUBSET Held(cache)
    BY CacheMeans DEF EntriesKept
  <2>2. QED
    BY <1>1, <1>2, <2>1, OrderOfSome
<1>6. Cardinality(Held(cache')) <= MaxSize
  <2>1. IsFiniteSet(Held(cache)) /\ Cardinality(Held(cache)) <= MaxSize
    BY CacheMeans DEF EntriesKept, Ordered
  <2>2. Held(cache') \in SUBSET Held(cache)
    BY <1>2
  <2>3. Cardinality(Held(cache')) <= Cardinality(Held(cache))
        /\ IsFiniteSet(Held(cache'))
    BY <2>1, <2>2, FS_Subset
  <2>4. Cardinality(Held(cache')) \in Nat /\ Cardinality(Held(cache)) \in Nat
    BY <2>1, <2>3, FS_CardinalityType
  <2>5. QED
    BY <2>1, <2>3, <2>4, CacheConstants
<1>7. QED
  BY <1>2, <1>3, <1>4, <1>5, <1>6 DEF EntriesKept

\* One call changes.
LEMMA CallChanges ==
  ASSUME Cache!CacheInv, NEW c \in Callers, NEW x, CallFits(x), CallInTime(x, db, write, missed),
         call' = [call EXCEPT ![c] = x]
  PROVE  CallsInTime(call', db, write, missed)
<1>1. call = [d \in Callers |-> call[d]] /\ DOMAIN call = Callers
      /\ \A d \in Callers : CallFits(call[d]) /\ CallInTime(call[d], db, write, missed)
  BY CacheMeans DEF CallsInTime
<1>2. DOMAIN call' = Callers /\ call' = [d \in Callers |-> call'[d]]
      /\ \A d \in Callers : call'[d] = IF d = c THEN x ELSE call[d]
  BY <1>1
<1>3. QED
  BY <1>1, <1>2 DEF CallsInTime

\* The result of a query has the versions of its tags, and fits a call.
LEMMA VersionsOfKey ==
  ASSUME NEW k \in Keys
  PROVE  /\ [TagsOf[k] -> 0..MaxWrites] \subseteq Cache!Versions
         /\ \A data \in [Tags -> 0..MaxWrites] :
              [t \in TagsOf[k] |-> data[t]] \in [TagsOf[k] -> 0..MaxWrites]
<1>1. TagsOf[k] \in SUBSET Tags
  BY CacheConstants
<1>2. QED
  BY <1>1 DEF Cache!Versions

\* A call starts: with an answer from the cache, or with a query.
LEMMA CacheQueryStep ==
  ASSUME Cache!CacheInv, NEW c \in Callers, NEW k \in Keys, Cache!CacheQuery(c, k)
  PROVE  Cache!CacheInv'
<1> DEFINE e == cache[k]
           floor == [t \in TagsOf[k] |-> settled[t]]
<1>1. floor \in Cache!Versions
  BY CacheMeans, VersionsOfKey DEF VersionsFit
<1>2. UNCHANGED <<db, tagIndex, write, settled, missed>>
  BY DEF Cache!CacheQuery
<1>3. CASE e # None /\ ~Cache!Expired(e)
  <2> DEFINE x == [phase |-> "idle", key |-> k, value |-> e.value, floor |-> floor, raced |-> FALSE]
  <2>1. call' = [call EXCEPT ![c] = x] /\ Cache!Touch(k) /\ UNCHANGED cache
    BY <1>3 DEF Cache!CacheQuery
  <2>2. k \in Held(cache)
    BY <1>3 DEF Held
  <2>3. e.value \in Cache!Versions
    BY <2>2, CacheMeans, VersionsOfKey DEF EntriesFit
  <2>4. CallFits(x) /\ CallInTime(x, db, write, missed)
    <3> HIDE DEF floor, e
    <3>1. QED
      BY <1>1, <2>3 DEF CallFits, CallInTime, Cache!Query
  <2>5. CallsInTime(call', db, write, missed)
    <3> HIDE DEF x
    <3>1. QED
      BY <2>1, <2>4, CallChanges
  <2>6. Ordered(Held(cache), older')
    <3> DEFINE T == Held(cache) \ {k}
               Q == {p \in older : p[1] \in T /\ p[2] \in T}
    <3>1. Ordered(T, Q)
      BY CacheMeans, OrderOfSome DEF EntriesKept
    <3>2. older' = Q \cup {<<j, k>> : j \in T}
      BY <2>1 DEF Cache!Touch, Cache!Last, Cache!Among, Cache!Cached, Held
    <3>3. T \cup {k} = Held(cache) /\ k \notin T
      BY <2>2
    <3> HIDE DEF T, Q
    <3>4. QED
      BY <3>1, <3>2, <3>3, OrderWithLast
  <2>7. QED
    BY <1>2, <2>1, <2>5, <2>6, CacheMeans, CacheHas DEF EntriesKept
<1>4. CASE ~(e # None /\ ~Cache!Expired(e))
  <2> DEFINE x == [phase |-> "query", key |-> k, value |-> None, floor |-> floor, raced |-> FALSE]
  <2>1. call' = [call EXCEPT ![c] = x] /\ Cache!Drop({k})
    BY <1>4 DEF Cache!CacheQuery
  <2>2. CallFits(x) /\ CallInTime(x, db, write, missed)
    <3> HIDE DEF floor
    <3>1. QED
      BY <1>1 DEF CallFits, CallInTime, Cache!Query
  <2>3. CallsInTime(call', db, write, missed)
    <3> HIDE DEF x
    <3>1. QED
      BY <2>1, <2>2, CallChanges
  <2>4. /\ Held(cache') = Held(cache) \ {k}
        /\ \A j \in Held(cache') : cache'[j] = cache[j]
        /\ EntriesFit(cache') /\ EntriesKept(cache', older')
    BY <2>1, EntriesLess
  <2>5. Indexed(cache', tagIndex')
    BY <1>2, <2>4, CacheMeans DEF Indexed
  <2>6. EntriesInTime(cache', db', write', missed')
    BY <1>2, <2>4, CacheMeans DEF EntriesInTime
  <2>7. QED
    BY <1>2, <2>3, <2>4, <2>5, <2>6, CacheMeans, CacheHas
<1>5. QED
  BY <1>3, <1>4

\* The database answers with what is there.
LEMMA QueryDoneStep ==
  ASSUME Cache!CacheInv, NEW c \in Callers, Cache!QueryDone(c)
  PROVE  Cache!CacheInv'
<1> DEFINE k == call[c].key
           v == [t \in TagsOf[k] |-> db[t]]
           x == [call[c] EXCEPT !.phase = "result", !.value = v]
<1>1. CallFits(call[c]) /\ call[c].phase = "query"
  BY CacheMeans DEF CallsInTime, Cache!QueryDone
<1>2. k \in Keys /\ call[c] \in Cache!Query
  BY <1>1 DEF CallFits
<1>3. v \in [TagsOf[k] -> 0..MaxWrites] /\ v \in Cache!Versions
  BY <1>2, CacheMeans, VersionsOfKey DEF VersionsFit
<1>4. call' = [call EXCEPT ![c] = x]
  BY DEF Cache!QueryDone, Cache!ResultOf
<1>5. x.phase = "result" /\ x.key = k /\ x.value = v /\ x \in Cache!Query
  <2> HIDE DEF v
  <2>1. QED
    BY <1>2, <1>3 DEF Cache!Query
<1>6. CallFits(x)
  <2> HIDE DEF x
  <2>1. QED
    BY <1>2, <1>3, <1>5 DEF CallFits
<1>7. CallInTime(x, db, write, missed)
  <2>1. \A t \in TagsOf[k] : v[t] = db[t] /\ db[t] \in 0..MaxWrites
    BY <1>2, CacheConstants, CacheMeans DEF VersionsFit
  <2>2. \A t \in TagsOf[k] : ~(v[t] < db[t])
    BY <2>1, CacheConstants
  <2> HIDE DEF x, v
  <2>3. QED
    BY <1>5, <2>2 DEF CallInTime, InTime
<1>8. UNCHANGED <<db, cache, older, tagIndex, write, settled, missed>>
  BY DEF Cache!QueryDone
<1> HIDE DEF x
<1>9. QED
  BY <1>4, <1>6, <1>7, <1>8, CallChanges, CacheMeans, CacheHas

LEMMA QueryFailsStep ==
  ASSUME Cache!CacheInv, NEW c \in Callers, Cache!QueryFails(c)
  PROVE  Cache!CacheInv'
<1> DEFINE x == [call[c] EXCEPT !.phase = "idle"]
<1>1. CallFits(call[c])
  BY CacheMeans DEF CallsInTime
<1>2. CallFits(x) /\ CallInTime(x, db, write, missed)
  BY <1>1 DEF CallFits, CallInTime, Cache!Query
<1>3. call' = [call EXCEPT ![c] = x] /\ UNCHANGED <<db, cache, older, tagIndex, write, settled, missed>>
  BY DEF Cache!QueryFails
<1> HIDE DEF x
<1>4. QED
  BY <1>2, <1>3, CallChanges, CacheMeans, CacheHas

\* A full cache has an entry to give up: what is left and the new entry are not
\* too many.
LEMMA RoomIsMade ==
  ASSUME Cache!CacheInv, NEW k
  PROVE  Cardinality((Held(cache) \ Cache!Victims) \cup {k}) <= MaxSize
<1> DEFINE H == Held(cache)
           rest == H \ Cache!Victims
<1>1. /\ Ordered(H, older) /\ IsFiniteSet(H) /\ Cardinality(H) <= MaxSize
      /\ Cache!Cached = H /\ Cardinality(H) \in Nat
  BY CacheMeans, FS_CardinalityType DEF EntriesKept, Ordered, Held, Cache!Cached
<1>2. IsFiniteSet(rest) /\ Cardinality(rest) \in Nat /\ Cardinality(rest) <= Cardinality(H)
  BY <1>1, FS_Subset, FS_CardinalityType
<1>3. Cardinality(rest) < MaxSize
  <2>1. CASE Cardinality(H) < MaxSize
    BY <1>1, <1>2, <2>1, CacheConstants
  <2>2. CASE ~(Cardinality(H) < MaxSize)
    <3>1. Cardinality(H) = MaxSize /\ MaxSize # 0
      BY <1>1, <2>2, CacheConstants
    <3>2. H # {}
      BY <3>1, FS_EmptySet
    <3>3. PICK v \in H : \A j \in H \ {v} : <<v, j>> \in older
      BY <1>1, <3>2, HasFirst
    <3>4. v \in Cache!Victims
      BY <1>1, <2>2, <3>3, CacheSets DEF Cache!Victims
    <3>5. rest \in SUBSET H /\ rest # H
      BY <3>3, <3>4
    <3> HIDE DEF rest, H
    <3>6. Cardinality(rest) # Cardinality(H)
      BY <1>1, <3>5, FS_Subset
    <3>7. QED
      BY <1>1, <1>2, <3>1, <3>6
  <2>3. QED
    BY <2>1, <2>2
<1> HIDE DEF rest
<1>4. Cardinality(rest \cup {k}) <= Cardinality(rest) + 1
  <2>1. Cardinality(rest \cup {k}) = IF k \in rest THEN Cardinality(rest) ELSE Cardinality(rest) + 1
    BY <1>2, FS_AddElement
  <2>2. QED
    BY <1>2, <2>1
<1>5. IsFiniteSet(rest \cup {k}) /\ Cardinality(rest \cup {k}) \in Nat
  BY <1>2, FS_AddElement, FS_CardinalityType
<1>6. Cardinality(rest \cup {k}) <= MaxSize
  BY <1>2, <1>3, <1>4, <1>5, CacheConstants
<1>7. QED
  BY <1>6 DEF rest

\* The result is stored, as old as it was when the query was answered.
LEMMA StoreResultStep ==
  ASSUME Cache!CacheInv, NEW c \in Callers, Cache!StoreResult(c)
  PROVE  Cache!CacheInv'
<1> DEFINE k == call[c].key
           gone == Cache!Victims
           new == [value |-> call[c].value, age |-> 0, raced |-> call[c].raced]
           x == [call[c] EXCEPT !.phase = "idle"]
<1>1. /\ CallFits(call[c]) /\ CallInTime(call[c], db, write, missed) /\ call[c].phase = "result"
      /\ k \in Keys /\ call[c] \in Cache!Query /\ call[c].value \in [TagsOf[k] -> 0..MaxWrites]
  BY CacheMeans DEF CallsInTime, CallFits, Cache!StoreResult
<1>2. UNCHANGED <<db, write, settled, missed>> /\ call' = [call EXCEPT ![c] = x]
  BY DEF Cache!StoreResult
<1>3. /\ cache' = [j \in Keys |-> IF j = k THEN new ELSE IF j \in gone THEN None ELSE cache[j]]
      /\ older' = Cache!Last(k, Cache!Cached \ gone)
      /\ tagIndex' = [t \in Tags |-> IF t \in TagsOf[k] THEN Cache!Del(gone, tagIndex)[t] \cup {k}
                                     ELSE Cache!Del(gone, tagIndex)[t]]
  BY DEF Cache!StoreResult, Cache!Set
<1>4. new \in Cache!Entry /\ new # None /\ new.value = call[c].value /\ new.raced = call[c].raced
  <2>1. call[c].value \in Cache!Versions /\ call[c].raced \in BOOLEAN
    BY <1>1, VersionsOfKey DEF Cache!Query
  <2>2. new \in Cache!Entry
    BY <2>1 DEF Cache!Entry
  <2>3. QED
    BY <2>2, CacheConstants
<1> HIDE DEF new
<1>5. /\ Held(cache') = (Held(cache) \ gone) \cup {k}
      /\ cache'[k] = new
      /\ \A j \in Held(cache') \ {k} : j \in Held(cache) \ gone /\ cache'[j] = cache[j]
  BY <1>1, <1>3, <1>4 DEF Held
<1>6. EntriesFit(cache')
  <2>1. cache' \in [Keys -> Cache!Entry \cup {None}]
    BY <1>3, <1>4, CacheMeans DEF EntriesFit
  <2>2. \A j \in Held(cache') : cache'[j].value \in [TagsOf[j] -> 0..MaxWrites]
    BY <1>1, <1>4, <1>5, CacheMeans DEF EntriesFit
  <2>3. QED
    BY <2>1, <2>2 DEF EntriesFit
<1>7. EntriesKept(cache', older')
  <2> DEFINE T == (Held(cache) \ gone) \ {k}
             Q == {p \in older : p[1] \in T /\ p[2] \in T}
  <2>1. Ordered(T, Q)
    <3>1. T \in SUBSET Held(cache)
      OBVIOUS
    <3>2. QED
      BY <3>1, CacheMeans, OrderOfSome DEF EntriesKept
  <2>2. older' = Q \cup {<<j, k>> : j \in T}
    BY <1>3 DEF Cache!Last, Cache!Among, Cache!Cached, Held
  <2>3. T \cup {k} = Held(cache') /\ k \notin T
    BY <1>5
  <2> HIDE DEF T, Q
  <2>4. Ordered(Held(cache'), older')
    BY <2>1, <2>2, <2>3, OrderWithLast
  <2>5. Cardinality(Held(cache')) <= MaxSize
    BY <1>5, RoomIsMade
  <2>6. QED
    BY <2>4, <2>5 DEF EntriesKept
<1>8. Indexed(cache', tagIndex')
  <2> DEFINE index == Cache!Del(gone, tagIndex)
  <2>1. index \in [Tags -> SUBSET Keys]
        /\ \A t \in Tags : \A j \in tagIndex[t] \ gone : j \in index[t]
    BY CacheMeans DEF Indexed, Cache!Del
  <2>2. tagIndex' = [t \in Tags |-> IF t \in TagsOf[k] THEN index[t] \cup {k} ELSE index[t]]
    BY <1>3
  <2> HIDE DEF index
  <2>3. tagIndex' \in [Tags -> SUBSET Keys]
    BY <1>1, <2>1, <2>2
  <2>4. ASSUME NEW j \in Held(cache'), NEW t \in TagsOf[j]
        PROVE  j \in tagIndex'[t]
    <3>1. j \in Keys /\ t \in Tags
      BY CacheConstants DEF Held
    <3>2. CASE j = k
      BY <2>2, <2>4, <3>1, <3>2
    <3>3. CASE j # k
      <4>1. j \in tagIndex[t] \ gone
        BY <1>5, <3>3, CacheMeans DEF Indexed
      <4>2. j \in index[t]
        BY <2>1, <3>1, <4>1
      <4>3. QED
        BY <2>2, <3>1, <4>2
    <3>4. QED
      BY <3>2, <3>3
  <2>5. QED
    BY <2>3, <2>4 DEF Indexed
<1>9. EntriesInTime(cache', db', write', missed')
  <2>1. InTime(k, new.value, new.raced, db, write, missed)
    BY <1>1, <1>4 DEF CallInTime
  <2>2. \A j \in Held(cache') : InTime(j, cache'[j].value, cache'[j].raced, db, write, missed)
    BY <1>5, <2>1, CacheMeans DEF EntriesInTime
  <2>3. QED
    BY <1>2, <2>2 DEF EntriesInTime
<1>10. CallsInTime(call', db', write', missed')
  <2>1. CallFits(x) /\ CallInTime(x, db, write, missed)
    BY <1>1 DEF CallFits, CallInTime, Cache!Query
  <2> HIDE DEF x
  <2>2. QED
    BY <1>2, <2>1, CallChanges
<1>11. VersionsFit(db', write', settled', missed')
  BY <1>2, CacheMeans
<1>12. QED
  BY <1>6, <1>7, <1>8, <1>9, <1>10, <1>11, CacheHas

\* A write makes out of date only what its writer is still to invalidate.
LEMMA WriteInTime ==
  ASSUME Cache!CacheInv, NEW w \in Writers, NEW t \in Tags, Cache!Write(w, t),
         NEW k \in Keys, NEW v, NEW raced, InTime(k, v, raced, db, write, missed)
  PROVE  InTime(k, v, raced, db', write', missed')
<1>1. /\ write[w] = None
      /\ \A u \in Tags \ {t} : db'[u] = db[u]
      /\ \A o \in Writers \ {w} : write'[o] = write[o]
      /\ write'[w].tag = t /\ write'[w] # None
  <2> DEFINE y == [tag |-> t, version |-> db[t] + 1]
  <2>1. write[w] = None /\ db[t] < MaxWrites /\ db' = [db EXCEPT ![t] = @ + 1]
        /\ write' = [write EXCEPT ![w] = y]
    BY DEF Cache!Write
  <2>2. db[t] + 1 \in 0..MaxWrites
    BY <2>1, CacheMeans, CacheConstants DEF VersionsFit
  <2>3. y # None /\ y.tag = t
    BY <2>2, CacheConstants DEF Cache!Written
  <2> HIDE DEF y
  <2>4. QED
    BY <2>1, <2>3, CacheMeans DEF VersionsFit
<1>2. db'[t] = write'[w].version /\ missed' = missed
  <2>1. db' = [db EXCEPT ![t] = @ + 1] /\ missed' = missed
        /\ write' = [write EXCEPT ![w] = [tag |-> t, version |-> db[t] + 1]]
    BY DEF Cache!Write
  <2>2. QED
    BY <2>1, CacheMeans DEF VersionsFit
<1>3. ASSUME NEW u \in TagsOf[k], v[u] < db'[u], ~raced, ~(v[u] < missed'[u])
      PROVE  \E o \in Writers : write'[o] # None /\ write'[o].tag = u /\ v[u] < write'[o].version
  <2>1. u \in Tags
    BY CacheConstants
  <2>2. CASE u = t
    BY <1>1, <1>2, <1>3, <2>2
  <2>3. CASE u # t
    <3>1. PICK o \in Writers : write[o] # None /\ write[o].tag = u /\ v[u] < write[o].version
      BY <1>1, <1>2, <1>3, <2>1, <2>3 DEF InTime
    <3>2. write'[o] = write[o]
      BY <1>1, <3>1
    <3>3. QED
      BY <3>1, <3>2
  <2>4. QED
    BY <2>2, <2>3
<1>4. QED
  BY <1>3 DEF InTime

LEMMA WriteStep ==
  ASSUME Cache!CacheInv, NEW w \in Writers, NEW t \in Tags, Cache!Write(w, t)
  PROVE  Cache!CacheInv'
<1>1. UNCHANGED <<cache, older, tagIndex, call, settled, missed>>
  BY DEF Cache!Write
<1>2. EntriesInTime(cache', db', write', missed')
  BY <1>1, WriteInTime, CacheMeans DEF EntriesInTime, Held
<1>3. CallsInTime(call', db', write', missed')
  <2>1. \A c \in Callers : CallFits(call[c]) /\ CallInTime(call[c], db, write, missed)
    BY CacheMeans DEF CallsInTime
  <2>2. ASSUME NEW c \in Callers, call[c].phase = "result"
        PROVE  InTime(call[c].key, call[c].value, call[c].raced, db', write', missed')
    <3>1. call[c].key \in Keys
      BY <2>1, <2>2 DEF CallFits
    <3>2. InTime(call[c].key, call[c].value, call[c].raced, db, write, missed)
      BY <2>1, <2>2 DEF CallInTime
    <3>3. QED
      BY <3>1, <3>2, WriteInTime
  <2>3. QED
    BY <1>1, <2>1, <2>2, CacheMeans DEF CallsInTime, CallInTime
<1>4. VersionsFit(db', write', settled', missed')
  <2> DEFINE y == [tag |-> t, version |-> db[t] + 1]
  <2>1. db[t] < MaxWrites /\ db' = [db EXCEPT ![t] = @ + 1] /\ write' = [write EXCEPT ![w] = y]
    BY DEF Cache!Write
  <2>2. db[t] + 1 \in 0..MaxWrites
    BY <2>1, CacheMeans, CacheConstants DEF VersionsFit
  <2>3. y \in Cache!Written
    BY <2>2 DEF Cache!Written
  <2> HIDE DEF y
  <2>4. QED
    BY <1>1, <2>1, <2>2, <2>3, CacheMeans DEF VersionsFit
<1>5. QED
  BY <1>1, <1>2, <1>3, <1>4, CacheMeans, CacheHas

\* An invalidation settles what has none of its tag no more than the others.
LEMMA InvalidateInTime ==
  ASSUME Cache!CacheInv, NEW w \in Writers, Cache!Invalidate(w),
         NEW k \in Keys, NEW v, NEW raced, InTime(k, v, raced, db, write, missed),
         write[w].tag \notin TagsOf[k]
  PROVE  InTime(k, v, raced, db', write', missed')
<1>1. db' = db /\ missed' = missed /\ write' = [write EXCEPT ![w] = None]
  BY DEF Cache!Invalidate
<1>2. \A o \in Writers \ {w} : write'[o] = write[o]
  BY <1>1, CacheMeans DEF VersionsFit
<1>3. QED
  BY <1>1, <1>2 DEF InTime

\* What has the tag goes, or is marked if it is still to be stored.
LEMMA InvalidateStep ==
  ASSUME Cache!CacheInv, NEW w \in Writers, Cache!Invalidate(w)
  PROVE  Cache!CacheInv'
<1> DEFINE t == write[w].tag
<1>1. write[w] \in Cache!Written /\ t \in Tags /\ write[w].version \in 0..MaxWrites
  BY CacheMeans DEF VersionsFit, Cache!Invalidate, Cache!Written
<1>2. /\ Cache!Drop(tagIndex[t]) /\ tagIndex' = [tagIndex EXCEPT ![t] = {}]
      /\ write' = [write EXCEPT ![w] = None] /\ db' = db /\ missed' = missed
      /\ settled' = [settled EXCEPT ![t] = Cache!Later(@, write[w].version)]
      /\ call' = [c \in Callers |-> IF call[c].phase = "result" /\ t \in TagsOf[call[c].key]
                                    THEN [call[c] EXCEPT !.raced = TRUE] ELSE call[c]]
  BY DEF Cache!Invalidate, Cache!InvalidateByTag
<1>3. /\ Held(cache') = Held(cache) \ tagIndex[t]
      /\ \A k \in Held(cache') : cache'[k] = cache[k]
      /\ EntriesFit(cache') /\ EntriesKept(cache', older')
  BY <1>2, EntriesLess
<1>4. \A k \in Held(cache') : k \in Held(cache) /\ k \in Keys /\ t \notin TagsOf[k]
  BY <1>3, CacheMeans DEF Indexed, Held
<1>5. Indexed(cache', tagIndex')
  <2>1. tagIndex' \in [Tags -> SUBSET Keys] /\ \A u \in Tags \ {t} : tagIndex'[u] = tagIndex[u]
    BY <1>1, <1>2, CacheMeans DEF Indexed
  <2>2. ASSUME NEW k \in Held(cache'), NEW u \in TagsOf[k]
        PROVE  k \in tagIndex'[u]
    <3>1. u \in Tags \ {t} /\ k \in Held(cache)
      BY <1>4, CacheConstants
    <3>2. QED
      BY <2>1, <3>1, CacheMeans DEF Indexed
  <2>3. QED
    BY <2>1, <2>2 DEF Indexed
<1>6. EntriesInTime(cache', db', write', missed')
  <2>1. ASSUME NEW k \in Held(cache')
        PROVE  InTime(k, cache'[k].value, cache'[k].raced, db', write', missed')
    <3>1. InTime(k, cache[k].value, cache[k].raced, db, write, missed)
      BY <1>4, CacheMeans DEF EntriesInTime
    <3>2. QED
      BY <1>3, <1>4, <3>1, InvalidateInTime
  <2>2. QED
    BY <2>1 DEF EntriesInTime
<1>7. CallsInTime(call', db', write', missed')
  <2>1. ASSUME NEW c \in Callers
        PROVE  CallFits(call'[c]) /\ CallInTime(call'[c], db', write', missed')
    <3>1. CallFits(call[c]) /\ CallInTime(call[c], db, write, missed)
      BY CacheMeans DEF CallsInTime
    <3>2. CASE call[c].phase = "result" /\ t \in TagsOf[call[c].key]
      <4> DEFINE x == [call[c] EXCEPT !.raced = TRUE]
      <4>1. call'[c] = x
        BY <1>2, <3>2
      <4>2. /\ x \in Cache!Query /\ x.phase = call[c].phase /\ x.key = call[c].key
            /\ x.value = call[c].value /\ x.raced = TRUE
        BY <3>1 DEF CallFits, Cache!Query
      <4> HIDE DEF x
      <4>3. QED
        BY <3>1, <4>1, <4>2 DEF CallFits, CallInTime, InTime
    <3>3. CASE ~(call[c].phase = "result" /\ t \in TagsOf[call[c].key])
      <4>1. call'[c] = call[c]
        BY <1>2, <3>3
      <4>2. ASSUME call[c].phase = "result"
            PROVE  InTime(call[c].key, call[c].value, call[c].raced, db', write', missed')
        BY <3>1, <3>3, <4>2, InvalidateInTime DEF CallFits, CallInTime
      <4>3. QED
        BY <3>1, <4>1, <4>2 DEF CallInTime
    <3>4. QED
      BY <3>2, <3>3
  <2>2. DOMAIN call' = Callers /\ call' = [c \in Callers |-> call'[c]]
    BY <1>2
  <2>3. QED
    BY <2>1, <2>2 DEF CallsInTime
<1>8. VersionsFit(db', write', settled', missed')
  <2>1. settled' \in [Tags -> 0..MaxWrites]
    BY <1>1, <1>2, CacheMeans DEF VersionsFit, Cache!Later
  <2>2. write' \in [Writers -> Cache!Written \cup {None}]
    BY <1>2, CacheMeans DEF VersionsFit
  <2>3. QED
    BY <1>2, <2>1, <2>2, CacheMeans DEF VersionsFit
<1>9. QED
  BY <1>3, <1>5, <1>6, <1>7, <1>8, CacheHas

\* What was waiting for a writer that fails is missed.
LEMMA MissedInTime ==
  ASSUME Cache!CacheInv, NEW w \in Writers, Cache!FailsToInvalidate(w), NEW k \in Keys,
         NEW v \in [TagsOf[k] -> 0..MaxWrites], NEW raced, InTime(k, v, raced, db, write, missed)
  PROVE  InTime(k, v, raced, db', write', missed')
<1>1. /\ write[w] \in Cache!Written
      /\ missed' = [missed EXCEPT ![write[w].tag] = Cache!Later(@, write[w].version)]
      /\ write' = [write EXCEPT ![w] = None] /\ db' = db
  BY CacheMeans DEF VersionsFit, Cache!FailsToInvalidate
<1>2. \A o \in Writers \ {w} : write'[o] = write[o]
  BY <1>1, CacheMeans DEF VersionsFit
<1>3. ASSUME NEW u \in TagsOf[k]
      PROVE  /\ v[u] < missed[u] => v[u] < missed'[u]
             /\ write[w].tag = u /\ v[u] < write[w].version => v[u] < missed'[u]
  <2>1. u \in Tags /\ v[u] \in 0..MaxWrites /\ missed[u] \in 0..MaxWrites
        /\ write[w].version \in 0..MaxWrites
    BY <1>1, CacheConstants, CacheMeans DEF VersionsFit, Cache!Written
  <2>2. missed'[u] = IF write[w].tag = u THEN Cache!Later(missed[u], write[w].version)
                     ELSE missed[u]
    BY <1>1, <2>1, CacheMeans DEF VersionsFit
  <2>3. QED
    BY <2>1, <2>2 DEF Cache!Later
<1>4. QED
  BY <1>1, <1>2, <1>3 DEF InTime

LEMMA FailsToInvalidateStep ==
  ASSUME Cache!CacheInv, NEW w \in Writers, Cache!FailsToInvalidate(w)
  PROVE  Cache!CacheInv'
<1>1. UNCHANGED <<db, cache, older, tagIndex, call, settled>>
  BY DEF Cache!FailsToInvalidate
<1>2. EntriesInTime(cache', db', write', missed')
  <2>1. \A k \in Held(cache) : k \in Keys /\ cache[k].value \in [TagsOf[k] -> 0..MaxWrites]
    BY CacheMeans DEF EntriesFit, Held
  <2>2. QED
    BY <1>1, <2>1, MissedInTime, CacheMeans DEF EntriesInTime
<1>3. CallsInTime(call', db', write', missed')
  <2>1. \A c \in Callers : CallFits(call[c]) /\ CallInTime(call[c], db, write, missed)
    BY CacheMeans DEF CallsInTime
  <2>2. ASSUME NEW c \in Callers, call[c].phase = "result"
        PROVE  InTime(call[c].key, call[c].value, call[c].raced, db', write', missed')
    <3>1. call[c].key \in Keys /\ call[c].value \in [TagsOf[call[c].key] -> 0..MaxWrites]
      BY <2>1, <2>2 DEF CallFits
    <3>2. InTime(call[c].key, call[c].value, call[c].raced, db, write, missed)
      BY <2>1, <2>2 DEF CallInTime
    <3>3. QED
      BY <3>1, <3>2, MissedInTime
  <2>3. QED
    BY <1>1, <2>1, <2>2, CacheMeans DEF CallsInTime, CallInTime
<1>4. VersionsFit(db', write', settled', missed')
  <2>1. /\ write[w] \in Cache!Written
        /\ missed' = [missed EXCEPT ![write[w].tag] = Cache!Later(@, write[w].version)]
        /\ write' = [write EXCEPT ![w] = None]
    BY CacheMeans DEF VersionsFit, Cache!FailsToInvalidate
  <2>2. write[w].version \in 0..MaxWrites
    BY <2>1 DEF Cache!Written
  <2>3. missed' \in [Tags -> 0..MaxWrites]
    BY <2>1, <2>2, CacheMeans DEF VersionsFit, Cache!Later
  <2>4. write' \in [Writers -> Cache!Written \cup {None}]
    BY <2>1, CacheMeans DEF VersionsFit
  <2>5. QED
    BY <1>1, <2>3, <2>4, CacheMeans DEF VersionsFit
<1>5. QED
  BY <1>1, <1>2, <1>3, <1>4, CacheMeans, CacheHas

LEMMA CleanupStep ==
  ASSUME Cache!CacheInv, Cache!Cleanup
  PROVE  Cache!CacheInv'
<1> DEFINE old == {k \in Cache!Cached : Cache!Expired(cache[k])}
<1>1. /\ Cache!Drop(old) /\ tagIndex' = Cache!Del(old, tagIndex)
      /\ UNCHANGED <<db, call, write, settled, missed>>
  BY DEF Cache!Cleanup
<1> HIDE DEF old
<1>2. /\ Held(cache') = Held(cache) \ old
      /\ \A k \in Held(cache') : cache'[k] = cache[k]
      /\ EntriesFit(cache') /\ EntriesKept(cache', older')
  BY <1>1, EntriesLess
<1>3. Indexed(cache', tagIndex')
  <2>1. tagIndex' \in [Tags -> SUBSET Keys]
        /\ \A u \in Tags : \A k \in tagIndex[u] \ old : k \in tagIndex'[u]
    BY <1>1, CacheMeans DEF Indexed, Cache!Del
  <2>2. \A k \in Held(cache') : \A u \in TagsOf[k] : u \in Tags /\ k \in tagIndex[u] \ old
    BY <1>2, CacheMeans, CacheConstants DEF Indexed, Held
  <2>3. QED
    BY <2>1, <2>2 DEF Indexed
<1>4. EntriesInTime(cache', db', write', missed')
  BY <1>1, <1>2, CacheMeans DEF EntriesInTime
<1>5. QED
  BY <1>1, <1>2, <1>3, <1>4, CacheMeans, CacheHas

\* An entry gets older, which changes nothing but its age.
LEMMA CacheTickStep ==
  ASSUME Cache!CacheInv, Cache!Tick
  PROVE  Cache!CacheInv'
<1>1. UNCHANGED <<db, older, tagIndex, call, write, settled, missed>>
  BY DEF Cache!Tick
<1>2. /\ DOMAIN cache' = Keys /\ cache' = [k \in Keys |-> cache'[k]]
      /\ \A k \in Keys : \/ cache'[k] = cache[k]
                         \/ /\ cache[k] # None
                            /\ cache'[k] = [cache[k] EXCEPT !.age = @ + 1]
  BY DEF Cache!Tick
<1>3. ASSUME NEW k \in Keys
      PROVE  \/ cache[k] = None /\ cache'[k] = None
             \/ /\ cache[k] # None /\ cache'[k] # None /\ cache'[k] \in Cache!Entry
                /\ cache'[k].value = cache[k].value /\ cache'[k].raced = cache[k].raced
  <2>1. cache[k] \in Cache!Entry \cup {None}
    BY CacheMeans DEF EntriesFit
  <2>2. CASE cache'[k] = cache[k]
    BY <2>1, <2>2
  <2>3. CASE cache[k] # None /\ cache'[k] = [cache[k] EXCEPT !.age = @ + 1]
    <3>1. /\ cache'[k] \in Cache!Entry
          /\ cache'[k].value = cache[k].value /\ cache'[k].raced = cache[k].raced
      BY <2>1, <2>3 DEF Cache!Entry
    <3>2. QED
      BY <2>3, <3>1, CacheConstants
  <2>4. QED
    BY <1>2, <2>2, <2>3
<1>4. Held(cache') = Held(cache)
  BY <1>3 DEF Held
<1>5. EntriesFit(cache')
  <2>1. \A k \in Keys : cache'[k] \in Cache!Entry \cup {None}
    BY <1>3
  <2>2. cache' \in [Keys -> Cache!Entry \cup {None}]
    BY <1>2, <2>1
  <2>3. \A k \in Held(cache') : cache'[k].value = cache[k].value
    BY <1>3 DEF Held
  <2>4. QED
    BY <1>4, <2>2, <2>3, CacheMeans DEF EntriesFit
<1>6. EntriesInTime(cache', db', write', missed')
  <2>1. \A k \in Held(cache') : cache'[k].value = cache[k].value /\ cache'[k].raced = cache[k].raced
    BY <1>3 DEF Held
  <2>2. QED
    BY <1>1, <1>4, <2>1, CacheMeans DEF EntriesInTime
<1>7. QED
  BY <1>1, <1>4, <1>5, <1>6, CacheMeans, CacheHas DEF EntriesKept, Indexed

LEMMA CacheStep ==
  ASSUME Cache!CacheInv, Cache!Next
  PROVE  Cache!CacheInv'
BY CacheQueryStep, QueryDoneStep, QueryFailsStep, StoreResultStep, WriteStep, InvalidateStep,
   FailsToInvalidateStep, CleanupStep, CacheTickStep DEF Cache!Next

LEMMA CacheRests ==
  ASSUME Cache!CacheInv, UNCHANGED cacheVars
  PROVE  Cache!CacheInv'
<1>1. UNCHANGED <<db, cache, older, tagIndex, call, write, settled, missed>>
  BY DEF cacheVars
<1>2. QED
  BY <1>1, CacheMeans, CacheHas

LEMMA PageStutters ==
  ASSUME PageInv, UNCHANGED vars
  PROVE  PageInv'
<1>1. UNCHANGED <<view, server, rows, linkCount, selected, request, batch, confirm, toast,
                  timers, toasts, late>>
  BY DEF vars
<1>2. TypeOK'
  BY <1>1 DEF PageInv, TypeOK
<1>3. confirm' # None => confirm' \in Offered
  BY <1>1 DEF PageInv, RequestsTakeAway
<1>4. QED
  BY <1>1, <1>2, <1>3, PageRests, SelectionStays

-----------------------------------------------------------------------------
(* The theorem *)

\* A row goes from the page only if its link is no longer where the page lists it, or
\* with a batch that was sent for it and answered ok, or if it was ticked while a batch
\* was out; the table is hidden when it is empty.  An entry of the cache is found by the
\* invalidation of each of its tags, is out of date only if that has not come or has come
\* too early, and the entries are never too many.
THEOREM DashboardIsSound == DashboardSpec => []DashboardInv
<1>1. DashboardInit => DashboardInv
  BY PageStart, CacheStarts DEF DashboardInit, DashboardInv
<1>2. DashboardInv /\ [DashboardNext]_<<vars, cacheVars, part>> => DashboardInv'
  <2>1. SUFFICES ASSUME DashboardInv, [DashboardNext]_<<vars, cacheVars, part>>
                 PROVE  DashboardInv'
    OBVIOUS
  <2>2. CASE Next /\ UNCHANGED cacheVars
    BY <2>1, <2>2, PageStep, CacheRests DEF DashboardInv
  <2>3. CASE Cache!Next /\ UNCHANGED vars
    BY <2>1, <2>3, CacheStep, PageStutters DEF DashboardInv
  <2>4. CASE UNCHANGED <<vars, cacheVars>>
    BY <2>1, <2>4, CacheRests, PageStutters DEF DashboardInv
  <2>5. QED
    BY <2>1, <2>2, <2>3, <2>4 DEF DashboardNext
<1>3. QED
  BY <1>1, <1>2, PTL DEF DashboardSpec
=============================================================================
