------------------------------ MODULE AdminPage ------------------------------
(***************************************************************************)
(* The list of links and the trash can in the browser                      *)
(* (public/js/admin-components.js, in views/admin/list.ejs and trash.ejs): *)
(* each row has its buttons, and a selection of rows its batch buttons, a  *)
(* confirmation dialog and a toast.  All of them talk to the server at the *)
(* same time; a batch is queued there and carried out later.               *)
(***************************************************************************)
EXTENDS Integers, FiniteSets

CONSTANTS
  Items,
  Batches,      \* ids of the batch requests
  None,
  ToastTime,    \* 4 seconds
  MaxToasts,    \* bound: toasts shown
  MaxBusy       \* bound: rows whose requests are out at once

ASSUME PageAssumption ==
  /\ ToastTime \in Nat \ {0} /\ MaxToasts \in Nat /\ MaxBusy \in Nat
  /\ IsFiniteSet(Items)

\* The actions, the request of a row, and that of a batch.
Kinds == {"delete", "restore", "purge"}
RowRequest == [kind : Kinds, answer : {None, "ok", "error"}]
BatchSent == [kind : Kinds, ids : SUBSET Items, jobs : SUBSET Items,
              answer : {None, "ok", "error", "done", "failed"}]

\* null is no request, no dialog, no answer and no toast.
ASSUME PageNoneAssumption ==
  None \notin RowRequest \cup BatchSent \cup Kinds \cup Nat \cup {"ok", "error", "done", "failed"}

VARIABLES
  view,      \* list or trash
  server,    \* where the links are: live, trash or purged
  rows,      \* the rows on the page
  linkCount,
  selected,  \* selectedIds
  request,   \* the request of a row's button, None if it is not busy
  batch,     \* the batch requests
  confirm,   \* the dialog: the action it will take, or None
  toast,     \* how long the toast has been shown, or None
  timers,    \* when the timers of the toasts will run
  toasts,
  late       \* history: rows that were ticked while a batch was out, and are so or gone

vars == <<view, server, rows, linkCount, selected, request, batch, confirm, toast, timers,
          toasts, late>>

Offered == IF view = "list" THEN {"delete"} ELSE {"restore", "purge"}

-----------------------------------------------------------------------------
(* The server *)

Applies(kind, i) ==
  CASE kind = "delete" -> server[i] = "live"
    [] kind = "restore" -> server[i] # "purged"
    [] OTHER -> server[i] # "purged"

Outcome(kind) ==
  CASE kind = "delete" -> "trash" [] kind = "restore" -> "live" [] OTHER -> "purged"

Carried(kind, ids) ==
  server' = [i \in Items |-> IF i \in ids /\ Applies(kind, i) THEN Outcome(kind) ELSE server[i]]

-----------------------------------------------------------------------------
(* listItem and trashItem *)

\* The button is disabled while a request is out; "delete" and "purge" were
\* confirmed in the row.  A dialog covers the page.
ClickRow(i, kind) ==
  /\ i \in rows /\ request[i] = None /\ confirm = None
  /\ Cardinality({j \in Items : request[j] # None}) < MaxBusy
  /\ kind \in Offered
  /\ request' = [request EXCEPT ![i] = [kind |-> kind, answer |-> None]]
  /\ UNCHANGED <<view, server, rows, linkCount, selected, batch, confirm, toast, timers, toasts, late>>

\* The server carries the request out, or refuses it.
ServerAnswersRow(i) ==
  /\ request[i] # None /\ request[i].answer = None
  /\ \/ /\ Applies(request[i].kind, i)
        /\ Carried(request[i].kind, {i})
        /\ request' = [request EXCEPT ![i].answer = "ok"]
     \/ /\ request' = [request EXCEPT ![i].answer = "error"]
        /\ UNCHANGED server
  /\ UNCHANGED <<view, rows, linkCount, selected, batch, confirm, toast, timers, toasts, late>>

\* The answer is lost on the way, the request perhaps as well.
RowNetworkError(i) ==
  /\ request[i] # None /\ request[i].answer \in {None, "ok"}
  /\ request' = [request EXCEPT ![i].answer = "error"]
  /\ UNCHANGED <<view, server, rows, linkCount, selected, batch, confirm, toast, timers, toasts, late>>

\* The page has one handler for the events that rows and batches dispatch, and
\* it counts down.
RowGone(ids) ==
  /\ rows' = rows \ ids
  /\ linkCount' = linkCount - Cardinality(rows \cap ids)

\* Mutant: the button stays disabled after an error.
MutRowAnswered(i) ==
  /\ request[i] # None /\ request[i].answer = "ok"
  /\ request' = [request EXCEPT ![i] = None]
  /\ RowGone({i})
  /\ UNCHANGED <<view, server, selected, batch, confirm, toast, timers, toasts, late>>

\* The row goes, but not the id in selectedIds; or the button is enabled again.
RowAnswered(i) ==
  /\ request[i] # None /\ request[i].answer # None
  /\ request' = [request EXCEPT ![i] = None]
  /\ IF request[i].answer = "ok" THEN RowGone({i}) ELSE UNCHANGED <<rows, linkCount>>
  /\ UNCHANGED <<view, server, selected, batch, confirm, toast, timers, toasts, late>>

-----------------------------------------------------------------------------
(* batchOperations *)

\* A batch request whose answer has not come.
Out(b) == batch[b] # None /\ batch[b].answer \notin {"done", "failed"}

\* A row that is ticked while a batch is out is late, until it is unticked.
Selects(some) ==
  /\ selected' = some
  /\ late' = (late \ rows) \cup (late \cap some) \cup
             (IF \E b \in Batches : Out(b) THEN some \ selected ELSE {})
  /\ UNCHANGED <<view, server, rows, linkCount, request, batch, confirm, toast, timers, toasts>>

\* A check box of a row, or the one of the header.
ToggleSelection(i) ==
  /\ i \in rows /\ confirm = None
  /\ Selects(IF i \in selected THEN selected \ {i} ELSE selected \cup {i})

ToggleAll(checked) ==
  /\ rows # {} /\ confirm = None
  /\ Selects(IF checked THEN rows ELSE {})

ClearSelection ==
  /\ selected # {} /\ confirm = None
  /\ Selects({})

\* batchDelete, batchRestore and batchForceDelete open the dialog.
AskForBatch(kind) ==
  /\ kind \in Offered /\ selected # {} /\ confirm = None
  /\ confirm' = kind
  /\ UNCHANGED <<view, server, rows, linkCount, selected, request, batch, toast, timers, toasts, late>>

\* A confirmed action sends what is selected at this moment.
HandleConfirm(b, confirmed) ==
  /\ confirm # None /\ batch[b] = None
  /\ batch' = IF confirmed THEN [batch EXCEPT ![b] =
                    [kind |-> confirm, ids |-> selected, jobs |-> {}, answer |-> None]]
              ELSE batch
  /\ confirm' = None
  /\ UNCHANGED <<view, server, rows, linkCount, selected, request, toast, timers, toasts, late>>

\* The server adds one job per link and says ok, whichever it could not add; an empty
\* list is refused, and an answer may be lost.
ServerQueues(b) ==
  /\ batch[b] # None /\ batch[b].answer = None
  /\ \E jobs \in SUBSET batch[b].ids, answer \in {"ok", "error"} :
       /\ answer = "ok" => batch[b].ids # {}
       /\ batch' = [batch EXCEPT ![b] = [@ EXCEPT !.jobs = jobs, !.answer = answer]]
  /\ UNCHANGED <<view, server, rows, linkCount, selected, request, confirm, toast, timers, toasts,
                 late>>

\* The job of one link does its work, or is given up.
ServerRunsJob(b, i) ==
  /\ batch[b] # None /\ i \in batch[b].jobs
  /\ Carried(batch[b].kind, {i}) \/ UNCHANGED server
  /\ batch' = [batch EXCEPT ![b] = [@ EXCEPT !.jobs = batch[b].jobs \ {i}]]
  /\ UNCHANGED <<view, rows, linkCount, selected, request, confirm, toast, timers, toasts, late>>

\* Every toast has its own timer, and none stops the one before.
ShowToast ==
  /\ toasts < MaxToasts /\ toasts' = toasts + 1
  /\ toast' = 0
  /\ timers' = timers \cup {ToastTime}

\* The page has seen the answer, and what it makes of the rows.
Seen(b, success) ==
  /\ batch[b] # None /\ batch[b].answer \in {"ok", "error"}
  /\ batch' = [batch EXCEPT ![b].answer = IF @ = "ok" THEN "done" ELSE "failed"]
  /\ ShowToast
  /\ IF success
     THEN /\ rows' = rows \ selected
          /\ linkCount' = linkCount - 2 * Cardinality(rows \cap selected)
          /\ selected' = {}
     ELSE UNCHANGED <<rows, linkCount, selected>>
  /\ late' = IF \E d \in Batches \ {b} : Out(d) THEN late ELSE late \ rows'
  /\ UNCHANGED <<view, server, request, confirm>>

\* Mutant: the rows go whatever the answer is.
MutBatchAnswered(b) == Seen(b, TRUE)

\* On success the rows that are selected by now go, each counted by the handler of
\* its event and by the loop itself, and the selection is cleared.
BatchAnswered(b) == Seen(b, batch[b].answer = "ok")

CloseToast ==
  /\ toast # None /\ toast' = None
  /\ UNCHANGED <<view, server, rows, linkCount, selected, request, batch, confirm, timers, toasts, late>>

\* Time passes; a timer that is due hides the toast, whichever it is.
Tick ==
  /\ timers # {}
  /\ timers' = {n - 1 : n \in timers} \ {0}
  /\ toast' = IF 1 \in timers \/ toast = None THEN None ELSE toast + 1
  /\ UNCHANGED <<view, server, rows, linkCount, selected, request, batch, confirm, toasts, late>>

-----------------------------------------------------------------------------
(* Specification *)

Init ==
  /\ view \in {"list", "trash"}
  /\ server = [i \in Items |-> IF view = "list" THEN "live" ELSE "trash"]
  /\ rows = Items /\ linkCount = Cardinality(Items)
  /\ selected = {}
  /\ request = [i \in Items |-> None]
  /\ batch = [b \in Batches |-> None]
  /\ confirm = None
  /\ toast = None /\ timers = {} /\ toasts = 0
  /\ late = {}

Next ==
  \/ \E i \in Items :
       \/ \E kind \in Kinds : ClickRow(i, kind)
       \/ ServerAnswersRow(i) \/ RowNetworkError(i) \/ RowAnswered(i)
       \/ ToggleSelection(i)
  \/ \E checked \in BOOLEAN : ToggleAll(checked)
  \/ ClearSelection
  \/ \E kind \in Kinds : AskForBatch(kind)
  \/ \E b \in Batches :
       \/ \E confirmed \in BOOLEAN : HandleConfirm(b, confirmed)
       \/ ServerQueues(b) \/ BatchAnswered(b)
       \/ \E i \in Items : ServerRunsJob(b, i)
  \/ CloseToast \/ Tick

Spec == Init /\ [][Next]_vars

\* The browser runs timers and continuations; the server, or the network, answers.
FairSpec ==
  /\ Spec
  /\ WF_vars(Tick)
  /\ \A i \in Items : WF_vars(ServerAnswersRow(i) \/ RowAnswered(i))

-----------------------------------------------------------------------------
(* Properties *)

\* Where the links are that the page lists.
Home == IF view = "list" THEN "live" ELSE "trash"

\* Every variable has its type.
TypeOK ==
  /\ view \in {"list", "trash"}
  /\ server \in [Items -> {"live", "trash", "purged"}]
  /\ rows \subseteq Items /\ selected \subseteq Items
  /\ linkCount \in Int
  /\ request \in [Items -> RowRequest \cup {None}]
  /\ batch \in [Batches -> BatchSent \cup {None}]
  /\ confirm \in Kinds \cup {None}
  /\ toast \in Nat \cup {None} /\ timers \subseteq 1..ToastTime
  /\ toasts \in 0..MaxToasts
  /\ late \subseteq Items

\* An empty table is never shown: x-show="linkCount > 0".
EmptyTableIsHidden == rows = {} => linkCount <= 0

\* A row leaves the page when its link has left the place that the page lists, or with a
\* batch that was sent for it and answered ok.  The one exception is a row that was
\* ticked while a batch was out: it goes with the rows of that batch, unasked.
GoneRowWasAskedFor ==
  \A i \in Items \ rows :
    \/ server[i] # Home
    \/ \E b \in Batches : batch[b] # None /\ batch[b].answer = "done" /\ i \in batch[b].ids
    \/ i \in late

\* Why: while a batch is out, what is selected was sent with it or ticked since.
SelectedIsSent == \A b \in Batches : Out(b) => selected \subseteq batch[b].ids \cup late

\* The count is never more than the rows there are: it may be counted down twice.
CountIsNotTooHigh == linkCount <= Cardinality(rows)

\* Whatever the page asks for takes a link away from where the page lists it, and
\* a row is told so only when that has happened.
RequestsTakeAway ==
  /\ confirm # None => confirm \in Offered
  /\ \A b \in Batches : batch[b] # None => batch[b].kind \in Offered
  /\ \A i \in Items : request[i] # None =>
       request[i].kind \in Offered /\ (request[i].answer = "ok" => server[i] # Home)

\* The inductive invariant of the page.
PageInv ==
  /\ TypeOK /\ EmptyTableIsHidden /\ GoneRowWasAskedFor
  /\ SelectedIsSent /\ CountIsNotTooHigh /\ RequestsTakeAway

\* The buttons of a row come back, or the row goes, whatever the answer was.
RowIsFreed(i) == request[i] # None ~> request[i] = None

\* A toast goes by itself.
ToastHides == toast # None ~> toast = None

\* views/admin/list.ejs:258 "No Downloads Found", trash.ejs:173 "Trash is Empty":
\* shown when linkCount is 0, which means that the page has no row.
EmptyMeansEmpty == linkCount = 0 => rows = {}

\* public/js/admin-components.js:430 "Remove deleted rows from DOM": what a batch
\* removes from the page it was sent for.
RemovedWasSent ==
  [][\A b \in Batches, i \in Items :
       /\ batch[b] # None /\ batch[b].answer = "ok" /\ batch'[b].answer = "done"
       /\ i \in rows \ rows'
       => i \in batch[b].ids]_vars

\* public/js/admin-components.js:330 "Auto-hide after 4 seconds": no toast is
\* hidden earlier by a timer.
ToastLastsItsTime == [][timers # timers' /\ toast # None /\ toast' = None => toast + 1 >= ToastTime]_vars

\* readme.md:55 "Admins can restore files deleted by mistake": a link that was
\* restored, and whose row is gone, this page does not ask to purge.
RestoredStaysRestored ==
  [][\A b \in Batches, i \in Items :
       /\ batch[b] = None /\ batch'[b] # None
       /\ batch'[b].kind = "purge" /\ i \in batch'[b].ids
       => server[i] # "live" \/ i \in rows]_vars
=============================================================================
