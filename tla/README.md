# TempDownloads: a verification project

TempDownloads is a Node/Express server that hands out temporary download links.
An administrator uploads a file, creates a link to it with an expiry, and later
edits, trashes, restores or purges the link; visitors download the file until the
link expires, is removed, or burns after its first download. A cron job collects
what has expired.

The server is one Node process: JavaScript runs one callback at a time, so code is
atomic between two `await`s and interleaves with everything else at each of them.
Nearly all that is hard about this code happens there. The models split a function
exactly at the awaits at which the world can change.

## Inventory

| component | state it keeps | what makes it correct | module |
|---|---|---|---|
| Link lifecycle (`services/linkService.js`, `repositories/linkRepository.js`, `db/transaction.js`) | rows of `links`; files in storage | a live link has its file; nothing goes without a reason, nothing comes back; no file is left that nobody can reach, but for four known reasons; what is due goes | LinkLifecycle, LinkPromise, LeftFiles |
| Cleanup cron (`jobs/scheduler.js`) | what each run has in hand | runs that overlap delete only what is doomed, and leave nothing due | LinkLifecycle, CleanupOverlap |
| Lists, statistics, presenters (`linkRepository.js`, `linkPresenter.js`, `adminViewController.js`) | none | a walk through pages shows each row once; counts, when they are made, filters, badges and the collector agree, but for the moment of an expiry | LinkList |
| Link settings (`schemas/appSchemas.js`, create and update of `linkService.js`, `views/admin/edit.ejs`) | forms in browsers | an edit does what was chosen; an address stays | LinkEdit |
| Uploads (`uploadService.js`, `LocalStorageStrategy.js`, `fileUploader` of `public/js/admin-components.js`) | forms, files being written | a link has all of the file it names; no stored file is left without a link or a reason | UploadForm |
| File types (`middleware/fileValidation.js`, `utils/fileValidation.js`, `utils/filePreview.js`) | four tables | they agree about a file on its way | FileTypes |
| Download, burn, preview (`publicController.js`, `previewController.js`, `utils/encryption.js`) | sessions, tokens, burn jobs | a burn link goes once it was read, unless its job is lost, and nothing else does | BurnOnRead |
| Stream pipes (`utils/streamHelper.js`, `getStream`) | listeners, a timer, a settled flag | settles once, or the process ends; a finished response is whole | StreamPipe |
| In-memory job queue (`jobs/jobQueue.js`) | three arrays, active jobs, dead letters, flags | a job is in one place, tried its number of times, in order, under the limit, and ends | JobQueue, JobLoop, JobPromise |
| BullMQ queue and fallback (`jobs/bullQueue.js`) | Redis queues, handler registry, fallback reference | each queue keeps the same promise; no job runs in both | BullQueue |
| Batch operations (`batchService.js`, `batchJobHandlers.js`) | none of its own | a retried job has no second effect; what a job says at its end is true; no row is purged before its file | BatchOperations |
| Idempotency, deduplication, timeout (`middleware/*.js`) | answers and requests in flight, timers | answers are true, one to each client; everyone is answered; a key is remembered once its handler has ended | RequestGuards, AnswerPromise |
| Start and shutdown (`server.js`, `db/database.js`) | server, database, timers | no client that waits finds the database closed; a shutdown ends | Server |
| Query cache (`utils/queryCache.js`) | entries, tags, LRU order | bounded; entries within reach of their tags; what is stale is so for a reason, and goes | QueryCache |
| Admin pages (`public/js/admin-components.js`) | rows, selection, dialog, toasts | no row goes unasked, but one that was ticked while a batch was out; nothing stays busy | AdminPage |
| Users, login, password reset (`authService.js`, `userService.js`, `passwordResetService.js`, controllers) | users, sessions, tokens | passwords and roles change by right only | Accounts |
| Preferences (`userPreferenceService.js`, repository, controller) | rows per user and key | a save skips no field | Preferences |

How they interact. Controllers and batch job handlers call the link service; the
scheduler calls `processCleanup` and, through a job queue, `permanentlyDeleteLink`
and `storageService.delete`; the collector queues `file_deletion` jobs on the memory
queue directly, whichever queue the rest of the server uses. The table and the
storage are shared by all of them and tied together by no transaction. What must
survive a restart is the table, the storage and, with BullMQ, Redis; memory queues,
caches, guards and calls do not.

What is hard: two calls on one link; a collector that works for minutes from a list
it read at first, beside a second one; storage deletions that fail silently; a
transaction that fails after a file is gone; restarts between a file and its row;
retries of what was already done; timers that act on an entry somebody else has
replaced; pages in a browser that act on what they showed a while ago. `PROJECT.json`
lists each hazard at its line.

## How the modules fit together

`JobQueue` implements `JobPromise` (`KeepsPromise`), and `BullQueue` implements it twice,
for the jobs in Redis and for those in memory (`QueuesKeepPromise`). `LinkLifecycle`
implements `LinkPromise`, with one cleanup run and with the two of `CleanupOverlap`
(`KeepsLinkPromise`); `RequestGuards` implements `AnswerPromise` (`KeepsAnswerPromise`).
`JobLoop` EXTENDS `JobQueue` with the loop turn by turn. `BatchOperations`
EXTENDS `BullQueue`: each of its steps is a step of the queue together with what the
batch service or a handler does. `CleanupOverlap` EXTENDS `LinkLifecycle` and
instantiates it a second time for the collector that runs beside the first; `LeftFiles`
EXTENDS it with a record of two accidents.

Some components share no state with one another. Five MC modules check two of them
in one run: the module extends one component, instantiates the other, and a
variable `part`, chosen in the initial state, says which of the two a behaviour is
about while the other rests; `MCTransfers` has two such pairs, and a run for each.
The states of such a run are the sum of the two components' states and not their
product, which would show nothing more.

| MC module | checks |
|---|---|
| `MCLinkLifecycle`, `MCLeftFiles`, `MCCleanupOverlap`, `MCBatchOperations` | the module of that name |
| `MCJobQueue` | JobQueue and JobLoop |
| `MCTransfers` | BurnOnRead, StreamPipe; UploadForm, FileTypes |
| `MCRequests` | RequestGuards, Server |
| `MCMyLinks` | LinkList, LinkEdit |
| `MCDashboard` | AdminPage, QueryCache |
| `MCUsers` | Accounts, Preferences |

An invariant of such a run (`DownloadsInv`, `RequestsInv`, ...) is the conjunction of the
components' named invariants. The module of a component also states what a comment or
the readme says of it and TLC refutes; see *Disagreements*.

What is configuration in the code and changes the control (`config.enabled`, the
storage provider, whether requests get to a service through its routes) is a variable
that the initial state chooses and no step changes, so that one run covers both.


## The modules

### LinkLifecycle

| variable | in the code |
|---|---|
| `links` | table `links`, reduced to `filename`, `expires_at` and `deleted_at`; 0 is null |
| `files` | what the storage provider holds |
| `issued` | keys `generateStorageKey` has returned (they contain a uuid and are never issued twice) |
| `uploads` | keys a browser has uploaded and not submitted |
| `nextLink` | ids in the order of `created_at`, which `findGarbage` sorts by |
| `request` | per client, the call under way: where it awaits and the values it read before (`link`, `oldStorageKey`, `fileStub`, `expiryTimestamp`) |
| `gc` | the local variables of the `processCleanup` under way: `cutoffDate`, `totalGarbage`, `offset`, the batch, which files are done, which rows failed |
| `deletions` | `file_deletion` jobs in the memory queue |
| `now` | `Date.now()` in coarse ticks |
| `faults` | how many more faults the environment may inject |
| `doomed` | history: links that were due at some moment or whose purge was asked for |
| `replaced` | history: keys that took part in a replacement |

Each service function is an action that reads the row (with the code's 404 as its
guard) and one action per later await: `CreateLink`, then `InsertLink` or
`InsertFails` and `CleanupUpload`; `UpdateLink`, `WriteUpdate`, `UnlinkOld`;
`TrashLink`, `WriteTrash`; `RestoreLink`, `WriteRestore`; `PurgeLink`, `PurgeFile`,
`PurgeRow`. `TransactionFails` is any of their transactions rejecting.
`processCleanup` is `GcStart` (cutoff and count), `GcSelect` (one page), `GcUnlink`
for each file, `GcDeleteRows`, or `GcDeleteRowsFails` and the row by row fallback
`GcDeleteRow`, `GcDeleteRowFails`, then `GcQueueRetries`. The chunks of ten parallel
deletions are not kept: the files of a batch are deleted in any order, which allows
more interleavings than the code has. `DeleteFile` is `storageService.delete`: when the
provider fails it answers false, every caller goes on as if it had worked.

A call that finds no row has no effect and is left out, except an update that brings
a file (`UpdateNotFound`): its upload stays in storage with nobody to name it. A key is
submitted once, as the browser code does; the memory queue runs `file_deletion` jobs in
any order, with a handler (the server without BullMQ).

### LinkPromise

What the owner of a link sees of all that: a link is *new*, *kept*, *condemned* (due at some
moment, or asked to be purged) or *gone*, and serves a file, or none once it has lost it; an
upload waits for a link, or is spent. `Phase`, `Content` and `UploadStage` map the state of
`LinkLifecycle` to it. A kept link never loses its file and is condemned only in a step
after which it is due or its purge was asked for; a file goes to one link, once; what is
gone stays gone.

### LeftFiles

No code compares the storage with the table, so a file without a row stays for ever. `left`
is history: the keys that were left behind, each recorded at the step that does it.
`Refused`: storage answers false to a deletion, and nobody looks. `CutOff`: a restart ends
a call with an upload, or with an old file, in its hands. `Unwritten`: an update finds no link, no
row when it comes to write, or its transaction fails; `updateLink` has no compensation, as
`createLink` has. `Overtaken`: an update, a purge or a run has read a row, another
update has given the row a new file since, and the first now deletes the row, or gives it a
third file. `LeftForAReason` says that these are all.

### CleanupOverlap

node-cron starts a run every fifteen minutes and asks nothing about the run before.
`other` is the local state of a second run; `Beside` is `LinkLifecycle` with `gc <- other`, so
that both runs take the same steps on the same table and storage. `StartBeside` is the
tick of the cron while a run is under way; a run goes on, whether or not the other
has ended. A restart ends both, and what follows begins with one run: it is an action of
`LinkLifecycle` only.

### LinkList

A service call of `LinkLifecycle` is one step here, and a cleanup two: `SelectGarbage`, and later
`DeleteSelected`, which deletes by id those of its rows whose files could be deleted, whatever
has become of them. What is split besides is the reading. A page
is two queries (`FindRows`, `CountRows`) that run beside each other, and the pages of a
walk are separate requests (`Open`, `NextPage`); rows of the same millisecond come in any
order (`Orders`). `HasStatus`, `Listed`, `InTrash`, `Stats`, `IsExpired`, `DaysUntilPurge`
and `Garbage` are the six places that compare an expiry, each with its own `<` or `<=`.
`Stats` is what the service counts; for how long it keeps the counts is `QueryCache`'s subject.
`maker` is history: the user who created a link. Pages are walked forward.

### LinkEdit

One link, edited from several tabs. A tab opens with what the row has (`Open`), is
submitted some time later with every choice the form offers (`Submit`, with
`ParseExpiry` and the normalisation of `schemas/appSchemas.js`), and its request reads
the row (`ReadLink`) and, after a password hash, writes (`WriteLink`). A date is picked as a
wall-clock time and parsed in the server's zone, in which it is another moment, `ZoneShift` later. The flag for
burning is left out: it is copied and nothing is decided from it.

### UploadForm

`form` is the Alpine state of each page (`stage`, the file, the name taken at submission, the
key, the checksum); `store` what was ever written under each key, with its state
(`writing`, `cut`, `whole`, `deleted`, or `left` whole by a deletion that failed) and the secret it was written with; `rows` the
links. `Submit` asks for an intent, `IntentAnswered` begins to send, `ReceiveBytes` is one
unit of the body, `UploadAnswered` and `UploadRefused` the two ends of the pipeline,
`LinkCreated`, or `CreateRefused` and then `CleanupUpload`, are those of `createLink`; `ReadLink`,
`WriteLink` and `UnlinkOld` are the steps of `updateLink`, with the old key it read in `old`, and
`UpdateRefused` its failure before the commit. `Delete` is the storage's deletion, which may
answer false of the keys in `Stuck`.
`ChooseFile` is possible at any moment, since the input is never disabled. A
`NetworkError` and a `Restart` cut what is under way; locally nobody learns of that. An error of the network while `createLink` or `updateLink` deletes
is taken to be heard before or after. With
cloud storage the browser sends to the provider, which neither checks nor limits.

### FileTypes

A file is a name's extension, a declared type, its first bytes and a size; the tables
are those of the code, whole. `ValidateFileMetadata`, `ValidateFileConsistency`,
`ValidateBuffer` and `Preview` are the four places that ask them.

### BurnOnRead

`tokens` are the encrypted download tokens, with the expiry the link had then; `dl` the
downloads (`StartDownload`, `OpenFile`, `StreamEnds` whole or cut, `QueueBurn`), `job`
their burn jobs. `queue` says where `AddJob` puts one: in Redis, in memory, or, after one add
to Redis has failed, in the fallback, which has no handlers; Redis may have stored that one all the
same. A job looks the link up, fails when it is gone, deletes the file (`BurnFile`; storage may
refuse, `file` is then `left`) and then the row (`BurnRow`), and is retried up to the
limit of the queue. `BurnDropped` is the memory queue without a handler, be it the fallback, or before
`Register`. A `Restart` keeps the jobs that are in Redis, finds those under way stalled, and
loses the others, and those that a download had still to queue. `reads` counts
how often the content was given out. Counters of downloads and views are single increments and left out.

### StreamPipe

The file, the decipher, the verifier (when the link has a checksum) and the response,
each with the events it can emit, in any order the streams allow, and
`pipeWithErrorHandling`'s flag, timer, listeners and promise. `unhandled` says that an error
event found no listener: it is an uncaught exception, and `gracefulShutdown` has begun, which
waits for this very response and after half the time of the pipe's timer ends the process
(`ForceExit`, `exited`). The one may still come before the other: the pipe began earlier.

### JobQueue and JobPromise

| variable | in the code |
|---|---|
| `handlers` | keys of `jobHandlers` |
| `job` | the job objects: `type`, `priority`, `max` (`maxRetries`), `retries` (`retryCount`), `wait` (what is left until `processAfter`), `pushed` (the place in its array) |
| `queues` | the three arrays, as sets: `pushed` gives the order, which `splice` does not disturb |
| `active`, `failedJobs` | `activeJobs`, `failedJobs` |
| `isProcessing`, `isShuttingDown` | the flags |
| `sleep` | what is left of the loop's `setTimeout` |
| `shutdown`, `patience` | the call of `shutdown` and what is left of its timeout |
| `completed`, `tries`, `pushes` | history: done jobs, starts of each job, pushes so far |

Between two sleeps `processLoop` never awaits: it takes jobs, and starts each
without awaiting it, until nothing is due or every place is taken. One round is
therefore one step, `RunLoop`, run by `Poll` when the timer fires and by `AddJob` when it
starts the loop. `Taken` says which jobs a round takes without going through them one
by one; `TakenIsTheLoop` compares it, in every reachable state, with the loop of `JobLoop`, where
each `Turn` is `getNextJob`, the splice and the start of one job, and `Turns` is a recursive
function. `Succeed` and `Fail` are the two ends of the handler's
promise; `Fail` includes the retry and the `TypeError` of a priority without an array.
`Shutdown` and `ShutdownReturns` are the two sides of the wait. There is no restart: the
queue lives in memory and dies with the process.

`JobPromise` knows of each job only its phase, its limit of tries and its tries.
`KeepsPromise` is its specification under the mapping `Phase`, `Limit`, `tries`.

### BullQueue and BatchOperations

`setting` is `config.enabled` with the budget of faults and crashes. `jobHandlers`,
`workers`, `queues`, `fallback` and `memHandlers` are the module variables of
`bullQueue.js` and the registry of the memory queue; `bull` and `mem` are the two copies a
job may have, for an add that seemed to fail can have been stored. `Register` may fail for
the types that a worker of Redis cannot be made for. `Stall` is BullMQ finding the
lock of a dead process (external, like its attempts and its priorities). `CloseWorker`,
`WorkerClosed` and `CloseQueues` are the steps of `shutdown`.

`BatchOperations` adds the requests (`request`: one `addJob` per link), the handlers, the links (`row`,
`file`) and the synchronous call (`sync`: one link after the other, counted). A handler's `step`
is its lookup, that of the service, for a force delete the deletion of the file, and the transaction;
each may throw, but the deletion, whose failure is caught and leaves the file. A try that
throws at its transaction has deleted the file. The synchronous call takes the same steps. `Owned` are the links in the scope of
the session. The branch of `batchService.js` that falls back to a synchronous call is
left out: `addJob` never throws.

### RequestGuards

Requests are numbered in the order of their arrival. `phase` says whether a request is
new, waits for the promise of another, runs its handler, has done its work and not yet answered (an
audit entry is awaited in between), or has ended; `inflight`,
`promise`, `late`, `cache` are the deduplication's map, its promises, its one second timers
and the idempotency cache. `Send` is the thrice replaced `res.json`: the client gets what
is sent first, and every layer sees what is sent. A handler may answer with JSON, with a
page, fail, hang, or answer after its timeout; a client may leave.

`AnswerPromise` keeps of a request what its client can tell: what was asked for, whether the
work has not begun, runs or is over (`Run`), when it was done, and what the client was told.
In one step a request is asked for, begins (not while work of its key is remembered), is
spared the work by the outcome of another with its fingerprint or key, finishes, or is given
up on. The times of the guards, the map of what is in flight and the cache are not in it.

### Server

The listen callback (`Ready` seeds and registers handlers after the first requests can
come in), connections that are kept alive, signals, `server.close` and its callbacks
(`ServerClosed`), the database's destruction, and the timer that ends the process. A connection is
busy with a request until the request is answered: by its handler, by a 408
(`RequestTimeout`), or never, as the client goes (`ClientLeaves`). After the latter two the
handler works on, `alone`, and no shutdown waits for it. A request of `Hanging` has neither an end nor
a timeout: an upload. Jobs wait in Redis or in memory; if adding one to Redis fails, it and those that follow
go to the fallback, which has no handlers and drops them. A job ends done or given up;
how it gets there is `BullQueue`'s and `JobQueue`'s subject.

### QueryCache

`db` is a version per tag, the value of an entry the versions its query saw. A
`cacheQuery` is `CacheQuery`, `QueryDone` and `StoreResult`; a writer writes and then invalidates, or, as a cleanup run whose later batch
fails, does not (`FailsToInvalidate`);
`older` is the order of `lastAccess`; ages stop growing when they have passed the
time to live. `clear` is called by nothing and left out.

### AdminPage

The rows with their buttons, the selection, the dialog, batches and toasts of
`public/js/admin-components.js` in `views/admin/list.ejs` and `trash.ejs`. The server's
answer and its arrival are two steps, since the user clicks in between. A batch is answered when its
jobs are queued, one for each link (`ServerQueues`), and they are run or given up later, one by one
(`ServerRunsJob`). `late` is history: the rows that were ticked while a batch was out. `timers` are the
toasts' timers, which outlive their toast.

### Accounts

`users`, `tokens` (whose key is the address), `session`, and one request under way per
caller, split at the bcrypt hashes and between checks and writes (`Register` and `RegisterInsert`,
`AdminCreateUser` and `AdminCreateInsert`, and so on). A caller has one request at a time, so that
nobody logs out under a request of the same session. `routed` says whether
requests come through the routes: there, registration and reset never get to their
services, so that with `routed` false the services are called as they are written.
`seed` is `ensureDefaultAdmin`.

### Preferences

A save goes through the fields of the form one after the other, and each is looked up
(`FindField`) and then updated or inserted; a reset deletes all rows. Several pages
overlap.


## Runs

| run | module | what it checks, and its bounds |
|---|---|---|
| `link_faults` | MCLeftFiles | Two clients and a collector over two links, with one storage deletion and two transactions that may fail and one restart, two of these faults in one behaviour (`FewFaults`) and at any point: the inductive invariant, what leaves a file behind, and that nothing removed returns. Expiries 0 (none) and 1, a clock up to 2, batches of one row. |
| `link_overlap` | MCCleanupOverlap | Two cleanup runs and one client over two links, with a transaction or a query that may fail: what either deletes was doomed, rows and files are not forgotten, what is due goes in the end, and `LinkPromise` is implemented. |
| `job_queue` | MCJobQueue | Three jobs of two priorities with delays 0 and 1, two tries each, two places: nothing is lost, tried too often, out of order or held up; `JobPromise` is implemented; a round as one step is the loop; every job ends. |
| `batch_jobs` | MCBatchOperations | Two jobs of three types, one owned link and one of somebody else, one place: in Redis with a failure of storage or database or a crash of the process, or in memory beside a synchronous call. |
| `downloads` | MCTransfers | Two downloads of a link, its previews and burn jobs, two faults (a query, an add to Redis, a restart; a refused deletion is not counted), an owner who moves the expiry once; and every order in which file, decipher, verifier, response, client, timer and the end of the process can end one download of up to four chunks. |
| `requests` | MCRequests | Two requests (one kind with a key, one without) whose handlers answer, render, hang or fail, over the lives of every timer: answers are true, `AnswerPromise` is implemented, everyone is answered; and a process with three connections, one of which hangs, one handler that goes on alone, two jobs and two signals. |
| `my_links` | MCMyLinks | A walk through the active links and a search in the trash, one row to a page, beside every change of two links and a cleanup that deletes what it selected before; and one link edited from two tabs with each choice of the form, the server's clock one tick off the users'. |
| `dashboard` | MCDashboard | A page with two rows, the request of one of them, a batch of two jobs and a toast; and two callers, a writer that may fail to invalidate, an eviction, ages and the sweep over two cached queries with two tags. |
| `uploads` | MCTransfers | A page that creates and one that edits, four kinds of files, three keys, two of which may refuse to be deleted (`Stuck`), two choices, one restart; and the tables asked about every name, type, first bytes and size. |
| `users` | MCUsers | Two callers, two names, two addresses, two passwords, one token, one restart; and two pages that save six forms of preferences or reset them. |
| `link_stale_cleanup` | MCLinkLifecycle | Finds that a link whose expiry was moved away by an update, after the collector's select, is removed with its file. |
| `key_twice` | MCRequests | Finds that a retry under one key runs beside the first. |

Why these bounds are enough. A race needs two actors and one link, or one key; a second
link shows that a step on one does not reach the other, and that a key goes to the right
row. Two cleanup runs with batches of one row page past each other. Two tries show a
first failure, a retry and a last failure. Every timer of `requests` is short, but their order is that
of the code (a duplicate's second, the window, the timeout, the sweep, the time to
live), and the clock runs past the longest. The bounds of the form, of preferences and
of the tables are on each side of every comparison. `MaxItems` (rows of one run) is above
what a run can meet; the cache has one slot, so that the second entry evicts; with a page
of one row `hasNext` is asked at each row. The third key of `uploads` is never stuck, which bounds how often storage refuses. Not seen by a run: job limits of 0 tries,
`LinkPromise` under refused deletions or restarts, two updates that both replace one
link's file (three keys), a second reset token (all four proved about instead); two overlapping
toasts, pages longer than a row, more than two jobs in Redis.

`CHECK_DEADLOCK FALSE` is in the runs where the system may come to rest: every link gone,
every request answered, every counter at its bound, the process ended. `job_queue` does
without it, since its clock always ticks. Symmetry is declared only
where no liveness is checked, over sets whose members nothing tells apart.

## Fairness

Everything is weak fairness, of steps the code cannot withhold once enabled. No
client, visitor, cron overlap, fault or signal is fair.

| run | fair | why |
|---|---|---|
| `link_overlap` | a service call under way, either cleanup run, and the start of one | an await is resumed when its query answers or fails; node-cron fires every fifteen minutes |
| `job_queue` | `Tick`, `Poll`, `ShutdownReturns`, the end of each handler | timers fire, and shutdown's timeout is one; a handler is assumed to settle, as nothing in the queue stops one that does not |
| `downloads` | each next step of a download and its burn job, and `Register`; the pipe's timer and that of a shutdown | a stream has a timeout, the queue polls, timers fire. Nothing is assumed of disk, streams and client |
| `requests` | time, resumption of waiters, the request timer; the listen callback, the start and the end of jobs, and the exit timer | timers and settled promises are run by node, a job has its tries. Nothing is assumed of handlers or connections |
| `dashboard` | time, the server's and the network's answers; queries answer, the sweep fires, a writer that wrote invalidates or fails to | `fetch` and the query resolve or reject; the sweep is a `setInterval` |
| `uploads` | bytes arrive, and whoever has to answer does | assumed of network and server; a `NetworkError` answers as well |

`GarbageIsCollected`, `BurnsInTheEnd`, `JobsEnd` and `EveryoneIsAnswered` are not true of a
system that is unfair in these steps; where fairness would hide a fault of the code (a
handler that hangs, a connection that stays open) it is not assumed.

## What the properties say

*Links.* `IInv` of `LinkLifecycle` has `FileLostForAReason` as a part: a link that was never
due and that nobody asked to purge has its file. `KeepsLinkPromise`, with one or two runs:
nor does its row go; a link is served until there is a reason to remove it, and each
file belongs to one link, once. `NeverResurrected`: a stale call brings back no removed row.
`BothRunsDeleteDoomed`: the inductive invariant survives a second run.
`FilesAndRowsAreInHand`: while nothing failed, a row without its file is about to be
deleted by somebody, and a file nobody can reach took part in a replacement.
`LeftForAReason`: whatever failed, such a file was refused by storage, cut off with its call by a
restart, not written by the update that brought it, or came to its row behind the back of
somebody who had read it and then changed it. So a `createLink` that fails leaves none, nor does
an update, a purge or a run that nothing has overtaken.
`GarbageIsCollected`: what is due goes.

*Jobs.* `IInv` of `JobQueue`: one place per job, the limit, tries counted, a clean shutdown is
final. `NoIdleCapacity`, `FirstThingsFirst`, `JobsEnd`, `KeepsPromise`, `TakenIsTheLoop`:
see above. `BatchInv`: no job runs in both queues, tries and places are bounded,
a shutdown drains before it closes, a job writes its row once, and once more for each time its
process died under it, every link of a request has its job or its count, and no row is purged
before storage was asked for its file (`FilesGoFirst`). `OutcomesAreTrue`: a job that is
given up, without its process having died, has written no row (a force delete may have deleted the
file); one that is done has written it, or found it purged; a force delete that is done leaves no row,
nor a file that storage did not refuse to delete. `LinksChangeByRight`: only owned links
change, and none returns.
`QueuesKeepPromise`: both queues implement `JobPromise` while the process lives.

*Downloads.* `DownloadsInv`: a link goes only after a download of it as a burn link, its row only
after storage was asked for its file; a burn is given up, while fewer than three things fail,
only when another has burnt the link; a job that Redis has is not lost; a finished response is
whole. `BurnsInTheEnd`: a burn link that was read goes, unless its job was lost: with the process, or in a
queue that has no handler. `KeptExpiryIsRespected`: a link whose expiry is not edited is
not read after it by any token. `SettledForGood`: the outcome of a pipe stands. `PipeSettles`: it
comes, or the process ends.

*Requests.* `RequestsInv`: who was answered with another's answer did not run, a success was
worked for, the database is closed only when no client has a connection left.
`KeyIsRemembered`: after its work was done and its handler has answered, a key begins nothing more in the
lifetime of the cache; what begins between the work and the answer is not kept from it, which is
what `KeyRunsOnce` shows. `KeepsAnswerPromise`: a client is told one
outcome, of its own work or, if it was spared the work, of work it shares.
`EveryoneIsAnswered`: within the timeout, whatever handlers do. `ProcessGoesOn`: a shutdown ends, and
jobs in Redis are done or given up. Nothing is promised of handlers whose client left or was told 408,
nor of jobs in memory: see `NoJobIsDropped` and `JobsAreShutDown` below.

*Owner's pages.* `WalkShowsAll`: a walk over rows that stay shows each once and in order.
`MyLinksInv`: the statistics are the totals of the lists whenever they are counted (and may be five
minutes old when they are shown); the filters divide the links, and are ahead of badge and collector
only at the moment of the expiry; a link has a short id exactly
when it has a page, as long as no two edits overlap (see `ShortIdFollowsPage`). `DaysAreKept`: of the
trashed links that have not expired, cleanup takes one that still shows days only if it was trashed after
the select. `EditsAsChosen`: an address stays while its page does, and an update writes the expiry that
its form meant when it was sent: the one there is, none, a duration from then, or the date as the
server's clock shows it.

*Dashboard.* `DashboardInv`: the table is hidden when empty; a row that went was asked for, by a request
whose link has left, or by a batch that was sent for it and answered ok, unless it was ticked while
a batch was out; cache entries are indexed, bounded, and stale only before an invalidation, after one that failed to
come, or by a race with one (`StaleForAReason`).
`PageSettles`, `CacheConverges`: no row stays busy, toasts hide, stale entries go.

*Uploads.* `UploadsInv`: a row has the whole file, the one chosen, with its sum; what a file
was declared to be, is stored for, is previewed and served as agree where the code says
they do. `KeptOrDeleted`: a whole file that a link or a form knows stays known until its deletion was tried,
but for three ways to lose sight of it (`LostBy`): its request breaks off, an edit with a new file is refused, or an edit
replaces a file that it has not seen.
`SubmitEnds`: a form never stays busy.

*Users.* `UsersInv`: addresses are unique, nobody pending logs in, the seed leaves an
administrator; a save of preferences skips no field and refuses for a reason.
`RightsChangeByRight`: a password changes by a mailed token; an administrator is made by the seed, or
while somebody has an administrator's session.

## Disagreements

What the repository says of itself and its code does not do. The first two are runs; the
others are definitions of the component's module, with the quoted line in their comment:
naming one as INVARIANT or PROPERTY in the cfg of the component's run gives the
counterexample (by way of a definition in the MC module, `D == Pipe!D`, for a component
that the MC module instantiates).

| definition | module | what the code does instead |
|---|---|---|
| `CollectorRemovesWhatIsDue` (`link_stale_cleanup`) | LinkLifecycle | deletes the batch it selected earlier, links included whose expiry an update has moved since (linkService.js:504) |
| `KeyRunsOnce` (`key_twice`) | RequestGuards | stores a key only when the answer is sent (idempotency.js:63) |
| `ReplacedFileIsCleanedUp` | LinkLifecycle | two replacements both delete the first file, and the second stays (linkService.js:274) |
| `OldestFirst` | LinkLifecycle | advances the offset over rows it deleted (linkService.js:552) |
| `FailedDeletionIsRetried` | LinkLifecycle | strategies answer false, and nobody looks (LocalStorageStrategy.js:146) |
| `InvalidPriorityIsNormal` | JobQueue | a retry pushes on `queues[job.priority]`, which is undefined (jobQueue.js:203) |
| `StartedJobsAreDone` | JobQueue | counts a job that failed as completed at a shutdown (jobQueue.js:288) |
| `FallbackRunsJobs` | BullQueue | registers no handler with the fallback (bullQueue.js:286) |
| `NamedPriorityIsKept` | BullQueue | maps names of priorities as if they were numbers (bullQueue.js:239) |
| `ReadsRespectExpiry` | BurnOnRead | compares with the expiry in the token, not the row's (publicController.js:129) |
| `BurnServesOnce` | BurnOnRead | queues the deletion after the download (publicController.js:209) |
| `BurnsOnlyWhenRead` | BurnOnRead | burns after a broken download as well (publicController.js:184) |
| `SettledIsCleanedUp` | StreamPipe | returns before it cleans up, since the flag is set first (streamHelper.js:28) |
| `FileIsReleased` | StreamPipe | destroys the last stream only (streamHelper.js:123) |
| `ErrorsAreHandled` | StreamPipe | `pipe` forwards no error of the inner streams (LocalStorageStrategy.js:207) |
| `ResponseEnds` | StreamPipe | leaves a response open whose source failed (streamHelper.js:77) |
| `DoubleSubmitRunsOnce` | RequestGuards | forgets a request when it answers (requestDeduplication.js:140) |
| `AnswerIsForMyOperation` | RequestGuards | takes the fingerprint without a multipart body (requestDeduplication.js:54) |
| `ConcurrentRunsOnce` | RequestGuards | a timer removes the entry of a later request (requestDeduplication.js:155) |
| `DuplicateSharesAnswer` | RequestGuards | settles with JSON only (requestDeduplication.js:153) |
| `TimedOutDoesNoWork` | RequestGuards | the handler goes on after 408 (requestTimeout.js:85) |
| `NoJobIsDropped` | Server | accepts requests before it registers handlers (server.js:223) |
| `JobsAreShutDown` | Server | shuts down no queue (server.js:253) |
| `SeesSettledWrites` | QueryCache | stores a result read before an invalidation (queryCache.js:272) |
| `EmptyMeansEmpty` | AdminPage | counts a row down twice (admin-components.js:434) |
| `RemovedWasSent` | AdminPage | removes what is selected when the answer arrives (admin-components.js:431) |
| `RestoredStaysRestored` | AdminPage | keeps a restored row's id selected (admin-components.js:269) |
| `ToastLastsItsTime` | AdminPage | never clears the timer of the toast before (admin-components.js:331) |
| `AllFilesAreValidated` | UploadForm | looks at a signature from four bytes on (LocalStorageStrategy.js:78) |
| `PartialFilesGo` | UploadForm | does not notice that the client went (uploadService.js:90) |
| `RotationKeepsFiles` | UploadForm | reads with the first key only (LocalStorageStrategy.js:40) |
| `SizeIsCheckedBefore` | UploadForm | reads the file again after it was checked (admin-components.js:97) |
| `ServedAsDeclared` | FileTypes | indexes types by extensions of which two share one (filePreview.js:93) |
| `SupportedIsStored` | FileTypes | has no signature of WebP (utils/fileValidation.js:9) |
| `TextIsAccepted` | FileTypes | accepts eight extensions, none of text (middleware/fileValidation.js:31) |
| `DateAsPicked` | LinkEdit | parses a date without a zone in its own (appSchemas.js:31) |
| `DaysRemaining` | LinkList | takes trashed links that expire at once (linkRepository.js:249) |
| `UsersSeeTheirOwn` | LinkList | writes no owner (linkService.js:171) |
| `StatsAreScoped` | LinkList | drops the session (linkService.js:29) |
| `ShortIdFollowsPage` | LinkEdit | decides from a row read before a hash and a transaction (linkService.js:248) |
| `BlankRemovesPassword` | LinkEdit | makes an empty password undefined (linkService.js:243) |
| `RegistrationIsAccepted` | Accounts | the schema drops the confirmation (appSchemas.js:103) |
| `ForgotSendsToken` | Accounts | resolves the service never (passwordResetController.js:45) |
| `RevokedHasNoAccess` | Accounts | asks the session only (middleware/auth.js:28) |
| `StoredTokenResets`, `TokenLives` | Accounts | deletes tokens by address, after the hash (passwordResetService.js:83, :113) |
| `ValidIsSaved` | Preferences | looks up and inserts in two queries (userPreferenceRepository.js:39) |

## Proofs

Seven modules beside `JobQueueProofs` hold the proofs, each about one or two components:
`LinkProofs` (LinkLifecycle, CleanupOverlap, LeftFiles), `BatchProofs` (BullQueue,
BatchOperations), `TransfersProofs` (BurnOnRead, StreamPipe, UploadForm, FileTypes),
`RequestsProofs` (RequestGuards, Server), `MyLinksProofs` (LinkList, LinkEdit),
`DashboardProofs` (AdminPage, QueryCache) and `UsersProofs` (Accounts, Preferences).

Every invariant and every action property that a passing run checks is proved, and so is
every refinement (`KeepsPromise`, `QueuesKeepPromise`, `KeepsLinkPromise`, `KeepsAnswerPromise`). The
theorems are about the specification the run checks, or, in `LinkProofs`, about `Spec`,
which `LeftSpec` implies (`RecordChangesNothing`), for every value of the constants
that satisfies the named assumptions: bounds are numbers; the sets whose members are
counted (jobs, links of a batch or of a page, pages and keys of an upload) are finite;
null is not one of the values it stands for the absence of. TLC evaluates each
of them. A theorem of a component that shares a run is of the run's specification, where the
other component rests.

### How an invariant becomes inductive

| theorem | states | what had to be added, and why |
|---|---|---|
| `FilesAreKept`, `RowsAreKept`, `RemovedLinksStayRemoved` | `FileLostForAReason`; `RowRemovedForAReason`, no row goes of a link that is not doomed; `NeverResurrected` | `IInv` of LinkLifecycle: who holds a key. Nothing else says that a call with an old key will not delete another link's file |
| `TwoRunsAreSafe`, `NoRunIsTooEager` | the same of files and rows, under two cleanup runs | `IInv` of each run; neither run undooms a link or puts a key to new use |
| `NothingIsForgotten` | `FilesAndRowsAreInHand` | `OverlapInv`: while nothing failed, whoever deleted a file still has its row to delete, at which step of its batch he may be |
| `LinksAreKept`, `TwoRunsKeepThePromise` | `LinkPromise` is implemented, by one run and by two | nothing: `IInv` suffices, and for two runs that of each |
| `FilesAreLeftForAReason` | `LeftForAReason` | `LeftInv`: whoever is about to delete a row has tried to delete the file that he read there, and holds no upload |
| `RoundsAreTheLoop` | `TakenIsTheLoop` | that each turn takes the first of those of `Taken` that are left |
| `JobsAreNeverLost`, `LimitHolds`, `ShutdownIsFinal`, `PlacesAreFilled`, `OrderHolds` | the memory queue | `IInv` of JobQueue: order, counters and places together |
| `BatchesAreInOrder`, `OutcomesHold`, `BatchesChangeByRight` | batches on either queue | `CopyInv`, `LockInv` of one job; `OneQueueRuns`; `PurgeInv`: what a handler says of a row and a file at each of its steps |
| `QueueKeepsPromise`, `BothQueuesKeepPromise` | `JobPromise` is implemented, by the queue in memory and by the two of `BullQueue` | nothing beyond `IInv` and `BullInv` |
| `DownloadsAreSound`, `ExpiryIsRespected`, `PipeStaysSettled` | downloads | `TriesAreFaults`, `FileGoesFirst`, `TokensAreTrue`, `RedisKeepsJobs`; `EndsInOrder` of the streams |
| `UploadsAreWhole`, `FilesAreKeptOrDeleted` | uploads and their types | `KeysApart`, `OldsApart`, `KeysSuffice`, `FormFits`; what a file's stage says of its tables |
| `AnswersAreTrue`, `KeysAreRemembered` | guards and process | `PromiseIsKept`, `InFlightIsOwn`, `ResultIsTrue`, `CacheRemembers` |
| `AnswersAreKept` | `AnswerPromise` is implemented | nothing: `GuardsInv` suffices |
| `PagesShowAll`, `MyLinksAgree`, `DaysAreRespected`, `FormsAreObeyed` | the owner's pages | `WalkIsTrue`: a row stands where its rank says; `SelectedInv`: what a run has selected and the trash still holds since was old enough then; `OneUpdate` |
| `DashboardIsSound` | page and cache | `Carried`, `InTime`, `Ordered` |
| `UsersAreInOrder`, `RightsAreRespected` | users and preferences | `LogsIn`, `CallsFit`, `HasAdmin` |

### Links

A new key is in a browser or carried by one call (`UploadsComplete`,
`NewKeysHaveOneHolder`). Once no longer carried it is *settled*: no row can get it any
more. A row's key is settled and that row's alone (`RowsOwnTheirFiles`); a call about
to delete a file holds a settled key that at most its own link has
(`CallsDeleteTheirOwn`); the collector and the retry jobs hold only settled keys of doomed
links (`CollectorDeletesDoomed`); an id under creation has neither row nor past
(`NewLinksAreNew`). Being settled, and being one row's alone, are stable, which is what
every conjunct's proof rests on. The proof first describes each part of the state under
every action (the `...Shape` lemmas), then proves each conjunct preserved from those shapes.

A step of the second cleanup run is one of the first with `gc` and `other` exchanged, so
what is proved of the one is instantiated for the other; what is new is what a step of
one leaves of the other's. `OverlapInv` is about the time before anything failed, and
steps in which nothing fails (*calm* steps): the file of a row is gone only if a run or a
call is between its two deletions, and two runs that meet on a row both go on to delete it.

The refinement of `LinkPromise` is proved link by link and key by key from what a step can do
to the table and the storage: a row that appears or changes its file takes an upload that
is waiting, a row without its file is of a doomed link, and a row goes from a doomed link only. A step of
the second run is one of the first by the exchange of the two, under which the mapping
does not change.

That a file is left for a reason (`LeftInv`) is about the time when much has failed. A purge or
a run has tried to delete the file that the row had when it was read (`Dealt`), so that it is
gone, or recorded. If the row has another file by the time it is deleted, or is given a third, the step is
one of `Overtaken` and records that (`RowLosesFile`). What calls and the run leave at each
step, be it a failure, is described first (`EveryStepIsTold`).

### Jobs

`JobQueueProofs` has the hypothesis `PriorityArgs \subseteq Priorities`. The server
without BullMQ satisfies it: `jobs/bullQueue.js` maps its priorities to the three names, and
direct callers use them. Without it `OnePlace` is false, as `InvalidPriorityIsNormal`
shows. `OnePlace` needs the order and the counters: two jobs of an array have
different `pushed`, a queued job has failed as often as it was started, a running one
once less, and both have a try left. `Ready` states the same about any arrays and jobs,
so that a round of the loop is treated once for `Poll` and `AddJob`. The limit is a
counting argument: jobs ahead of a job are ahead of all that follow it, so the number of
jobs before each started job is different for each, and below the number of free
places; an injection into that interval bounds them. `PlacesAreFilled` takes the job
left behind that has the fewest before it: all of those were started.

`RoundsAreTheLoop` says of every turn that the loop has taken the first of the jobs that are
due, one for each turn until it goes to sleep. That is an induction over turns, and the
induction theorem is out of reach; instead the least turn for which it fails is looked at,
which exists because the naturals are well-founded (`WFMin`), and the turn before it
gives the contradiction. That the recursive function `Turns` exists at all is shown in the same way.

The two copies a job of `BullQueue` can have know nothing of each other. That no job
runs in both queues rests on `OneQueueRuns`: with BullMQ the memory queue has no handlers,
so a copy that fell back to it is never tried; without, no copy is in Redis.
Nearly every action changes one job; `OneJobMoves` is what such an action has to show, and the rest of the invariant follows.
What a job says at its end (`OutcomesAreTrue`) goes back to what its handler said before: a purged row stays purged and a
file that was not stored any more is not stored again (`Ages`), so that only the steps at which a job says more than
before have to be looked at (`SaysNoMore`).
Both refinements are proved job by job: the step of one job maps to a step of `JobPromise`,
and every other job stands still.

### Files on their way

A burn job is given up after its last try. That its link is gone by then needs
`TriesAreFaults` (while the link is there, each failed try was a fault; `GivenUpMeansGone` is
about fewer faults than tries, as a job in Redis is also given up when too many restarts have found it stalled) and `FileGoesFirst`. A response is whole when it finished
because the streams end in an order (`EndsInOrder`): the verifier only after the
decipher, and that only when the tag is right and the file has ended.

A link has the whole of the file that was chosen because the form it comes from had
(`IsWhole`), and because between the upload and the link nobody else writes to or deletes
that key: a key in use is one form's or one row's (`KeysApart`). The old file of an edit
is nobody else's while the edit has it in hand, and the row has let go of it before it is deleted (`OldsApart`). `KeysSuffice` says that the bound on
keys never stands in the way of a form that asks for one. `FormFits` keeps the
check of the size: what the multipart parser cuts off is more than the form let through, so
that no file is cut unless another one was chosen after the check, which is `touched`.
Of the tables of types the lemmas `HasIs` and `OnlyOggTwice` say which category has an extension: no other than
`ogg` is in two, and it is served as the one it is previewed as.

### Requests

An answer may come from the handler, from another request's promise, or from the
cache. `PromiseIsKept` says whose promise a request has at each phase,
`InFlightIsOwn` that the map leads a duplicate to the promise of a request with its
fingerprint, `ResultIsTrue` that a result which may be passed on is of work that was
done. `CacheRemembers` relates ages: from the end of a handler until the lifetime has passed since its work,
the cache holds an answer of its key that is no older than the work.

In each step at most one request moves (`OneMoves`), and the invariant says that its move is one of
`AnswerPromise`: a handler that ends has not worked before, what a duplicate or the cache
passes on is of another request, which shares the fingerprint or the key and has worked if
it says so, and a handler that starts found its key forgotten. That the database outlives the clients follows from the
server's waiting for connections and accepting none meanwhile (`ServerInv`).

### Pages

The database may return rows of one millisecond in any order. The *rank* of a row is the
number of entries of its list that are newer, and a page holds the rows whose rank falls into
its window (`InPlace`), so consecutive pages of a list that stays neither repeat nor skip
(`WalkIsTrue`, `ShownAreFirst`). That the comparisons with an expiry agree is
proved by cases of null, past, now and to come. A row that a run has selected is one it found old enough, or was trashed
since (`SelectedInv`). `OneUpdate` says that what an update
has decided from the row it read still fits the row when it writes, so long as no other
update overlaps, which `ShortIdFollowsPage` shows to be necessary.

A row goes from the admin page because it was asked for: what the page sends takes a link
away from where the page lists it, and nothing it sends brings one back (lemmas about
`Carried`), so that an answer that arrives late is still true; and while a batch is out, what is selected was sent
with it or ticked since (`SelectedIsSent`). A cached value is stale
only while a writer is between its write and its invalidation, after one that failed to come, or after a query has raced
one (`InTime`); a full cache always finds an oldest entry, because accesses are
totally ordered (`Ordered`, `HasFirst`).

### Users

Users only grow: nobody is deleted, demoted or set back to pending (`Grows`), so a
check made before a bcrypt hash still holds after it. `CallsFit` says what each call under
way may rely on, `LogsIn` who can have a session, `HasAdmin` that the seed leaves an
administrator; `FirstIsAdmin` that who creates an account has an administrator's session, from the check to the insert. That preferences skip no field is proved from the place of the save in
the list of fields.

### Only model-checked

All liveness: `GarbageIsCollected`, `JobsEnd`, `BurnsInTheEnd`,
`PipeSettles`, `EveryoneIsAnswered`, `ProcessGoesOn`, `PageSettles`, `CacheConverges`,
`SubmitEnds`; fairness and ENABLED are out of the prover's reach. Induction over data is as
well, so lemmas about counting go through the library's theorems on cardinality, the one about
the turns of the loop through a least counterexample,
recursion is written as functions or folds, and no module declares
a RECURSIVE operator. The two runs that find a violation prove nothing.

## Not modelled

*Never reached or never used:* the synchronous branch of a batch when a queue throws
(`addJob` never does); `utils/redisCache.js`, `jobs/queue.js`, `middleware/upload.js`,
`createStreamSafely`, `streamToBuffer`, `validateUploadedFile`, `cleanupExpiredTokens`,
`getPreference`, `resetPreference`, `executeTransactionWithRetry` and `clear` of the cache,
which nothing calls; the retry cron, which reads a table nothing is inserted into;
the owner of a link, which nothing writes (`UsersSeeTheirOwn` says what follows).

*Output only:* logging, the audit log (but for the moment it takes before an answer), e-mail,
rendering, the QR code, statistics, counters of visits and downloads (one increment each).

*Configuration of libraries:* rate limiters, helmet, sessions, the order of the middleware.

*Pure functions on strings:* sanitisers, file names, all schemas but that of the link form,
hashing and encryption (a secret is a model value; what is encrypted with one is read
with that one).

*External, modelled from their use:* knex transactions, BullMQ's attempts, stalls and
priorities, bcrypt, node streams, the browser. BullMQ may also lose a lock without a
crash, when the event loop is blocked, and may refuse a priority that is not a number;
neither is modelled. The cloud providers' clients are a store that accepts what it is sent.

*Left out of a modelled component:* page numbers below one and jumps between pages;
ties of `created_at` beyond their order; the burn flag of an edit; a second call of the
memory queue's `shutdown`; a network error that the page hears while `createLink` or `updateLink` deletes; two requests of one
session at the same time in `Accounts`; liveness of jobs in Redis across crashes (`Server` has
`JobsAreDone`).

## Plan

The model is complete as far as the list above, its safety properties and its refinements are
proved. What may still be added: `LeftForAReason` with two cleanup runs, and abstract
specifications of what a burn link and a form promise.
