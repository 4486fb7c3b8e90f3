# Verification of calibre-workers

TLA+ modules of the parts of calibre-workers whose correctness depends on the
order in which things happen, TLC configurations that check them on small
instances, and TLAPS proofs of what holds for every instance. Paths below are
relative to the repository's `src/` unless they begin with another directory.

## 1. The system

One Cloudflare Worker serves the web application, the Kobo API, two queue
consumers and a cron handler. It keeps rows in D1 (SQLite; the code opens no
transaction, so **every SQL statement commits on its own**), objects in an R2
bucket, sends job messages through two Cloudflare queues (`wrangler.jsonc`:
batches of 5, `max_retries` 2, no dead-letter queue) and calls a Go server in a
container for the actual e-book conversion. Nothing holds a lock: two requests,
two consumers, or a request and the sweeper interleave at every `await`.

### Inventory

| Component | State it keeps | Operations | Talks to |
|---|---|---|---|
| Conversion pipeline `features/conversion/**` | `conversion_jobs`, result files in `book_files`, objects | trigger, consume, settle, sweep, mark as read | queue, R2, container, Kobo sync, sweeper |
| Metadata sync `features/books/queue/metadata.ts`, `books/server/books.ts` | `metadata_jobs`, `book_files.metadata_status`, objects | edit a book, consume, settle, sweep | queue, R2, container, sweeper |
| Book upload `features/books/server/files.ts`, `files/services/FileService.ts` | `upload_tasks`, R2 multipart upload, staging object, the book it makes | create session, part, complete, abort, sweep | browser, R2, sweeper |
| Stale-task sweeper `scheduled.ts` | none | three sweeps at once, every 15 minutes, window 45 minutes | the three above |
| Book records `features/books/services/BookService.ts` | `books`, authors, tags, series, publishers | create, undo, edit, list | all |
| Stored files `features/files/services/FileService.ts` | R2 objects | put with size check, get, delete | R2 |
| Accounts `features/users/**`, `shared/auth/**` | `user` rows | sign up, create, update, delete | Better Auth |
| Shelves `features/shelves/**` | `shelves`, `shelf_books`, `shelf_members` | create, rename, delete, add and remove books, toggle Kobo sync | Kobo sync |
| Kobo tags and archive `features/kobo/services/KoboService.ts` | the same rows, `archived_books` | tag create, rename, delete, add and remove items, DELETE of a book | device |
| Kobo library sync, same file and `routes/api/kobo/$token/v1/library/sync.ts` | `kobo_synced_books`, `archived_books`, the token in a header | one page of changes | device, shelves, conversions |
| Kobo reading state, same file | `kobo_reading_states`, bookmarks, statistics | get and put state | device |
| Kobo access tokens, same file | `kobo_auth_tokens` | create (revokes the old), check | device |
| Kobo store proxy `features/kobo/lib/kobo.server.ts` | none | forward what is not local | Kobo's store |
| Container client `shared/layers/ConverterContainerLayer.ts` | stream locks | convert, with a stream bridge | container |
| Converter container `containers/converter/main.go` | two job slots, temp files | convert, embed metadata | - |
| Upload client `features/books/hooks/useUploadQueue.ts` | queue and progress in the browser | three part workers, three attempts each, abort on error | upload |
| Task notifications `features/tasks/**` | `read_at` columns, the browser's last list | poll, toast, mark as read | the three job tables |
| EPUB metadata, autocomplete, pages, schema, runtime wiring | - | parsing, queries, rendering | - |

### What is hard, and what correctness means

* **Conversions.** The queue delivers at least once, a consumer can be lost at
  any statement, the answer to a committed UPDATE can be lost, two jobs can be
  about one target, and a sweeper fails whatever is 45 minutes old without
  asking again. A job shown as done must have its file; a listed file must have
  its object; no object may be listed twice; the sweeper must leave live runs
  alone; every job must end settled.
* **Metadata sync.** The files of a book are rewritten in place, one fibre
  each, while further edits arrive. A downloadable file must hold the book's
  current metadata; done must mean that every file was synchronised; no file
  may stay locked for ever.
* **Uploads.** The client may repeat `complete` or `abort` while the first is
  still running. One upload must make one book; a success must have its book;
  a book must be whole; a settled task must leave nothing in the bucket.
* **Accounts.** Every check is a SELECT and every write a later statement. The
  library must keep an administrator, and deleted accounts must stay deleted.
* **Kobo sync.** Incremental synchronisation with four times in a token that
  the header cuts to whole seconds, pages cut in the order of one of them,
  markers written before the answer leaves, and a library that changes between
  the queries. The device must end with what its shelves hold.
* **Kobo gateway.** A device gives requests up and makes others while the
  server still works at the first; tokens and reading states are looked for and
  inserted without a key that says there is one. A revoked token must open
  nothing, a start must not be counted twice, and the progress made on one
  device must reach the others although tokens are cut to whole seconds.
* **Converter.** Streams run R2 -> container -> container -> R2 with nothing
  buffered in between, a handler holds its slot while it streams, and every
  party may stop at any time. A body cut short must not be stored as a whole
  one; slots, temporary files and connections must be given back.
* **Upload client and toasts.** Workers retry parts whose answers were lost,
  abort while others still send, and the page tells what happened from the
  difference of two polled lists. Only a complete file may be completed, nothing
  may be announced twice, and the queue must go on whatever failed.

## 2. Modules

| Module | Models | Uses |
|---|---|---|
| `JobLifecycle` | what every background job promises (abstract) | - |
| `JobQueue` | a Cloudflare queue as the consumers use it | - |
| `ConversionJobs` | the conversion pipeline | extends `JobQueue`, implements `JobLifecycle` |
| `MetadataSync` | edits and the metadata pipeline | extends `JobQueue`, implements `JobLifecycle` |
| `UploadSession` | one upload task and its book, on the server | implements `JobLifecycle` |
| `UserAdmin` | accounts and administrators' requests | - |
| `ShelfLibrary` | the rows a Kobo sync reads and every request that writes them | - |
| `KoboSync` | the synchronisation and the device | extends `ShelfLibrary` |
| `KoboReading` | reading states and the statements of GET, PUT and sync on them | - |
| `KoboGateway` | access tokens, `withKoboAuth`, the routes, the store, the devices | extends `KoboReading` |
| `ConverterServer` | the container: slots, handlers, temporary files, both wires | - |
| `ConverterPipeline` | what the Worker does with it: pump, bridge, upload | extends `ConverterServer` |
| `TaskToasts` | a page's three task lists and the listener that makes toasts of them | - |
| `UploadClient` | the browser's upload queue and its part workers | extends `TaskToasts` |
| `MC...` | values and scenarios for TLC | the module of that name |
| `...Proofs` | TLAPS proofs | the module of that name, `TLAPS` |

`KoboGatewayProofs` and `KoboSyncProofs` have three parts each, one inductive
invariant on top of the one before.

A definition called `Mutant...` stands before the definition it is a plausible
slip of. No specification uses it: replacing the definition by it must make TLC
find the property it is listed with (`PROJECT.json`, "mutants") violated.

**State and actions.** In the job modules a consumer fibre is a worker `w`
whose `pc[w]` names the statement it will make next; each action is one SQL
statement or one bucket call with its early returns, and `UNCHANGED` is what
the statement leaves alone. An expected failure goes where `catchAll` goes, a
defect or a lost host (`RetryOrCrash`, `Die`, `EditDies`, `Abandon`) leaves the
rows as they are. A committed statement whose answer is lost is a disjunct of
the last UPDATEs (`Finish`), where it matters. In `ShelfLibrary` and
`KoboReading` a request is the list of statements it has still to make. In
`KoboSync` the rows each SELECT returned stand in the synchronisation's record
until the page is put together.

* `ConversionJobs`: `status`, `result`, `age` are columns of `conversion_jobs`
  (`age` counts ticks since `updated_at`), `rows` is `book_files`, `objects`
  the bucket, `deletes` the runs whose `storage.delete` after a put of the wrong
  size (`FileService.ts:92`) is under way: nobody calls it back, so it lands, or
  fails, whenever it likes, and takes what the key holds by then. `wiped` is
  history: the runs whose delete was the last thing to happen to an object.
  `message` and `attempts` the queue, `sync` a Kobo sync that may
  create a job, `sweeping` the ids a sweep has selected. `TriggerConversion`,
  `Send`: `server/conversions.ts`. `KoboScan`, `KoboCheck`, `KoboInsert`:
  `createMissingKepubConversionJobs`. `MarkProcessing` ... `Settle`:
  `runConversionJob` and `settleConversionFailure`. `SweepSelect`,
  `SweepUpdate`: `failStaleConversionJobs`.
* `MetadataSync`: the metadata of the book is a version number (`meta`); an
  object's content is the version last embedded, `Damaged` when the put had the
  wrong size and `Gone` when the delete after it landed; `late` counts deletes
  under way whose run has ended.
  `fileStep[w][f]` is where a run is with each file, since files proceed side
  by side. The history variables `overlap` (a run was not alone with the book)
  and `stranded` (something died that alone would have unlocked files) say
  exactly when the code promises less. A run that dies leaves its files to its
  job (`LeftToJob`) only while that is unsettled and neither another run nor a
  sweep that has selected it is about to settle it.
* `UploadSession`: a book is named after the `complete` request that inserted
  it; `multipart` and `staging` are R2's. `overlap` and the history variable
  `debris` (somebody died, or a clean-up call failed, and nobody will clean up
  after it) qualify what a settled task leaves. A multipart upload may be opened
  by a call whose answer is lost, and nobody knows its id. `heard` is history:
  the complete request that made the task a success and was told so.
* `UserAdmin`: `pc`, `actor`, `target`, `newRole`, `newStatus` are a request;
  `first` is what the sign-up hook counted. `overlap` notes that two
  administrators' requests ran at the same time.
* `ShelfLibrary`, `KoboSync`: times are ticks; each write takes `Gap` ticks,
  and a second has `Second` ticks, so cutting a time to seconds loses
  something. `archive[b]` is a *sequence* of rows because nothing in the schema
  keeps two select-then-insert requests from making two. `quiet` notes that
  nothing was written since the device was given the last page, `seen` what
  held at some moment of each synchronisation, `passed` the books whose archive
  time a page that cut them off has moved the device's token past, `raced` those
  for which two writers had found no archive row before either inserted one.
* `KoboReading`, `KoboGateway`: `state[b]` is the sequence of a book's
  `kobo_reading_states` rows in the order SQLite returns them, each with the
  rows of its bookmark and statistics (`side`). A request `c` is
  `call[c]`: where it is (`auth` waits for the token's lookup, `local` makes the
  statements in `todo`, `refused` has failed, `store` asks Kobo's store, `log`
  has its answer and logs it, `answer` is on the wire) and what its handler
  holds. `Contact` is `getOrCreateReadingStateByBookUuid`, `Update(put)` the
  whole PUT, `SelectStates` the part of `buildLocalLibrarySync` about reading
  states. `Authenticate` is `withKoboAuth`'s lookup, `Refused` and `Proxy` are
  `resolveKoboLocalOrProxy` and `proxyKoboHandlerOutput`. `token` holds the
  `kobo_auth_tokens` rows. `device[d]` is outside: which request it waits for,
  the token and the store's token it carries, and the time of the state it
  `knows` of each book. `starts`, `owner`, `since`, `late`, `began`, `made` and
  `issued` are history.
* `ConverterServer`, `ConverterPipeline`: `srv[r]` is a Go handler with the
  files it made and those a deferred clean-up will remove; `jobSem` the
  semaphore channel; `up`, `down`, `open` are the two directions and the life of
  the connection, one chunk at a time each way, so that a writer waits for its
  reader. In the Worker, `pump` is `buildMultipartStream`, `bridge` and `mid`
  are `restoreFixedLength` and its readable side, `run` is the job's fibre with
  the `ensuring` clauses it still has to run, and `stored` is what R2 took.
* `TaskToasts`, `UploadClient`: `task` and `order` are the server's rows, `list`
  the page's three queries (react-query: loaded, in flight, answered),
  `listener` the refs of `TaskToastListener`, `told` and `news` count toasts and
  what there was to tell. `Others` are tasks that this page has not begun:
  anybody's conversions, and what the user does on other pages. `up[f]` is
  `uploadBookWithMultipart` with its pool of workers, `got[f]` the parts that
  reached R2. A server handler is one step here, except a part's, which looks at
  the task first and marks it in the end; the statement-by-statement model of
  the same handlers is `UploadSession`.

**Abstract specification.** `JobLifecycle` says of any background job that it
is inserted pending, is worked on, ends done or failed, is never done without
having been processed, and settles for good (`SettlesForGood`). The conversion,
metadata and upload modules implement it: `LifecycleSafe` is its safety half
under the refinement mapping (the upload maps `success` to `done`), and is
checked and proved.

## 3. What the runs check

Bounds are the constants of the `.cfg` files and the scenarios of the `MC`
modules. All runs set `CHECK_DEADLOCK FALSE`: a library in which every job is
settled, every message used up and every bounded request made really stops.

| Run | Question | Bounds |
|---|---|---|
| `ConversionJobs` | Do rows, objects and statuses agree whatever is lost or repeated? | a user's job and a Kobo job for one EPUB, two workers, two deliveries each, sweeper, one result of the wrong size at a time (`OneMismatch`) |
| `ConversionLiveness` | Is a live run spared by the sweeper, and does every job settle? | explicit time: run timeout 1, window 2, one mark-as-read; one valid job, one with a rejected format |
| `MetadataSync` | Are offered files fresh, is done true, is a locked file owned? | two edits and jobs of one book, two workers, one file, one delivery |
| `MetadataRedelivery` | The same with two files whose fates differ, and does everything settle? | one job, two files, two deliveries |
| `UploadSession` | One whole book or none, nothing left behind, settled in the end? | one part, two completes, one abort, the sweeper any number of times |
| `UploadClient` | Is only a complete file completed, is news told once, does the queue go on? | two part workers, two attempts; lists of one task; an upload of two parts with two faults; two uploads in a row; an upload beside one of another page; a conversion of one's own or another's after an old one; a saved book with one fault |
| `UserAdmin` | Does an administrator remain? | three accounts, three requests at a time, one of them an administrator's |
| `UserLastAdmin` | ... with two administrators' requests at a time? (violated) | three accounts, two requests |
| `KoboSync` | Does the device get what its shelves hold? | two books on pages of one, two shelves that are enabled at first, two requests, one lost answer, a new device or one in use; the device's tag requests are `KoboPages`' |
| `KoboPages` | Is a book ever shown that was not offered, does paging make progress, and where do second archive rows come from? | three books on pages of two, one request that may die; one book, two requests that overlap with the sync and with each other |
| `KoboGateway` | What survives overlapping requests, lost answers and dead hosts, of tokens, states and progress? | two devices, a book here and a book of the store, two requests, one fault, seconds of two ticks |
| `Converter` | Are slots, files and streams given back, and is what is stored whole? | one slot, one chunk; a conversion with two faults, two syncs with one, a conversion and a sync with none |

**Why the bounds are enough.** Every hazard of the job modules is a matter of
two actors: two deliveries of one job, two jobs on one target, a run and the
sweeper, a complete and an abort. All of them fit in the instances, with one
actor to spare that dies; further deliveries or jobs repeat the same pairs.
`MaxDeliveries` stands for `max_retries + 1` = 3; two deliveries have one run's
delete land in the next one's work. Time needs `RunTimeout <
StaleWindow` and no more (10 and 45 minutes in the code); the smallest such
numbers allow every order of events. A Kobo sync's rules are about maxima of
times over a page and about one book hiding another's change, which takes two
books; a book on two shelves takes two shelves; a book that is archived,
restored and archived again takes a device in use, so the runs start from both
a new device and one that has such books. One lost answer and one dead request
suffice to put every row in the state that they can leave it in.

`KoboGateway`'s properties are about two requests that overlap, and two requests
are what TLC is given; that more of them change nothing is what the proofs of
its six properties add. One slot, for the container's two, has requests wait
already with two jobs; one chunk is enough for a stream to be empty, full, whole
or cut, since every hand-over is an action. Two attempts, for the client's
three, have a part fail, be tried again and fail for good; two workers have one
give up while the other sends. A list of one row, for ten, has a task pushed off
its list by the next one, of this page or another. In the toast scenarios the
faults a behaviour may have left say how many of them are spent at its start.

**Fairness.** No run is promised to succeed, no client to come back, no message
to be delivered. `ConversionJobs!Fairness`: time passes, a run that has used up
its time is interrupted (`Effect.timeout`), a consumer that is alive settles
and acknowledges (weak), cron starts a sweep again and again (weak for its
SELECT) and not all of them are interrupted by a failing sibling (strong for
its UPDATE). `MetadataSync!Fairness`: the same, with requests that end and jobs
that grow old. `UploadSession!Fairness`: requests end (a Worker invocation is
bounded); each step of a sweep is strongly fair, since a sweep may be stopped
at any of them but not at the same one for ever. `UploadClient!Steps`: requests
are answered or fail, timers fire and jobs end (`Work`, weak), and each list
that polls goes on polling (`Watch`, weak per list; it is a `setInterval` of the
query library). `ConverterPipeline!Steps`: what runs goes on (`Progress`, weak).
Every step of `Progress` and of `Work` moves something forward that no other
one moves back, so that weak fairness of the whole is fairness of each. That
some operation succeeds is never assumed, so liveness rests on the sweeper and on
the time limits alone.

### What holds only under a condition, and why

These conditions are in the properties or the configurations, and are limits of
the program, found by checking the property without them.

* `ReadyIsFresh`, `DoneMeansSynced`: while no two runs or edits of the book
  overlap. The snapshot is read once per run, and an older one can be embedded
  last.
* `SettledLeavesNothing`: a failed task has no book while requests of an upload
  do not overlap. An abort that overtakes a complete fails the task although
  the complete goes on to make the book.
* `BooksAreWhole`, `SettledLeavesNothing`: unless `debris`; a host that dies
  between two statements leaves what it was about to undo.
* `AdminRemains`, `DeletedIsFinal`: while administrators act one after another
  (sign-ups may interleave). `UserAdmin.cfg` stops at the first overlap because
  the properties promise nothing from there on.
* `KoboSync`'s four properties: requests and synchronisations take turns
  (`TakingTurns`). With both at once a restore written between the reading of
  `archived_books` and the moment orphans are archived as of lies before the
  new token and is not sent. `ShowsOnlyOffered` and `SecondRowNeedsRace` need no
  such condition, and have a run without it, in which the device's DELETE of a
  book, the archiving of orphans and everything else overlap.
* `SecondRowNeedsRace` states what select-then-insert makes of that: a book gets
  a second row of `archived_books`, as it does in that run, only when two writers
  had found none before either inserted.
* `NewBooksArrive`: if no answer was lost (`losses = 0`). A book that is no
  younger than the device's token and is marked in `kobo_synced_books` by a
  lost answer is neither new nor changed afterwards.
* `TagsAreCurrent`: if no request died (`deaths = 0`), as one can between
  deleting a `shelf_books` row and touching the shelf.
* `RestoresArrive`, `RemovedBooksGo`: but for the books that were overtaken
  (`passed`). Pages are cut by `last_modified`, but the token's archive time
  becomes the greatest one of the page (`KoboService.ts:971`), past a restore or
  an archived book that waits for the next page, which then is no candidate any
  more. The comment at `KoboService.ts:821` says that restores are sent, and
  compares the archive time to see to it; without the exception both properties
  fail, on pages of one book with two books. A book leaves `passed` as soon as
  some page has it again. And in `RestoresArrive` a book the device
  has never had is excepted once an answer was lost: a book that was discarded
  and restored before it ever arrived, whose restore the token's archive time
  has passed, is new to the lost answer, which marks it, and neither new nor
  changed to the next. Planning the proof of the property without this
  exception led to the trace.
* `PagesAdvance`: readable books, written to at least a second apart (`Gap =
  Second`), and not for a page that somebody wrote beside. It is an action
  property: a page that is not the last moves the token, marks a book or
  archives one. Since synchronising undoes none of these, a device that follows
  `x-kobo-sync: continue` comes to an end. As many books as a page holds with one
  archive time - a large shelf that is disabled or deleted, or a device that
  DELETEs many books at one moment - stay candidates for ever, because the
  header cuts the token below that time.
* `OnlyOverlappingTokensSurvive`, `SecondStateNeedsOverlap`: these state what
  select-then-write makes of overlapping requests: a second active token or
  reading state comes about by overlap and in no other way.
* `ProgressArrives`: of a book with one state row (`GET` answers with the first
  of two, a synchronisation with the last) that was not written late. A PUT
  takes its time when it is admitted and writes statements later; if another
  synchronisation shows a later state in between, its token is past the row.
* `UploadsAreTold`: unless the task was marked as read, a fetch of its list
  failed, or the uploads the user began after it, on this page or another, have
  pushed it off the list (`tasks.ts:43`: the ten created last); without that
  exception the run fails with one upload of another page. A job that is pushed
  off its list while it is active and comes back finished, since jobs are listed
  as they were updated, is known and has no previous status, so it is not
  announced.
* `ToastsAreNews`: thirty seconds are longer than a poll or a fetch takes
  (`Age`); otherwise a task that finished between two slow polls is announced by
  neither. What had finished less than thirty seconds before the page came up
  counts as news, since the listener may announce it when it enters a list.
* `ListedFileStored`: but for a listed file whose key another run has put a result
  of the wrong size under, before or after the listed one, when that run's delete
  landed last. `uploadBookFile` waits for the delete, but the next `put` of the
  same key does not: a run that timed out or died meanwhile, or two jobs for one
  target, are enough for the delete to take a good file.
* `SuccessHasBook`: of the complete request that was told it succeeded (`heard`).
  When the answer to that request's last UPDATE is lost, it rolls its book back
  and leaves, until it fails the task, a success without one. Rollbacks of other
  requests are no excuse.

Found in the same way, and not kept as runs: the sweeper's `Effect.all`
fails fast, so a failing sweep interrupts the metadata sweep after it has failed
its jobs and before it has unlocked their files, which no later sweep will do
(`scheduled.ts:28`; the comment at `:26` calls the three sweeps independent); a
message that always meets defects is discarded after its last delivery, where a
comment (`features/conversion/queue/conversion.ts:196`) speaks of a dead-letter
queue that `wrangler.jsonc` does not configure; two overlapping Kobo syncs make
two jobs for one KEPUB (`KoboService.ts:1247`; `DoneJobDelivers` still holds);
the sweeper can fail a job that was taken up again after its SELECT
(`ConversionService.ts:131`); two people who register at the same time both
become administrators (`shared/auth/auth.ts:49`); a book changed within the
token's second is sent by every further sync; a shelf that is enabled after the
device has seen a later one does not become a collection, since enabling
touches neither of its times (`ShelfService.ts:264`).

Of the gateway: a database that fails at the token's lookup answers 401; two
first contacts at once make two reading states, or the later insert of a
bookmark fails on its key and the PUT goes to Kobo's store instead; a PUT with
only a bookmark resets the status to the first one; the log reads the whole body
before the answer leaves. Of the converter: an end of the connection that Go has
not noticed keeps a waiting request in line until its eight minutes are over;
the R2 body is not cancelled when the pump aborts. Of the client: after a worker
has given up, the abort is sent while others still send, and a part that arrives
late sets the failed task to processing again until the sweeper fails it; a first
load that fails lets the listener begin with an empty list; the X is offered on
pending tasks too, and the end of such a task is never announced; the read
marks of conversions are shared by all users; a request that never ends blocks
the queue.

### Findings

1. `UserLastAdmin`: two administrators who remove each other both find the
   other still there (`UserService.ts:177`) and leave none, against the comment
   at `UserService.ts:85`.

## 4. What is proved

With TLAPS, for every value of the constants that satisfies the named
assumptions, which are the `ASSUME`s of the modules: names are distinct
(`ConversionAssumption`, `MetadataAssumption`, `UploadAssumption`,
`UserAssumption`, `GatewayAssumption`), there is at least one delivery
(`QueueAssumption`), a run's timeout is shorter than the sweeper's window
(`WindowAssumption`, 10 < 45 minutes), a second has at least one tick
(`ReadingAssumption`, `SyncAssumption`), a write takes one (`LibraryAssumption`),
and sizes, counts and bounds are numbers (`ServerAssumption`,
`TasksAssumption`, `ClientAssumption`).

* `ConversionJobsProofs`: `TypeCorrect`, `DoneJobsDeliver`,
  `ListedFilesStored`, `SweeperSparesLiveRuns`, `ImplementsLifecycle`. None of
  the properties is inductive. `Inv` adds what a run knows at each of its
  steps: between its put and its INSERT the object is there or was taken by the
  delete of another run (`UploadedOK`); after its INSERT its own row is there
  (`InsertedOK`), so that writing done is safe; ids of new files name the
  delivery that made them, so no two runs share one, and the run that lists a file
  never has a delete of its own (`EitherOK`). `AgeOK` says that a job is
  no older than its run has lasted since it marked the job; with
  `WindowAssumption` the sweeper's guard is then false. `CreatedOK` says that
  nothing is delivered, run or swept that was never inserted, which is what the
  refinement needs.
* `MetadataSyncProofs`: `TypeCorrect`, `ReadyFilesAreFresh`,
  `DoneJobsHaveSynced`, `LockedFilesHaveOwners`, `ImplementsLifecycle`. Without
  `overlap` one run is at work at a time, it has read what the book is now
  (`AloneOK`), and what it is about to call ready is fresh (`FreshOK`, `SyncOK`).
  The hard one is who owns a locked file (`OwnerOK`). An owner is a job, a run,
  an edit or a sweep that will still unlock it. A run has `Passed` a file it is
  done with, or that an edit has locked again under its hands, and owns it no
  more; nor does its job. Since `SweepLook` leaves the files to any unsettled job,
  and that may be the very job whose run has passed the file, the invariant asks
  in that case for an owner no sweep can take (`OwnedStill`). The proof failed at
  first for a run that dies after a sweep has selected its job, which the run's
  bounds do not reach; `stranded` now counts it.
* `UploadSessionProofs`: `UploadMakesOneBook`, `SuccessesHaveBooks`,
  `NoBookIsHalfMade`, `SettlingCleansUp`, `ImplementsLifecycle`. The
  invariant's core is `WinnerOK`: at most one complete request has ever got past
  R2's completion, because the multipart upload leaves the state "open" for
  good; `MadeOK` ties books, rows and objects to that request's step, and
  `SuccessOK` says that a request that was told of its success has ended, its book
  being the task's, listed and stored: no rollback beside it takes any of these.
  `WholeOK` names the step at which the winner is when a book lacks its file's
  row or its object. `BucketOK` says who clears the task's keys: only a request
  that has seen to R2 before, so that a settled task without keys has no open
  multipart upload, and its staging object only while a request is about to
  delete that. `AloneOK` adds what holds while requests come one after another.
* `UserAdminProofs`: `TypeCorrect`, `AnAdminRemains`, `DeletedAreFinal`. While
  administrators act one at a time (`Calm`), an administrator who signs
  somebody up stays one until the account is theirs to configure
  (`ActorStays`), and a write that was decided on still leaves somebody
  (`SafeWrite`), which sign-ups in between cannot change. That is why the
  invariant needs `TargetOK`: an account being inserted is nobody's target.
* `KoboGatewayProofs`: `TypeCorrect`, `NewTokenEndsOld`, `RevokedIsRefused`.
  `StepsOK` says for each request which statements its route can still have to
  make and that the book and the row they are about are there, without which
  not even the types are preserved; `TimesOK` that no time lies ahead of the
  clock, so that the greatest of the states' times exists. `TokensOK` says that
  a request with an INSERT due has revoked every token that was there when it
  began, and that a request that was admitted found its token active after it
  began.
* There too: `SecondStatesOverlap`, `NoStartIsMadeUp`, `StoreTokenGrows`.
  `StatesOK` describes a request between two of its
  statements: an INSERT is due only right after the SELECT that found nothing,
  so that every row inserted since is younger than the request (`MayInsert`); an
  UPDATE of the status is due only right after the read, and what was read then
  is behind the row by no more than the starts that came in between
  (`MayCount`). `InOrder` says that statements are made in that order. `RawOK`
  says that a device carries a store's token no younger than the request it
  waits for, and that this request carries one no older than the device's.
* And `ProgressIsNotSkipped`. `ArrivesOK` bounds every token
  by `issued`, so that a row written on time lies beyond all of them, and says
  of a synchronisation its device still waits for that it shows, or the device
  knows, every state its new token covers; an answer nobody waits for changes no
  device. That cutting times to seconds skips nothing needs no more than
  `ToSecond(t) =< t`.
* `KoboSyncProofs`, in any interleaving: `TypeCorrect`, `ShowsOnlyOfferedHolds`,
  `SecondRowNeedsRaceHolds`.
  `SyncInvariant` bounds every time in a row, a token or an answer by the clock;
  `ReadShape` says which of the SELECTs a synchronisation has behind it at each
  step, and `SeenOK` that what they returned was there at a moment of it, which
  other requests can only add to. `Ordered` gives the order of a request's
  statements; without it a touch or an unarchive might be due of no shelf.
  `RaceOK` says of a book nobody raced for that it has one row at most, and one
  writer at most who is about to insert it, and none once it is there.
* While requests and synchronisations take turns (`[]TakingTurns`):
  `TurnInvariantHolds`, `NewBooksArriveHolds`, `TagsAreCurrentHolds`,
  `RestoresArriveHolds`, `RemovedBooksGoHolds`. A request has found what it is
  about to change as it is (`TaskOK`); what a synchronisation has read is what
  there is (`CurrentOK`); its answer leaves out a readable book only if that is
  marked and the device's token covers it (`AnswerOK`, where `Waiting` are the
  orphans still to be archived). A marked book is on the device or in the answer
  under way, if none was lost (`DeviceOK`); a collection is as its shelf is, or
  the shelf is newer than the token, or a request is about to touch it, if none
  died (`TagOK`). Cutting times to seconds is harmless because a cut time is
  never later than what it stands for: too much is sent, never too little.
* The last two for pages of any size. What was archived or restored after the
  device was told of a book is later than its token's archive time, but for the
  books that a page has passed (`ArchiveOK`): whatever a page leaves for the next
  one is either later than the archive time it gives the device, or in `passed`.
* `ConverterPipelineProofs`: `TypeCorrect`, `SlotsAreNotLost`,
  `OnlyWholeIsStored`. A handler holds a slot exactly at the stages at which it is
  at work (`HoldersOK`), so that the semaphore moves by one with the set of those
  handlers, whose cardinality it is. `WholeOK` is the chain from R2 and back: an
  answer ends whole only if the request was read to its end, that ends only if the
  book or the first answer did, and an object is stored only at the end of a whole
  second answer.
* `UploadClientProofs`: `OnlyCompleteFilesAreCompleted`, `NothingIsToldTwice`.
  `UploadOK`: while an upload is being completed, no worker of it sends and every
  part is acknowledged. `OwesOK` counts turns: a task's status goes from its row
  through an answer in flight and the page's list to what the listener was shown
  last. From each of these to the next it may turn to an end once, and the toasts
  about that end and the turns still on the way are together no more than the news
  there was.

**Only model-checked**: `PagesAdvance` of `KoboSync`, which holds of the libraries
of its scenario and not of every one (section 3), so that a theorem would have
to assume of the rows much of what it is to show; all liveness
(`SettlesForGood`, `FilesSettle`, `Settles`, `UploadsAreTold`, `ComesToRest`),
since the provers have neither fairness nor ENABLED; and facts that need
induction over data, such as what `SelectSeq` leaves of a queue, on
which the `TypeOK` of `UploadClient` rests. The modules contain no RECURSIVE
operator, so all of them can be proved about. Type invariants that no
configuration lists are theorems or conjuncts of the inductive invariants, but
for that of `UploadClient`.

## 5. Not modelled

EPUB parsing, file names, autocomplete and listing queries are data without
control; pages and components keep no state of their own; migrations are
generated; the runtime only wires services together. Of the Kobo store proxy the
headers and the payloads of resources are left out, of the converter the
commands' arguments, the OPF file, the cover part, the retries of the health
check and a panic between taking a slot and giving it back, which no `defer`
answers (`main.go:225`, `:239`), of the upload client the progress bars and file
checks. Names, display order, ranks and rights of shelves, error texts and file
contents beyond a version are abstracted away. Sessions, passwords and e-mail
are Better Auth's. A `put` that its run gives up on is carried out or not at
that moment; only a delete may land later. Every book of `KoboReading` is in the
scope of every synchronisation: which books are is `KoboSync`'s, and a state of
a book that no shelf offers is not sent (`KoboService.ts:756`).

## 6. Plan

1. A composition of conversions and metadata jobs on one `book_files` table:
   the metadata embedded in a conversion can be older than the book's
   (`conversion.ts:84`), the one hazard of the list without a property.
2. Proofs: how far a page must reach, in rows and seconds, for `PagesAdvance` to
   hold of any library (one page of rows within a second is not enough).
3. `UploadClient` with the statement-by-statement handlers of `UploadSession` in
   place of its one-step ones.
