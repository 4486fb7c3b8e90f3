---------------------------- MODULE MetadataSync ----------------------------
(***************************************************************************)
(* Embedding the metadata of a book into its stored files: the server       *)
(* function that edits a book, the calibre-metadata queue, the consumer that *)
(* rewrites every file of the book, and the cron sweeper.                    *)
(*                                                                         *)
(* One book is modelled, edited once per job.  D1 commits each statement on *)
(* its own, so every statement and every bucket call is an action; edits,   *)
(* runs, the files within a run and the sweeper interleave freely.  The     *)
(* metadata of the book is a version number, and the content of a file the  *)
(* version that was embedded last.                                           *)
(* A definition named Mutant... is a plausible slip in the definition that  *)
(* follows it; no specification uses it.                                     *)
(***************************************************************************)
EXTENDS JobQueue

CONSTANTS
  Workers,        \* consumer fibres that can run at a time
  Files,          \* files of the book
  NoJob

ASSUME MetadataAssumption == NoJob \notin Jobs /\ Files # {}

VARIABLES
  meta,        \* version of the books row
  edit,        \* how far updateBookServerFn has come, per job it is to create
  version,     \* version of the row an edit wrote
  status,      \* metadata_jobs.status; "none" before the INSERT
  old,         \* jobs whose updated_at lies before the sweeper's cutoff
  fileStatus,  \* book_files.metadata_status
  content,     \* version embedded in the stored object, or Damaged, or Gone
  late,        \* deletes of the object under way whose run is no more
  pc,          \* where each worker is in its run
  job,         \* the job it runs
  snapshot,    \* version getBookMetadataForProcess read, 0 before
  fileStep,    \* where a run is with each file
  phase,       \* where the sweep is
  sweeping,    \* the ids it has selected
  overlap,     \* history: a run was not alone with the book (see Alone)
  stranded     \* history: something died that alone would have unlocked files

editVars  == <<meta, edit, version>>
jobVars   == <<status, old>>
storeVars == <<content, late>>
fileVars  == <<fileStatus, storeVars>>
runVars   == <<pc, job, snapshot, fileStep>>
sweepVars == <<phase, sweeping>>
vars == <<editVars, jobVars, fileVars, queueVars, runVars, sweepVars, overlap, stranded>>

-----------------------------------------------------------------------------
Locked == {"pending", "processing"}      \* the download route answers 423
Unsettled == {"pending", "processing"}
Active(j) == status[j] \in Unsettled

\* What a key holds when the upload had not the expected size, and once
\* uploadBookFile has deleted that.
Damaged == -1
Gone    == 0
Lost    == {Damaged, Gone}

RunSteps   == {"mark", "lock", "snapshot", "files", "finish"}
FileSteps  == {"none", "mark", "fetch", "upload", "wipe", "ready", "undo", "ok", "err"}
Live(w)    == pc[w] \in RunSteps \cup {"settle", "close"}
NoRun      == \A w \in Workers : ~Live(w)
Editing(j) == edit[j] \in {"updated", "marked"}
InFlight(j) == edit[j] \in {"updated", "marked", "created", "unsent", "closing"}

Init ==
  /\ meta       = 1
  /\ edit       = [j \in Jobs |-> "idle"]
  /\ version    = [j \in Jobs |-> 0]
  /\ status     = [j \in Jobs |-> "none"]
  /\ old        = {}
  /\ fileStatus = [f \in Files |-> "ready"]
  /\ content    = [f \in Files |-> 1]
  /\ late       = [f \in Files |-> 0]
  /\ QueueInit
  /\ pc         = [w \in Workers |-> "idle"]
  /\ job        = [w \in Workers |-> NoJob]
  /\ snapshot   = [w \in Workers |-> 0]
  /\ fileStep   = [w \in Workers |-> [f \in Files |-> "none"]]
  /\ phase      = "idle"
  /\ sweeping   = {}
  /\ overlap    = FALSE
  /\ stranded   = FALSE

-----------------------------------------------------------------------------
(* The UPDATEs of BookService. *)

\* updateMetadataJobStatus asks nothing of the row; $onUpdate makes it young.
SetJob(j, s) ==
  /\ status' = [status EXCEPT ![j] = s]
  /\ old'    = old \ {j}

\* setBookFilesMetadataStatus and setBookFileMetadataStatus, with
\* onlyIfCurrentStatusIn = from.
SetFiles(F, s, from) ==
  fileStatus' = [f \in Files |-> IF f \in F /\ fileStatus[f] \in from
                                 THEN s ELSE fileStatus[f]]

NotReady == {"pending", "processing", "failed"}

-----------------------------------------------------------------------------
(* updateBookServerFn. *)

Step(j, here, there) ==
  /\ edit[j] = here
  /\ edit' = [edit EXCEPT ![j] = there]
  /\ UNCHANGED <<runVars, sweepVars>>

\* A second edit, or an edit during a run, takes its turn out of order.
UpdateBook(j) ==
  /\ Step(j, "idle", "updated")
  /\ meta'    = meta + 1
  /\ version' = [version EXCEPT ![j] = meta + 1]
  /\ overlap' = (overlap \/ ~NoRun \/ \E i \in Jobs : Editing(i))
  /\ UNCHANGED <<jobVars, fileVars, queueVars, stranded>>

MutantNotPending(j) ==
  /\ Step(j, "updated", "marked")
  /\ UNCHANGED <<meta, version, jobVars, fileVars, queueVars, overlap, stranded>>

\* The files are locked before there is a job that could unlock them.
MarkPending(j) ==
  /\ Step(j, "updated", "marked")
  /\ SetFiles(Files, "pending", NotReady \cup {"ready"})
  /\ UNCHANGED <<meta, version, jobVars, storeVars, queueVars, overlap, stranded>>

CreateMetadataJob(j) ==
  /\ Step(j, "marked", "created")
  /\ SetJob(j, "pending")
  /\ UNCHANGED <<meta, version, fileVars, queueVars, overlap, stranded>>

\* METADATA_QUEUE.send may reject.
Send(j) ==
  /\ \/ Step(j, "created", "sent") /\ Enqueue(j)
     \/ Step(j, "created", "unsent") /\ UNCHANGED queueVars
  /\ UNCHANGED <<meta, version, jobVars, fileVars, overlap, stranded>>

\* Then the files are failed, those a run has begun on since included, ...
CloseFiles(j) ==
  /\ Step(j, "unsent", "closing")
  /\ SetFiles(Files, "failed", Locked)
  /\ overlap' = (overlap \/ ~NoRun)
  /\ UNCHANGED <<meta, version, jobVars, storeVars, queueVars, stranded>>

\* ... and after them the job, whatever a run has locked in between.
CloseJob(j) ==
  /\ Step(j, "closing", "closed")
  /\ SetJob(j, "failed")
  /\ stranded' = (stranded \/ \E f \in Files : fileStatus[f] \in Locked)
  /\ UNCHANGED <<meta, version, fileVars, queueVars, overlap>>

\* Any statement can fail, or the request die: nothing is compensated.
EditDies(j) ==
  /\ InFlight(j)
  /\ edit' = [edit EXCEPT ![j] = IF @ = "updated" THEN "unmarked" ELSE "dead"]
  /\ stranded' = (stranded \/ edit[j] = "marked")
  /\ UNCHANGED <<meta, version, jobVars, fileVars, queueVars, runVars, sweepVars, overlap>>

-----------------------------------------------------------------------------
(* Consuming the queue. *)

Deliver(w, j) ==
  /\ pc[w] = "idle"
  /\ Hand(j)
  /\ pc'  = [pc EXCEPT ![w] = "mark"]
  /\ job' = [job EXCEPT ![w] = j]
  /\ overlap' = (overlap \/ ~NoRun)
  /\ UNCHANGED <<editVars, jobVars, fileVars, snapshot, fileStep, sweepVars, stranded>>

\* A delete that the run is still waiting for is not called back.
Release(w) ==
  /\ pc'       = [pc EXCEPT ![w] = "idle"]
  /\ job'      = [job EXCEPT ![w] = NoJob]
  /\ snapshot' = [snapshot EXCEPT ![w] = 0]
  /\ fileStep' = [fileStep EXCEPT ![w] = [f \in Files |-> "none"]]
  /\ late'     = [f \in Files |-> late[f] + (IF fileStep[w][f] = "wipe" THEN 1 ELSE 0)]
  /\ UNCHANGED <<fileStatus, content>>

Ack(w) ==
  /\ pc[w] = "ack"
  /\ Acknowledge(job[w])
  /\ Release(w)
  /\ UNCHANGED <<editVars, jobVars, sweepVars, overlap, stranded>>

\* The job of worker w is unsettled, and neither another run nor a sweep that has
\* selected it is about to settle it.
LeftToJob(w) ==
  /\ Active(job[w]) /\ job[w] \notin sweeping
  /\ \A v \in Workers \ {w} : Live(v) => job[v] # job[w]

\* A defect, or a lost worker: rows stay as they are, and the files it locked
\* are its job's to unlock.
RetryOrCrash(w) ==
  /\ pc[w] # "idle"
  /\ Return(job[w])
  /\ Release(w)
  /\ stranded' = (stranded \/ (Live(w) /\ ~LeftToJob(w)))
  /\ UNCHANGED <<editVars, jobVars, sweepVars, overlap>>

-----------------------------------------------------------------------------
(* A run of runMetadataSync, one statement at a time. *)

At(w, here, there) ==
  /\ pc[w] = here
  /\ pc' = [pc EXCEPT ![w] = there]
  /\ UNCHANGED <<editVars, queueVars, job, sweepVars, overlap>>

MutantNotMarked(w) ==
  /\ At(w, "mark", "lock")
  /\ UNCHANGED <<jobVars, fileVars, snapshot, fileStep, stranded>>

MarkProcessing(w) ==
  /\ At(w, "mark", "lock")
  /\ SetJob(job[w], "processing")
  /\ UNCHANGED <<fileVars, snapshot, fileStep, stranded>>

LockFiles(w) ==
  /\ At(w, "lock", "snapshot")
  /\ SetFiles(Files, "processing", NotReady)
  /\ UNCHANGED <<jobVars, storeVars, snapshot, fileStep, stranded>>

MutantMetadataOfTheEdit(w) ==
  /\ At(w, "snapshot", "files")
  /\ snapshot' = [snapshot EXCEPT ![w] = version[job[w]]]
  /\ fileStep' = [fileStep EXCEPT ![w] = [f \in Files |-> "mark"]]
  /\ UNCHANGED <<jobVars, fileVars, stranded>>

\* getBookMetadataForProcess, and the cover: the row of now, not of the edit.
TakeSnapshot(w) ==
  /\ At(w, "snapshot", "files")
  /\ snapshot' = [snapshot EXCEPT ![w] = meta]
  /\ fileStep' = [fileStep EXCEPT ![w] = [f \in Files |-> "mark"]]
  /\ UNCHANGED <<jobVars, fileVars, stranded>>

MutantIgnoresFailures(w) ==
  /\ \A f \in Files : fileStep[w][f] \in {"ok", "err"}
  /\ At(w, "files", "finish")
  /\ UNCHANGED <<jobVars, fileVars, snapshot, fileStep, stranded>>

\* Effect.either lets every file finish; one Left fails the run.
Gather(w) ==
  /\ \A f \in Files : fileStep[w][f] \in {"ok", "err"}
  /\ At(w, "files", IF \E f \in Files : fileStep[w][f] = "err" THEN "settle" ELSE "finish")
  /\ UNCHANGED <<jobVars, fileVars, snapshot, fileStep, stranded>>

\* The UPDATE can be committed and its answer be lost.
Finish(w) ==
  /\ \E next \in {"ack", "settle"} : At(w, "finish", next)
  /\ SetJob(job[w], "done")
  /\ UNCHANGED <<fileVars, snapshot, fileStep, stranded>>

\* An expected failure of a statement, or METADATA_TASK_TIMEOUT, which
\* interrupts the files without their catchAllCause.
RunFails(w) ==
  /\ pc[w] \in RunSteps
  /\ At(w, pc[w], "settle")
  /\ UNCHANGED <<jobVars, fileVars, snapshot, fileStep, stranded>>

\* settleMetadataFailure survives the loss of either UPDATE.
SettleJob(w) ==
  /\ At(w, "settle", "close")
  /\ SetJob(job[w], "failed") \/ UNCHANGED jobVars
  /\ UNCHANGED <<fileVars, snapshot, fileStep, stranded>>

MutantJobOnly(w) ==
  /\ At(w, "close", "ack")
  /\ UNCHANGED <<jobVars, fileVars, snapshot, fileStep, stranded>>

SettleFiles(w) ==
  /\ At(w, "close", "ack")
  /\ \/ SetFiles(Files, "failed", NotReady) /\ UNCHANGED stranded
     \/ UNCHANGED fileStatus /\ stranded' = TRUE
  /\ UNCHANGED <<jobVars, storeVars, snapshot, fileStep>>

-----------------------------------------------------------------------------
(* runMetadataSyncForFile: the files of a run proceed side by side. *)

FileAt(w, f, here, there) ==
  /\ fileStep[w][f] = here
  /\ fileStep' = [fileStep EXCEPT ![w][f] = there]
  /\ pc[w] = "files"
  /\ UNCHANGED <<editVars, jobVars, queueVars, pc, job, snapshot, sweepVars, overlap, stranded>>

LockFile(w, f) ==
  /\ FileAt(w, f, "mark", "fetch")
  /\ SetFiles({f}, "processing", NotReady)
  /\ UNCHANGED storeVars

\* getBookFile needs the object and the container can process it; a failure of
\* either is FileFails.
FetchFile(w, f) ==
  /\ FileAt(w, f, "fetch", IF content[f] = Gone THEN "undo" ELSE "upload")
  /\ UNCHANGED fileVars

\* The container's output replaces the very object it was made from ...
UploadFile(w, f) ==
  /\ FileAt(w, f, "upload", "ready")
  /\ content' = [content EXCEPT ![f] = snapshot[w]]
  /\ UNCHANGED <<fileStatus, late>>

\* ... which uploadBookFile asks to be deleted when the stored size is not the
\* expected one.
UploadMismatch(w, f) ==
  /\ FileAt(w, f, "upload", "wipe")
  /\ content' = [content EXCEPT ![f] = Damaged]
  /\ UNCHANGED <<fileStatus, late>>

DeleteEnds(f) ==
  /\ content' \in {content, [content EXCEPT ![f] = Gone]}
  /\ UNCHANGED <<editVars, jobVars, fileStatus, queueVars, pc, job, snapshot, sweepVars,
                 overlap, stranded>>

\* Whether the object could be deleted or not, the upload has failed; the run
\* may have timed out while it waited.
DeleteAnswered(w, f) ==
  /\ fileStep[w][f] = "wipe"
  /\ fileStep' = [fileStep EXCEPT ![w][f] = "undo"]
  /\ DeleteEnds(f)
  /\ UNCHANGED late

\* It takes whatever a later run has stored by then.
LateDelete(f) ==
  /\ late[f] > 0
  /\ late' = [late EXCEPT ![f] = @ - 1]
  /\ DeleteEnds(f)
  /\ UNCHANGED fileStep

\* A file that an edit has locked again meanwhile stays locked.
ReadyFile(w, f) ==
  /\ FileAt(w, f, "ready", "ok")
  /\ SetFiles({f}, "ready", {"processing"})
  /\ UNCHANGED storeVars

FileFails(w, f) ==
  /\ fileStep[w][f] \in {"mark", "fetch", "upload", "ready"}
  /\ FileAt(w, f, fileStep[w][f], "undo")
  /\ UNCHANGED fileVars

UndoFile(w, f) ==
  /\ FileAt(w, f, "undo", "err")
  /\ SetFiles({f}, "failed", NotReady) \/ UNCHANGED fileStatus
  /\ UNCHANGED storeVars

-----------------------------------------------------------------------------
(* The sweeper.  A run is timed out long before the window is over, and the few
   statements of an edit or a sweep take no longer: a row refreshed while they
   last is not old before they end, and one that was not may as well have become
   old before they began.  ConversionJobs shows the same with a clock. *)

Age(j) ==
  /\ Active(j)
  /\ \A i \in Jobs : ~InFlight(i)
  /\ \A w \in Workers : pc[w] \notin RunSteps
  /\ phase = "idle"
  /\ old' = old \cup {j}
  /\ UNCHANGED <<editVars, status, fileVars, queueVars, runVars, sweepVars, overlap, stranded>>

Sweeps(here, there) ==
  /\ phase = here
  /\ phase' = there
  /\ UNCHANGED <<editVars, storeVars, queueVars, runVars>>

SweepSelect ==
  /\ \E j \in old : Active(j)
  /\ Sweeps("idle", "selected")
  /\ sweeping' = {j \in old : Active(j)}
  /\ UNCHANGED <<jobVars, fileStatus, overlap, stranded>>

MutantFailsOnlyPending ==
  /\ Sweeps("selected", "failed")
  /\ status' = [j \in Jobs |-> IF j \in sweeping /\ status[j] = "pending"
                               THEN "failed" ELSE status[j]]
  /\ old'    = old \ sweeping
  /\ sweeping' = {}
  /\ UNCHANGED <<fileStatus, overlap, stranded>>

SweepJobs ==
  /\ Sweeps("selected", "failed")
  /\ status' = [j \in Jobs |-> IF j \in sweeping THEN "failed" ELSE status[j]]
  /\ old'    = old \ sweeping
  /\ sweeping' = {}
  /\ UNCHANGED <<fileStatus, overlap, stranded>>

\* A book with another unsettled job keeps its files locked for that one.
SweepLook ==
  /\ Sweeps("failed", IF \E j \in Jobs : Active(j) THEN "idle" ELSE "closing")
  /\ UNCHANGED <<jobVars, fileStatus, sweeping, overlap, stranded>>

MutantSweepsJobsOnly ==
  /\ Sweeps("closing", "idle")
  /\ UNCHANGED <<jobVars, fileStatus, sweeping, overlap, stranded>>

SweepFiles ==
  /\ Sweeps("closing", "idle")
  /\ SetFiles(Files, "failed", Locked)
  /\ overlap' = (overlap \/ ~NoRun)
  /\ UNCHANGED <<jobVars, sweeping, stranded>>

\* A sibling sweep that fails interrupts this one between its statements.
SweepInterrupted ==
  /\ phase # "idle"
  /\ Sweeps(phase, "idle")
  /\ sweeping' = {}
  /\ stranded' = (stranded \/ phase # "selected")
  /\ UNCHANGED <<jobVars, fileStatus, overlap>>

-----------------------------------------------------------------------------
EditStep(j) ==
  \/ UpdateBook(j)
  \/ MarkPending(j)
  \/ CreateMetadataJob(j)
  \/ Send(j)
  \/ CloseFiles(j)
  \/ CloseJob(j)
  \/ EditDies(j)

RunStep(w) ==
  \/ MarkProcessing(w)
  \/ LockFiles(w)
  \/ TakeSnapshot(w)
  \/ Gather(w)
  \/ Finish(w)
  \/ RunFails(w)
  \/ SettleJob(w)
  \/ SettleFiles(w)
  \/ Ack(w)
  \/ RetryOrCrash(w)

FileStep(w, f) ==
  \/ LockFile(w, f)
  \/ FetchFile(w, f)
  \/ UploadFile(w, f)
  \/ UploadMismatch(w, f)
  \/ DeleteAnswered(w, f)
  \/ ReadyFile(w, f)
  \/ FileFails(w, f)
  \/ UndoFile(w, f)

Sweep ==
  \/ SweepSelect
  \/ SweepJobs
  \/ SweepLook
  \/ SweepFiles
  \/ SweepInterrupted

Next ==
  \/ \E j \in Jobs : EditStep(j) \/ Age(j)
  \/ \E w \in Workers, j \in Jobs : Deliver(w, j)
  \/ \E w \in Workers : RunStep(w)
  \/ \E w \in Workers, f \in Files : FileStep(w, f)
  \/ \E f \in Files : LateDelete(f)
  \/ Sweep

SafeSpec == Init /\ [][Next]_vars

\* Runs are timed out and then settle; unsettled jobs age; requests and cron
\* invocations end one way or the other.  No run is promised to succeed, nor a
\* message to be delivered.
Fairness ==
  /\ \A w \in Workers : /\ WF_vars(RunFails(w))
                        /\ WF_vars(SettleJob(w))
                        /\ WF_vars(SettleFiles(w))
                        /\ WF_vars(Ack(w))
  /\ \A j \in Jobs : WF_vars(Age(j)) /\ WF_vars(EditDies(j))
  /\ WF_vars(SweepSelect)
  /\ SF_vars(SweepJobs)
  /\ WF_vars(SweepLook)
  /\ WF_vars(SweepFiles)

Spec == SafeSpec /\ Fairness

-----------------------------------------------------------------------------
(* Types and properties. *)

TypeOK ==
  /\ meta       \in Nat
  /\ edit       \in [Jobs -> {"idle", "updated", "marked", "created", "sent", "unsent",
                              "closing", "closed", "unmarked", "dead"}]
  /\ version    \in [Jobs -> Nat]
  /\ status     \in [Jobs -> {"none", "pending", "processing", "done", "failed"}]
  /\ old        \in SUBSET Jobs
  /\ fileStatus \in [Files -> {"ready"} \cup NotReady]
  /\ content    \in [Files -> Nat \cup Lost]
  /\ late       \in [Files -> Nat]
  /\ QueueTypeOK
  /\ pc         \in [Workers -> {"idle", "settle", "close", "ack"} \cup RunSteps]
  /\ job        \in [Workers -> Jobs \cup {NoJob}]
  /\ snapshot   \in [Workers -> Nat]
  /\ fileStep   \in [Workers -> [Files -> FileSteps]]
  /\ phase      \in {"idle", "selected", "failed", "closing"}
  /\ sweeping   \in SUBSET Jobs
  /\ overlap    \in BOOLEAN
  /\ stranded   \in BOOLEAN

(* A file that can be downloaded holds the metadata the book has now, whatever
   crashes or is delivered twice, except while (or after) an edit stopped
   before it locked the files, when runs or edits overlapped, and for an object
   whose upload had the wrong size, or which the delete after that took. *)
ReadyIsFresh ==
  \A f \in Files : fileStatus[f] = "ready" /\ ~overlap =>
    \/ content[f] \in {meta} \cup Lost
    \/ \E j \in Jobs : edit[j] \in {"updated", "unmarked"}

(* When the job of the last edit is done, no file is left locked or failed:
   "done" is never reported over a file that failed. *)
DoneMeansSynced ==
  \A j \in Jobs : status[j] = "done" /\ version[j] = meta /\ ~overlap =>
    \A f \in Files : fileStatus[f] = "ready" /\ content[f] \in {meta} \cup Lost

(* A locked file, which cannot be downloaded, has somebody to unlock it: an
   edit on its way to create a job, an unsettled job, a run or a sweep, unless
   one of them died on the way. *)
LockedFileIsOwned ==
  (\E f \in Files : fileStatus[f] \in Locked) =>
    \/ \E j \in Jobs : Active(j) \/ edit[j] = "marked"
    \/ \E w \in Workers : Live(w)
    \/ phase \in {"failed", "closing"}
    \/ stranded

(* Every job settles for good and moves only as a job may in between. *)
Lifecycle == INSTANCE JobLifecycle
LifecycleSafe == Lifecycle!Safe
SettlesForGood == Lifecycle!SettlesForGood

(* No file stays locked for ever, unless something died that alone would have
   unlocked it. *)
FilesSettle == \A f \in Files : <>[](fileStatus[f] \notin Locked \/ stranded)
=============================================================================
