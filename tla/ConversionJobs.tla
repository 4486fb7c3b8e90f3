--------------------------- MODULE ConversionJobs ---------------------------
(***************************************************************************)
(* Book format conversion: the server function and the Kobo sync that       *)
(* create jobs, the calibre-conversion queue, the consumer that runs a job  *)
(* statement by statement, and the cron sweeper.                            *)
(*                                                                         *)
(* D1 commits each statement on its own and the code opens no transaction,  *)
(* so every SQL statement and every bucket call is an action of its own.    *)
(* One run is the processing of one delivered message; the runs, the        *)
(* requests and the sweeper interleave freely.  The queue delivers at least *)
(* once: an acknowledgement can be lost and a message delivered twice.      *)
(* A definition named Mutant... is a plausible slip in the definition that   *)
(* follows it; no specification uses it.                                     *)
(*                                                                         *)
(* Time is counted in ticks, of which a run may use RunTimeout (10 minutes) *)
(* and after StaleWindow of which (45 minutes) an unsettled job is stale.   *)
(***************************************************************************)
EXTENDS JobQueue

CONSTANTS
  KoboJobs,       \* those of them a Kobo library sync creates
  Workers,        \* consumer fibres that can run at a time
  Keys,           \* R2 keys books/{bookId}/{baseName}.{format}
  Uploaded,       \* keys of the files books were uploaded with
  Source,         \* Source[j]: key of the file job j converts
  Target,         \* Target[j]: key the result is stored under ...
  Unsupported,    \* ... or this, for a format isBookFileFormat rejects
  NoFile, NoJob,
  RunTimeout,     \* CONVERSION_TASK_TIMEOUT, in ticks
  StaleWindow,    \* STALE_TASK_WINDOW, in ticks
  MaxReads        \* bound: how often a user marks tasks as read

ASSUME ConversionAssumption ==
  /\ KoboJobs \subseteq Jobs
  /\ Uploaded \subseteq Keys
  /\ Source \in [Jobs -> Keys]
  /\ Target \in [Jobs -> Keys \cup {Unsupported}]
  /\ Unsupported \notin Keys
  /\ NoJob \notin Jobs
  /\ RunTimeout \in Nat
  /\ StaleWindow \in Nat
  /\ MaxReads \in Nat

\* The sweeper's window is longer than the longest run.
ASSUME WindowAssumption == RunTimeout < StaleWindow

VARIABLES
  status,    \* conversion_jobs.status; "none" before the INSERT
  result,    \* conversion_jobs.result_file_id
  age,       \* ticks since conversion_jobs.updated_at, up to StaleWindow
  reads,     \* mark-as-read calls made so far
  sync,      \* how far the Kobo sync that may create a job has come
  outbox,    \* jobs inserted whose message is not sent yet
  rows,      \* book_files
  objects,   \* keys with an object in the bucket
  deletes,   \* runs whose storage.delete is under way, after a size mismatch
  wiped,     \* history: runs whose delete took an object not put again since
  pc,        \* where each worker is in its run
  job,       \* the job it runs
  attempt,   \* which delivery of the message the run is for
  elapsed,   \* ticks since runConversionJob began
  sweeping   \* the ids a sweep has selected and not yet updated

jobVars   == <<status, result, age>>
storeVars == <<rows, objects, deletes, wiped>>
runVars   == <<pc, job, attempt, elapsed>>
vars == <<jobVars, reads, sync, outbox, queueVars, storeVars, runVars, sweeping>>

-----------------------------------------------------------------------------
(* crypto.randomUUID() for a new file: no two runs draw the same id. *)
Runs    == Jobs \X (1 .. MaxDeliveries)
FileIds == (Keys \X {0}) \cup Runs

BookFiles == [r2Key : Keys, id : FileIds]

Statuses  == {"none", "pending", "processing", "done", "failed"}
Unsettled == {"pending", "processing"}
Active(j) == status[j] \in Unsettled

Listed(k) == \E r \in rows : r.r2Key = k

\* The steps Effect.timeout bounds, and those of them after the job was
\* marked as processing.
MarkedSteps == {"read", "upload", "wipe", "insert", "finish"}
RunSteps    == {"mark"} \cup MarkedSteps

MutantOnlyPendingIsStale == {j \in Jobs : status[j] = "pending" /\ age[j] >= StaleWindow}

Stale == {j \in Jobs : Active(j) /\ age[j] >= StaleWindow}

Init ==
  /\ status   = [j \in Jobs |-> "none"]
  /\ result   = [j \in Jobs |-> NoFile]
  /\ age      = [j \in Jobs |-> 0]
  /\ reads    = 0
  /\ sync     = [j \in KoboJobs |-> "idle"]
  /\ outbox   = {}
  /\ QueueInit
  /\ rows     = {[r2Key |-> k, id |-> <<k, 0>>] : k \in Uploaded}
  /\ objects  = Uploaded
  /\ deletes  = {}
  /\ wiped    = {}
  /\ pc       = [w \in Workers |-> "idle"]
  /\ job      = [w \in Workers |-> NoJob]
  /\ attempt  = [w \in Workers |-> 0]
  /\ elapsed  = [w \in Workers |-> 0]
  /\ sweeping = {}

-----------------------------------------------------------------------------
(* Creating jobs. *)

InsertJob(j) ==
  /\ status[j] = "none"
  /\ Listed(Source[j])      \* source_file_id references book_files
  /\ status' = [status EXCEPT ![j] = "pending"]
  /\ age'    = [age EXCEPT ![j] = 0]
  /\ outbox' = outbox \cup {j}
  /\ UNCHANGED <<result, reads, queueVars, storeVars, runVars, sweeping>>

\* triggerConversionServerFn, up to its INSERT; any format is accepted.
TriggerConversion(j) ==
  /\ j \notin KoboJobs
  /\ InsertJob(j)
  /\ UNCHANGED sync

\* buildLocalLibrarySync meets a book with an EPUB and no KEPUB.
KoboScan(j) ==
  /\ sync[j] = "idle"
  /\ Listed(Source[j]) /\ ~Listed(Target[j])
  /\ sync' = [sync EXCEPT ![j] = "scanned"]
  /\ UNCHANGED <<jobVars, reads, outbox, queueVars, storeVars, runVars, sweeping>>

\* createMissingKepubConversionJobs looks for an unsettled job of that file.
KoboCheck(j) ==
  /\ sync[j] = "scanned"
  /\ sync' = [sync EXCEPT ![j] =
       IF \E i \in Jobs : Active(i) /\ Source[i] = Source[j] /\ Target[i] = Target[j]
       THEN "skipped" ELSE "missing"]
  /\ UNCHANGED <<jobVars, reads, outbox, queueVars, storeVars, runVars, sweeping>>

KoboInsert(j) ==
  /\ sync[j] = "missing"
  /\ InsertJob(j)
  /\ sync' = [sync EXCEPT ![j] = "created"]

\* CONVERSION_QUEUE.send after the INSERT.  When it fails, or the request
\* dies in between, the row stays: nothing compensates.
Send(j) ==
  /\ j \in outbox
  /\ outbox' = outbox \ {j}
  /\ Enqueue(j) \/ UNCHANGED queueVars
  /\ UNCHANGED <<jobVars, reads, sync, storeVars, runVars, sweeping>>

-----------------------------------------------------------------------------
(* Consuming the queue. *)

\* getConversionJob finds the row, whose format never changes.
Deliver(w, j) ==
  /\ pc[w] = "idle"
  /\ Hand(j)
  /\ pc'       = [pc EXCEPT ![w] = IF Target[j] = Unsupported THEN "settle" ELSE "mark"]
  /\ job'      = [job EXCEPT ![w] = j]
  /\ attempt'  = [attempt EXCEPT ![w] = attempts[j] + 1]
  /\ elapsed'  = [elapsed EXCEPT ![w] = 0]
  /\ UNCHANGED <<jobVars, reads, sync, outbox, storeVars, sweeping>>

Release(w) ==
  /\ pc'      = [pc EXCEPT ![w] = "idle"]
  /\ job'     = [job EXCEPT ![w] = NoJob]
  /\ attempt' = [attempt EXCEPT ![w] = 0]
  /\ elapsed' = [elapsed EXCEPT ![w] = 0]

Ack(w) ==
  /\ pc[w] = "ack"
  /\ Acknowledge(job[w])
  /\ Release(w)
  /\ UNCHANGED <<jobVars, reads, sync, outbox, storeVars, sweeping>>

\* A defect makes queueOutcomeForExit say "retry"; a worker that is lost never
\* answers, and takes with it an ack() that had not been reported yet.  Either
\* way the job's row is left as it is.
RetryOrCrash(w) ==
  /\ pc[w] # "idle"
  /\ Return(job[w])
  /\ Release(w)
  /\ UNCHANGED <<jobVars, reads, sync, outbox, storeVars, sweeping>>

-----------------------------------------------------------------------------
(* A run of runConversionJob, one statement at a time. *)

At(w, here, there) ==
  /\ pc[w] = here
  /\ pc' = [pc EXCEPT ![w] = there]
  /\ UNCHANGED <<job, attempt, elapsed, reads, sync, outbox, queueVars, sweeping>>

MutantNoOnUpdate(j, s, file) ==
  /\ status' = [status EXCEPT ![j] = s]
  /\ result' = [result EXCEPT ![j] = file]
  /\ age'    = age

\* updateConversionJobStatus asks nothing of the row it updates, clears what it
\* is not given and refreshes updated_at.
SetStatus(j, s, file) ==
  /\ status' = [status EXCEPT ![j] = s]
  /\ result' = [result EXCEPT ![j] = file]
  /\ age'    = [age EXCEPT ![j] = 0]

MutantNotMarked(w) ==
  /\ At(w, "mark", "read")
  /\ UNCHANGED <<jobVars, storeVars>>

MarkProcessing(w) ==
  /\ At(w, "mark", "read")
  /\ SetStatus(job[w], "processing", NoFile)
  /\ UNCHANGED storeVars

\* getBookFileRecord and getBookFile: the record and the object must be there.
ReadSource(w) ==
  /\ At(w, "read", IF Listed(Source[job[w]]) /\ Source[job[w]] \in objects
                   THEN "upload" ELSE "settle")
  /\ UNCHANGED <<jobVars, storeVars>>

MutantUploadNotAwaited(w) ==
  /\ At(w, "upload", "insert")
  /\ UNCHANGED <<jobVars, storeVars>>

Run(w) == <<job[w], attempt[w]>>

\* storage.put of uploadBookFile writes over whatever the key holds.
Put(k) ==
  /\ objects' = objects \cup {k}
  /\ wiped'   = {d \in wiped : Target[d[1]] # k}

Upload(w) ==
  /\ At(w, "upload", "insert")
  /\ Put(Target[job[w]])
  /\ UNCHANGED <<jobVars, rows, deletes>>

\* The stored size is not the expected one: the run asks for the key to be
\* deleted.  Until that is answered other runs may put, and list, the same key.
UploadMismatch(w) ==
  /\ At(w, "upload", "wipe")
  /\ Put(Target[job[w]])
  /\ deletes' = deletes \cup {Run(w)}
  /\ UNCHANGED <<jobVars, rows>>

\* Nobody calls a delete back: it also lands when its run has timed out or its
\* worker is lost, and takes whatever the key holds by then.
DeleteLands(d) ==
  /\ d \in deletes
  /\ deletes' = deletes \ {d}
  /\ objects' = objects \ {Target[d[1]]}
  /\ wiped'   = wiped \cup {e \in {d} : Target[e[1]] \in objects}
  /\ UNCHANGED <<jobVars, reads, sync, outbox, queueVars, rows, runVars, sweeping>>

DeleteFails(d) ==
  /\ d \in deletes
  /\ deletes' = deletes \ {d}
  /\ UNCHANGED <<jobVars, reads, sync, outbox, queueVars, rows, objects, wiped,
                 runVars, sweeping>>

\* Whether it could delete or not, uploadBookFile fails.
DeleteAnswered(w) ==
  /\ Run(w) \notin deletes
  /\ At(w, "wipe", "settle")
  /\ UNCHANGED <<jobVars, storeVars>>

MutantInsertOrIgnore(w) ==
  LET k == Target[job[w]] IN
  /\ At(w, "insert", "finish")
  /\ rows' = IF Listed(k) THEN rows
             ELSE rows \cup {[r2Key |-> k, id |-> Run(w)]}
  /\ UNCHANGED <<jobVars, objects, deletes, wiped>>

\* createBookFile; book_files.r2_key is UNIQUE.
InsertFile(w) ==
  LET k == Target[job[w]] IN
  /\ At(w, "insert", IF Listed(k) THEN "settle" ELSE "finish")
  /\ rows' = IF Listed(k) THEN rows
             ELSE rows \cup {[r2Key |-> k, id |-> Run(w)]}
  /\ UNCHANGED <<jobVars, objects, deletes, wiped>>

\* The last UPDATE can be committed and its answer still be lost.
Finish(w) ==
  /\ \E next \in {"ack", "settle"} : At(w, "finish", next)
  /\ SetStatus(job[w], "done", Run(w))
  /\ UNCHANGED storeVars

Stop(w) ==
  /\ At(w, pc[w], "settle")
  /\ UNCHANGED <<jobVars, storeVars>>

\* An expected failure of any statement, the container's among them.  (One
\* that was carried out, but whose answer is lost, is that step and then this.)
RunFails(w) ==
  /\ pc[w] \in RunSteps \ {"wipe"}
  /\ Stop(w)

\* Effect.timeout interrupts a run that has used up its time.
Timeout(w) ==
  /\ pc[w] \in RunSteps
  /\ elapsed[w] >= RunTimeout
  /\ Stop(w)

\* settleConversionFailure acks even when its UPDATE fails.
Settle(w) ==
  /\ At(w, "settle", "ack")
  /\ \/ SetStatus(job[w], "failed", NoFile)
     \/ UNCHANGED jobVars
  /\ UNCHANGED storeVars

-----------------------------------------------------------------------------
(* Time, the notification centre, and the sweeper. *)

\* No run outlives its timeout.
Tick ==
  /\ \A w \in Workers : pc[w] \in RunSteps => elapsed[w] < RunTimeout
  /\ age' = [j \in Jobs |-> IF status[j] # "none" /\ age[j] < StaleWindow
                            THEN age[j] + 1 ELSE age[j]]
  /\ elapsed' = [w \in Workers |-> IF pc[w] \in RunSteps
                                   THEN elapsed[w] + 1 ELSE elapsed[w]]
  /\ UNCHANGED <<status, result, reads, sync, outbox, queueVars, storeVars,
                 pc, job, attempt, sweeping>>

\* Setting read_at also refreshes updated_at ($onUpdate), whatever the status.
MarkAsRead(j) ==
  /\ status[j] # "none"
  /\ reads < MaxReads
  /\ reads' = reads + 1
  /\ age'   = [age EXCEPT ![j] = 0]
  /\ UNCHANGED <<status, result, sync, outbox, queueVars, storeVars, runVars, sweeping>>

\* failStaleConversionJobs selects ids by status and age ...
SweepSelect ==
  /\ sweeping = {}
  /\ Stale # {}
  /\ sweeping' = Stale
  /\ UNCHANGED <<jobVars, reads, sync, outbox, queueVars, storeVars, runVars>>

\* ... and fails those ids, whatever has become of them.
SweepUpdate ==
  /\ sweeping # {}
  /\ status' = [j \in Jobs |-> IF j \in sweeping THEN "failed" ELSE status[j]]
  /\ age'    = [j \in Jobs |-> IF j \in sweeping THEN 0 ELSE age[j]]
  /\ sweeping' = {}
  /\ UNCHANGED <<result, reads, sync, outbox, queueVars, storeVars, runVars>>

\* A sibling sweep that fails interrupts this one between its statements.
SweepInterrupted ==
  /\ sweeping # {}
  /\ sweeping' = {}
  /\ UNCHANGED <<jobVars, reads, sync, outbox, queueVars, storeVars, runVars>>

-----------------------------------------------------------------------------
Request(j) ==
  \/ TriggerConversion(j)
  \/ Send(j)
  \/ MarkAsRead(j)

KoboSync(j) ==
  \/ KoboScan(j)
  \/ KoboCheck(j)
  \/ KoboInsert(j)

RunStep(w) ==
  \/ MarkProcessing(w)
  \/ ReadSource(w)
  \/ Upload(w)
  \/ UploadMismatch(w)
  \/ DeleteAnswered(w)
  \/ InsertFile(w)
  \/ Finish(w)
  \/ RunFails(w)
  \/ Timeout(w)
  \/ Settle(w)
  \/ Ack(w)
  \/ RetryOrCrash(w)

Delete(d) ==
  \/ DeleteLands(d)
  \/ DeleteFails(d)

Sweep ==
  \/ SweepSelect
  \/ SweepUpdate
  \/ SweepInterrupted

Next ==
  \/ \E j \in Jobs : Request(j)
  \/ \E j \in KoboJobs : KoboSync(j)
  \/ \E w \in Workers, j \in Jobs : Deliver(w, j)
  \/ \E w \in Workers : RunStep(w)
  \/ \E d \in deletes : Delete(d)
  \/ Tick
  \/ Sweep

SafeSpec == Init /\ [][Next]_vars

\* Time passes, timeouts fire and consumers settle what they started; cron
\* starts a sweep again and again, and not all of them are interrupted.  No
\* run is ever promised to succeed, nor a message to be delivered.
Fairness ==
  /\ WF_vars(Tick)
  /\ \A w \in Workers : WF_vars(Timeout(w)) /\ WF_vars(Settle(w)) /\ WF_vars(Ack(w))
  /\ WF_vars(SweepSelect)
  /\ SF_vars(SweepUpdate)

Spec == SafeSpec /\ Fairness

-----------------------------------------------------------------------------
(* Types and properties. *)

TypeOK ==
  /\ status   \in [Jobs -> Statuses]
  /\ result   \in [Jobs -> FileIds \cup {NoFile}]
  /\ age      \in [Jobs -> 0 .. StaleWindow]
  /\ reads    \in 0 .. MaxReads
  /\ sync     \in [KoboJobs -> {"idle", "scanned", "missing", "skipped", "created"}]
  /\ outbox   \in SUBSET Jobs
  /\ QueueTypeOK
  /\ rows     \in SUBSET BookFiles
  /\ objects  \in SUBSET Keys
  /\ deletes  \in SUBSET Runs
  /\ wiped    \in SUBSET Runs
  /\ pc       \in [Workers -> {"idle", "settle", "ack"} \cup RunSteps]
  /\ job      \in [Workers -> Jobs \cup {NoJob}]
  /\ attempt  \in [Workers -> 0 .. MaxDeliveries]
  /\ elapsed  \in [Workers -> 0 .. RunTimeout]
  /\ sweeping \in SUBSET Jobs

(* A job shown as done names a listed file, stored under the key of the job's
   target: neither a lost answer, a second delivery nor a sweep leaves a done
   job without its file. *)
DoneJobDelivers ==
  \A j \in Jobs : status[j] = "done" =>
    \E r \in rows : r.id = result[j] /\ r.r2Key = Target[j]

(* Every file the library lists has its object in the bucket, whatever runs
   overlap on its key.  The one exception is what uploadBookFile does to a key
   that a row owns: another run stored a result of the wrong size there, before
   or after the listed one, and its delete came last.  The run that listed the
   file never deletes it. *)
ListedFileStored ==
  \A r \in rows : r.r2Key \notin objects =>
    \E d \in wiped : Target[d[1]] = r.r2Key /\ d # r.id

(* Redelivered and duplicate jobs never list one stored file twice. *)
OneRowPerKey == \A r, s \in rows : r.r2Key = s.r2Key => r = s

(* The sweeper never selects a job that a run is working on: a run keeps the
   row younger than the window for as long as its timeout lets it live. *)
SweepSparesLiveRuns == \A w \in Workers : pc[w] \in MarkedSteps => job[w] \notin Stale

(* Every job settles for good, whatever is lost, crashes or is delivered again,
   and in between moves only as a job may. *)
Lifecycle == INSTANCE JobLifecycle
LifecycleSafe == Lifecycle!Safe
SettlesForGood == Lifecycle!SettlesForGood
=============================================================================
