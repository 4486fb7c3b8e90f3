------------------------- MODULE MetadataSyncProofs -------------------------
(***************************************************************************)
(* Proofs about MetadataSync, for any number of edits of a book, of files    *)
(* it has, of consumers and of deliveries.                                  *)
(***************************************************************************)
EXTENDS MetadataSync, TLAPS

(* A job has a row from its INSERT on, and a message only when its edit sent
   one; the sweeper knows no job but those that have a row. *)
Begun(j) == edit[j] \in {"created", "sent", "unsent", "closing", "closed"}

JobsOK ==
  /\ \A j \in Jobs : edit[j] \in {"idle", "updated", "marked", "unmarked"} => status[j] = "none"
  /\ \A j \in Jobs : Begun(j) => status[j] # "none"
  /\ \A j \in Jobs : message[j] # "none" => edit[j] = "sent"
  /\ \A j \in old \cup sweeping : status[j] # "none"

(* A run works on a job that was sent.  Once it has marked the job, nothing
   makes that pending again, and the job is young until the run is over. *)
RunsOK == \A w \in Workers :
  /\ pc[w] # "idle" => job[w] \in Jobs /\ message[job[w]] # "none"
  /\ pc[w] \in RunSteps \ {"mark"} =>
       status[job[w]] \notin {"none", "pending"} /\ job[w] \notin old
  /\ pc[w] = "finish" => \A f \in Files : fileStep[w][f] = "ok"

(* No two edits wrote the same version. *)
VersionsOK ==
  /\ meta > 0
  /\ \A j \in Jobs : version[j] <= meta
  /\ \A i, j \in Jobs : version[i] = meta /\ version[j] = meta => i = j

(* What "no overlap" means: one run at a time, the edit that is locking the
   files is the last one, and a run has read what the book is now. *)
AloneOK == ~overlap =>
  /\ \A v, w \in Workers : Live(v) /\ Live(w) => v = w
  /\ \A j \in Jobs : Editing(j) => version[j] = meta
  /\ \A w \in Workers : pc[w] = "files" => snapshot[w] = meta

Fresh(f) == content[f] \in {meta} \cup Lost

(* What a run is about to declare ready is fresh. *)
FreshOK == ~overlap =>
  \A w \in Workers, f \in Files : pc[w] = "files" /\ fileStep[w][f] = "ready" => Fresh(f)

(* A run of the last edit keeps the files it has locked, and those it has
   finished are ready. *)
SyncOK == ~overlap =>
  \A w \in Workers, f \in Files : pc[w] \in {"files", "finish"} /\ version[job[w]] = meta =>
    /\ fileStep[w][f] \in {"fetch", "upload", "ready"} => fileStatus[f] \in {"processing", "ready"}
    /\ fileStep[w][f] = "ok" => fileStatus[f] = "ready" /\ Fresh(f)

(* A run that has passed a file will not unlock it any more, should it succeed:
   it is done with the file, or an edit has locked that again under its hands. *)
Passed(w, f) ==
  /\ pc[w] \in {"files", "finish"}
  /\ \/ fileStep[w][f] = "ok"
     \/ fileStep[w][f] \in {"fetch", "upload", "ready"} /\ fileStatus[f] = "pending"

(* So an owner of a locked file is a job none of whose runs has passed it, a run
   that has not, or an edit or a sweep that is about to see to it. *)
Awaits(j, f)  == Active(j) /\ \A w \in Workers : job[w] = j => ~Passed(w, f)
RunOwns(w, f) == Live(w) /\ ~Passed(w, f)

Owned(f) ==
  \/ \E j \in Jobs : Awaits(j, f) \/ edit[j] = "marked"
  \/ \E w \in Workers : RunOwns(w, f)
  \/ phase \in {"failed", "closing"}
  \/ stranded

(* SweepLook leaves the files to any unsettled job.  When a run has passed a file,
   that job may be the run's own; then an owner that no sweep can take is there. *)
Untaken(j) == j \notin old \cup sweeping
Young(w)   == Active(job[w]) => job[w] \notin old

OwnedStill(f) ==
  \/ \E j \in Jobs : (Awaits(j, f) /\ Untaken(j)) \/ edit[j] = "marked"
  \/ \E w \in Workers : RunOwns(w, f) /\ Young(w)
  \/ phase = "closing"
  \/ stranded

OwnerOK(f) == fileStatus[f] \in Locked =>
  Owned(f) /\ ((\E w \in Workers : Passed(w, f)) => OwnedStill(f))

OwnersOK == \A f \in Files : OwnerOK(f)

Inv ==
  /\ TypeOK
  /\ JobsOK
  /\ RunsOK
  /\ VersionsOK
  /\ AloneOK
  /\ FreshOK
  /\ SyncOK
  /\ OwnersOK
  /\ ReadyIsFresh
  /\ DoneMeansSynced

-----------------------------------------------------------------------------
(* The steps of the specification, named once for the proofs below. *)

LEMMA StepCases ==
  ASSUME Next
  PROVE  \/ \E j \in Jobs :
              \/ UpdateBook(j) \/ MarkPending(j) \/ CreateMetadataJob(j) \/ Send(j)
              \/ CloseFiles(j) \/ CloseJob(j) \/ EditDies(j) \/ Age(j)
         \/ \E w \in Workers, j \in Jobs : Deliver(w, j)
         \/ \E w \in Workers :
              \/ MarkProcessing(w) \/ LockFiles(w) \/ TakeSnapshot(w) \/ Gather(w) \/ Finish(w)
              \/ RunFails(w) \/ SettleJob(w) \/ SettleFiles(w) \/ Ack(w) \/ RetryOrCrash(w)
         \/ \E w \in Workers, f \in Files :
              \/ LockFile(w, f) \/ FetchFile(w, f) \/ UploadFile(w, f) \/ UploadMismatch(w, f)
              \/ DeleteAnswered(w, f) \/ ReadyFile(w, f) \/ FileFails(w, f) \/ UndoFile(w, f)
         \/ \E f \in Files : LateDelete(f)
         \/ SweepSelect \/ SweepJobs \/ SweepLook \/ SweepFiles \/ SweepInterrupted
  BY DEF Next, EditStep, RunStep, FileStep, Sweep

LEMMA InitInv == Init => Inv
  <1> SUFFICES ASSUME Init PROVE Inv
    OBVIOUS
  <1> USE MetadataAssumption, QueueAssumption DEF Init, QueueInit
  <1>1. TypeOK
    <2>1. QueueTypeOK
      BY DEF QueueTypeOK
    <2>2. fileStep \in [Workers -> [Files -> FileSteps]]
      BY DEF FileSteps
    <2> QED
      BY <2>1, <2>2 DEF TypeOK, NotReady
  <1>2. JobsOK /\ RunsOK /\ VersionsOK
    BY DEF JobsOK, RunsOK, VersionsOK, Begun, RunSteps
  <1>3. AloneOK /\ FreshOK /\ SyncOK
    BY DEF AloneOK, FreshOK, SyncOK, Live, RunSteps, Editing
  <1>4. OwnersOK /\ ReadyIsFresh /\ DoneMeansSynced
    BY DEF OwnersOK, OwnerOK, ReadyIsFresh, DoneMeansSynced, Locked
  <1> QED
    BY <1>1, <1>2, <1>3, <1>4 DEF Inv

(* Every variable keeps its type. *)
LEMMA NextTypes ==
  ASSUME TypeOK, RunsOK, Next
  PROVE  TypeOK'
  <1> USE MetadataAssumption, QueueAssumption DEF editVars, jobVars, storeVars, fileVars, queueVars, runVars, sweepVars
  <1>1. ASSUME NEW j \in Jobs, UpdateBook(j) PROVE TypeOK'
    BY <1>1 DEF UpdateBook, Step, TypeOK, QueueTypeOK, RunsOK, RunSteps, FileSteps, NotReady
  <1>2. ASSUME NEW j \in Jobs, MarkPending(j) PROVE TypeOK'
    BY <1>2 DEF MarkPending, Step, SetFiles, TypeOK, QueueTypeOK, RunsOK, RunSteps, FileSteps,
       NotReady
  <1>3. ASSUME NEW j \in Jobs, CreateMetadataJob(j) PROVE TypeOK'
    BY <1>3 DEF CreateMetadataJob, Step, SetJob, TypeOK, QueueTypeOK, RunsOK, RunSteps,
       FileSteps, NotReady
  <1>4. ASSUME NEW j \in Jobs, Send(j) PROVE TypeOK'
    <2>1. QueueTypeOK'
      BY <1>4 DEF Send, Enqueue, TypeOK, QueueTypeOK
    <2>2. edit' \in [Jobs -> {"idle", "updated", "marked", "created", "sent", "unsent", "closing",
                           "closed", "unmarked", "dead"}]
      BY <1>4 DEF Send, Step, TypeOK
    <2> QED
      BY <1>4, <2>1, <2>2 DEF Send, Step, TypeOK
  <1>5. ASSUME NEW j \in Jobs, CloseFiles(j) PROVE TypeOK'
    BY <1>5 DEF CloseFiles, Step, SetFiles, TypeOK, QueueTypeOK, RunsOK, RunSteps, FileSteps,
       NotReady
  <1>6. ASSUME NEW j \in Jobs, CloseJob(j) PROVE TypeOK'
    BY <1>6 DEF CloseJob, Step, SetJob, TypeOK, QueueTypeOK, RunsOK, RunSteps, FileSteps,
       NotReady
  <1>7. ASSUME NEW j \in Jobs, EditDies(j) PROVE TypeOK'
    BY <1>7 DEF EditDies, InFlight, TypeOK, QueueTypeOK, RunsOK, RunSteps, FileSteps, NotReady
  <1>8. ASSUME NEW j \in Jobs, Age(j) PROVE TypeOK'
    BY <1>8 DEF Age, InFlight, Active, Unsettled, TypeOK, QueueTypeOK, RunsOK, RunSteps,
       FileSteps, NotReady
  <1>9. ASSUME NEW w \in Workers, NEW j \in Jobs, Deliver(w, j) PROVE TypeOK'
    BY <1>9 DEF Deliver, Hand, Deliverable, TypeOK, QueueTypeOK, RunsOK, RunSteps, FileSteps,
       NotReady
  <1>10. ASSUME NEW w \in Workers, MarkProcessing(w) PROVE TypeOK'
    BY <1>10 DEF MarkProcessing, At, SetJob, TypeOK, QueueTypeOK, RunsOK, RunSteps, FileSteps,
       NotReady
  <1>11. ASSUME NEW w \in Workers, LockFiles(w) PROVE TypeOK'
    BY <1>11 DEF LockFiles, At, SetFiles, TypeOK, QueueTypeOK, RunsOK, RunSteps, FileSteps,
       NotReady
  <1>12. ASSUME NEW w \in Workers, TakeSnapshot(w) PROVE TypeOK'
    BY <1>12 DEF TakeSnapshot, At, TypeOK, QueueTypeOK, RunsOK, RunSteps, FileSteps, NotReady
  <1>13. ASSUME NEW w \in Workers, Gather(w) PROVE TypeOK'
    BY <1>13 DEF Gather, At, TypeOK, QueueTypeOK, RunsOK, RunSteps, FileSteps, NotReady
  <1>14. ASSUME NEW w \in Workers, Finish(w) PROVE TypeOK'
    BY <1>14 DEF Finish, At, SetJob, TypeOK, QueueTypeOK, RunsOK, RunSteps, FileSteps, NotReady
  <1>15. ASSUME NEW w \in Workers, RunFails(w) PROVE TypeOK'
    BY <1>15 DEF RunFails, At, TypeOK, QueueTypeOK, RunsOK, RunSteps, FileSteps, NotReady
  <1>16. ASSUME NEW w \in Workers, SettleJob(w) PROVE TypeOK'
    BY <1>16 DEF SettleJob, At, SetJob, TypeOK, QueueTypeOK, RunsOK, RunSteps, FileSteps,
       NotReady
  <1>17. ASSUME NEW w \in Workers, SettleFiles(w) PROVE TypeOK'
    BY <1>17 DEF SettleFiles, At, SetFiles, TypeOK, QueueTypeOK, RunsOK, RunSteps, FileSteps,
       NotReady
  <1>18. ASSUME NEW w \in Workers, Ack(w) PROVE TypeOK'
    BY <1>18 DEF Ack, Acknowledge, Release, TypeOK, QueueTypeOK, RunsOK, RunSteps, FileSteps,
       NotReady
  <1>19. ASSUME NEW w \in Workers, RetryOrCrash(w) PROVE TypeOK'
    BY <1>19 DEF RetryOrCrash, Return, Release, LeftToJob, TypeOK, QueueTypeOK, RunsOK,
       RunSteps, FileSteps, NotReady
  <1>20. ASSUME NEW w \in Workers, NEW f \in Files, LockFile(w, f) PROVE TypeOK'
    BY <1>20 DEF LockFile, FileAt, SetFiles, TypeOK, QueueTypeOK, RunsOK, RunSteps, FileSteps,
       NotReady
  <1>21. ASSUME NEW w \in Workers, NEW f \in Files, FetchFile(w, f) PROVE TypeOK'
    BY <1>21 DEF FetchFile, FileAt, TypeOK, QueueTypeOK, RunsOK, RunSteps, FileSteps, NotReady
  <1>22. ASSUME NEW w \in Workers, NEW f \in Files, UploadFile(w, f) PROVE TypeOK'
    BY <1>22 DEF UploadFile, FileAt, TypeOK, QueueTypeOK, RunsOK, RunSteps, FileSteps, NotReady
  <1>23. ASSUME NEW w \in Workers, NEW f \in Files, UploadMismatch(w, f) PROVE TypeOK'
    BY <1>23 DEF Lost, Damaged, Gone, UploadMismatch, FileAt, TypeOK, QueueTypeOK, RunsOK, RunSteps, FileSteps,
       NotReady
  <1>24. ASSUME NEW w \in Workers, NEW f \in Files, DeleteAnswered(w, f) PROVE TypeOK'
    BY <1>24 DEF Lost, Damaged, Gone, DeleteAnswered, DeleteEnds, TypeOK, QueueTypeOK, RunsOK, RunSteps, FileSteps,
       NotReady
  <1>25. ASSUME NEW f \in Files, LateDelete(f) PROVE TypeOK'
    BY <1>25 DEF Lost, Damaged, Gone, LateDelete, DeleteEnds, TypeOK, QueueTypeOK, RunsOK, RunSteps, FileSteps,
       NotReady
  <1>26. ASSUME NEW w \in Workers, NEW f \in Files, ReadyFile(w, f) PROVE TypeOK'
    BY <1>26 DEF ReadyFile, FileAt, SetFiles, TypeOK, QueueTypeOK, RunsOK, RunSteps, FileSteps,
       NotReady
  <1>27. ASSUME NEW w \in Workers, NEW f \in Files, FileFails(w, f) PROVE TypeOK'
    BY <1>27 DEF FileFails, FileAt, TypeOK, QueueTypeOK, RunsOK, RunSteps, FileSteps, NotReady
  <1>28. ASSUME NEW w \in Workers, NEW f \in Files, UndoFile(w, f) PROVE TypeOK'
    BY <1>28 DEF UndoFile, FileAt, SetFiles, TypeOK, QueueTypeOK, RunsOK, RunSteps, FileSteps,
       NotReady
  <1>29. ASSUME SweepSelect PROVE TypeOK'
    BY <1>29 DEF SweepSelect, Sweeps, TypeOK, QueueTypeOK, RunsOK, RunSteps, FileSteps, NotReady
  <1>30. ASSUME SweepJobs PROVE TypeOK'
    BY <1>30 DEF SweepJobs, Sweeps, TypeOK, QueueTypeOK, RunsOK, RunSteps, FileSteps, NotReady
  <1>31. ASSUME SweepLook PROVE TypeOK'
    BY <1>31 DEF SweepLook, Sweeps, TypeOK, QueueTypeOK, RunsOK, RunSteps, FileSteps, NotReady
  <1>32. ASSUME SweepFiles PROVE TypeOK'
    BY <1>32 DEF SweepFiles, Sweeps, SetFiles, TypeOK, QueueTypeOK, RunsOK, RunSteps, FileSteps,
       NotReady
  <1>33. ASSUME SweepInterrupted PROVE TypeOK'
    BY <1>33 DEF SweepInterrupted, Sweeps, TypeOK, QueueTypeOK, RunsOK, RunSteps, FileSteps,
       NotReady
  <1>34. QED
    BY StepCases, <1>1, <1>2, <1>3, <1>4, <1>5, <1>6, <1>7, <1>8, <1>9, <1>10, <1>11, <1>12,
       <1>13, <1>14, <1>15, <1>16, <1>17, <1>18, <1>19, <1>20, <1>21, <1>22, <1>23, <1>24, <1>25, <1>26,
       <1>27, <1>28, <1>29, <1>30, <1>31, <1>32, <1>33

(* Rows are inserted before they are worked on. *)
LEMMA NextJobs ==
  ASSUME TypeOK, JobsOK, RunsOK, Next
  PROVE  JobsOK'
  <1> USE MetadataAssumption, QueueAssumption DEF editVars, jobVars, storeVars, fileVars, queueVars, runVars, sweepVars
  <1>1. ASSUME NEW j \in Jobs, UpdateBook(j) PROVE JobsOK'
    BY <1>1 DEF UpdateBook, Step, TypeOK, QueueTypeOK, JobsOK, RunsOK, Begun, RunSteps
  <1>2. ASSUME NEW j \in Jobs, MarkPending(j) PROVE JobsOK'
    BY <1>2 DEF MarkPending, Step, SetFiles, TypeOK, QueueTypeOK, JobsOK, RunsOK, Begun,
       RunSteps
  <1>3. ASSUME NEW j \in Jobs, CreateMetadataJob(j) PROVE JobsOK'
    BY <1>3 DEF CreateMetadataJob, Step, SetJob, TypeOK, QueueTypeOK, JobsOK, RunsOK, Begun,
       RunSteps
  <1>4. ASSUME NEW j \in Jobs, Send(j) PROVE JobsOK'
    BY <1>4 DEF Send, Step, Enqueue, TypeOK, QueueTypeOK, JobsOK, RunsOK, Begun, RunSteps
  <1>5. ASSUME NEW j \in Jobs, CloseFiles(j) PROVE JobsOK'
    BY <1>5 DEF CloseFiles, Step, SetFiles, TypeOK, QueueTypeOK, JobsOK, RunsOK, Begun, RunSteps
  <1>6. ASSUME NEW j \in Jobs, CloseJob(j) PROVE JobsOK'
    BY <1>6 DEF CloseJob, Step, SetJob, TypeOK, QueueTypeOK, JobsOK, RunsOK, Begun, RunSteps
  <1>7. ASSUME NEW j \in Jobs, EditDies(j) PROVE JobsOK'
    BY <1>7 DEF EditDies, InFlight, TypeOK, QueueTypeOK, JobsOK, RunsOK, Begun, RunSteps
  <1>8. ASSUME NEW j \in Jobs, Age(j) PROVE JobsOK'
    BY <1>8 DEF Age, InFlight, Active, Unsettled, TypeOK, QueueTypeOK, JobsOK, RunsOK, Begun,
       RunSteps
  <1>9. ASSUME NEW w \in Workers, NEW j \in Jobs, Deliver(w, j) PROVE JobsOK'
    BY <1>9 DEF Deliver, Hand, Deliverable, TypeOK, QueueTypeOK, JobsOK, RunsOK, Begun, RunSteps
  <1>10. ASSUME NEW w \in Workers, MarkProcessing(w) PROVE JobsOK'
    BY <1>10 DEF MarkProcessing, At, SetJob, TypeOK, QueueTypeOK, JobsOK, RunsOK, Begun,
       RunSteps
  <1>11. ASSUME NEW w \in Workers, LockFiles(w) PROVE JobsOK'
    BY <1>11 DEF LockFiles, At, SetFiles, TypeOK, QueueTypeOK, JobsOK, RunsOK, Begun, RunSteps
  <1>12. ASSUME NEW w \in Workers, TakeSnapshot(w) PROVE JobsOK'
    BY <1>12 DEF TakeSnapshot, At, TypeOK, QueueTypeOK, JobsOK, RunsOK, Begun, RunSteps
  <1>13. ASSUME NEW w \in Workers, Gather(w) PROVE JobsOK'
    BY <1>13 DEF Gather, At, TypeOK, QueueTypeOK, JobsOK, RunsOK, Begun, RunSteps
  <1>14. ASSUME NEW w \in Workers, Finish(w) PROVE JobsOK'
    BY <1>14 DEF Finish, At, SetJob, TypeOK, QueueTypeOK, JobsOK, RunsOK, Begun, RunSteps
  <1>15. ASSUME NEW w \in Workers, RunFails(w) PROVE JobsOK'
    BY <1>15 DEF RunFails, At, TypeOK, QueueTypeOK, JobsOK, RunsOK, Begun, RunSteps
  <1>16. ASSUME NEW w \in Workers, SettleJob(w) PROVE JobsOK'
    BY <1>16 DEF SettleJob, At, SetJob, TypeOK, QueueTypeOK, JobsOK, RunsOK, Begun, RunSteps
  <1>17. ASSUME NEW w \in Workers, SettleFiles(w) PROVE JobsOK'
    BY <1>17 DEF SettleFiles, At, SetFiles, TypeOK, QueueTypeOK, JobsOK, RunsOK, Begun, RunSteps
  <1>18. ASSUME NEW w \in Workers, Ack(w) PROVE JobsOK'
    BY <1>18 DEF Ack, Acknowledge, Release, TypeOK, QueueTypeOK, JobsOK, RunsOK, Begun, RunSteps
  <1>19. ASSUME NEW w \in Workers, RetryOrCrash(w) PROVE JobsOK'
    BY <1>19 DEF RetryOrCrash, Return, Release, LeftToJob, TypeOK, QueueTypeOK, JobsOK, RunsOK,
       Begun, RunSteps
  <1>20. ASSUME NEW w \in Workers, NEW f \in Files, LockFile(w, f) PROVE JobsOK'
    BY <1>20 DEF LockFile, FileAt, SetFiles, TypeOK, QueueTypeOK, JobsOK, RunsOK, Begun,
       RunSteps
  <1>21. ASSUME NEW w \in Workers, NEW f \in Files, FetchFile(w, f) PROVE JobsOK'
    BY <1>21 DEF FetchFile, FileAt, TypeOK, QueueTypeOK, JobsOK, RunsOK, Begun, RunSteps
  <1>22. ASSUME NEW w \in Workers, NEW f \in Files, UploadFile(w, f) PROVE JobsOK'
    BY <1>22 DEF UploadFile, FileAt, TypeOK, QueueTypeOK, JobsOK, RunsOK, Begun, RunSteps
  <1>23. ASSUME NEW w \in Workers, NEW f \in Files, UploadMismatch(w, f) PROVE JobsOK'
    BY <1>23 DEF Lost, Damaged, Gone, UploadMismatch, FileAt, TypeOK, QueueTypeOK, JobsOK, RunsOK, Begun, RunSteps
  <1>24. ASSUME NEW w \in Workers, NEW f \in Files, DeleteAnswered(w, f) PROVE JobsOK'
    BY <1>24 DEF Lost, Damaged, Gone, DeleteAnswered, DeleteEnds, TypeOK, QueueTypeOK, JobsOK, RunsOK, Begun, RunSteps
  <1>25. ASSUME NEW f \in Files, LateDelete(f) PROVE JobsOK'
    BY <1>25 DEF Lost, Damaged, Gone, LateDelete, DeleteEnds, TypeOK, QueueTypeOK, JobsOK, RunsOK, Begun, RunSteps
  <1>26. ASSUME NEW w \in Workers, NEW f \in Files, ReadyFile(w, f) PROVE JobsOK'
    BY <1>26 DEF ReadyFile, FileAt, SetFiles, TypeOK, QueueTypeOK, JobsOK, RunsOK, Begun,
       RunSteps
  <1>27. ASSUME NEW w \in Workers, NEW f \in Files, FileFails(w, f) PROVE JobsOK'
    BY <1>27 DEF FileFails, FileAt, TypeOK, QueueTypeOK, JobsOK, RunsOK, Begun, RunSteps
  <1>28. ASSUME NEW w \in Workers, NEW f \in Files, UndoFile(w, f) PROVE JobsOK'
    BY <1>28 DEF UndoFile, FileAt, SetFiles, TypeOK, QueueTypeOK, JobsOK, RunsOK, Begun,
       RunSteps
  <1>29. ASSUME SweepSelect PROVE JobsOK'
    BY <1>29 DEF SweepSelect, Sweeps, TypeOK, QueueTypeOK, JobsOK, RunsOK, Begun, RunSteps
  <1>30. ASSUME SweepJobs PROVE JobsOK'
    BY <1>30 DEF SweepJobs, Sweeps, TypeOK, QueueTypeOK, JobsOK, RunsOK, Begun, RunSteps
  <1>31. ASSUME SweepLook PROVE JobsOK'
    BY <1>31 DEF SweepLook, Sweeps, TypeOK, QueueTypeOK, JobsOK, RunsOK, Begun, RunSteps
  <1>32. ASSUME SweepFiles PROVE JobsOK'
    BY <1>32 DEF SweepFiles, Sweeps, SetFiles, TypeOK, QueueTypeOK, JobsOK, RunsOK, Begun,
       RunSteps
  <1>33. ASSUME SweepInterrupted PROVE JobsOK'
    BY <1>33 DEF SweepInterrupted, Sweeps, TypeOK, QueueTypeOK, JobsOK, RunsOK, Begun, RunSteps
  <1>34. QED
    BY StepCases, <1>1, <1>2, <1>3, <1>4, <1>5, <1>6, <1>7, <1>8, <1>9, <1>10, <1>11, <1>12,
       <1>13, <1>14, <1>15, <1>16, <1>17, <1>18, <1>19, <1>20, <1>21, <1>22, <1>23, <1>24, <1>25, <1>26,
       <1>27, <1>28, <1>29, <1>30, <1>31, <1>32, <1>33

(* A run's job stays what the run has made of it. *)
LEMMA NextRuns ==
  ASSUME TypeOK, JobsOK, RunsOK, Next
  PROVE  RunsOK'
  <1> USE MetadataAssumption, QueueAssumption DEF editVars, jobVars, storeVars, fileVars, queueVars, runVars, sweepVars
  <1>1. ASSUME NEW j \in Jobs, UpdateBook(j) PROVE RunsOK'
    BY <1>1 DEF UpdateBook, Step, TypeOK, QueueTypeOK, JobsOK, RunsOK, RunSteps
  <1>2. ASSUME NEW j \in Jobs, MarkPending(j) PROVE RunsOK'
    BY <1>2 DEF MarkPending, Step, SetFiles, TypeOK, QueueTypeOK, JobsOK, RunsOK, RunSteps
  <1>3. ASSUME NEW j \in Jobs, CreateMetadataJob(j) PROVE RunsOK'
    BY <1>3 DEF CreateMetadataJob, Step, SetJob, TypeOK, QueueTypeOK, JobsOK, RunsOK, RunSteps
  <1>4. ASSUME NEW j \in Jobs, Send(j) PROVE RunsOK'
    BY <1>4 DEF Send, Step, Enqueue, TypeOK, QueueTypeOK, JobsOK, RunsOK, RunSteps
  <1>5. ASSUME NEW j \in Jobs, CloseFiles(j) PROVE RunsOK'
    BY <1>5 DEF CloseFiles, Step, SetFiles, TypeOK, QueueTypeOK, JobsOK, RunsOK, RunSteps
  <1>6. ASSUME NEW j \in Jobs, CloseJob(j) PROVE RunsOK'
    BY <1>6 DEF CloseJob, Step, SetJob, TypeOK, QueueTypeOK, JobsOK, RunsOK, RunSteps
  <1>7. ASSUME NEW j \in Jobs, EditDies(j) PROVE RunsOK'
    BY <1>7 DEF EditDies, InFlight, TypeOK, QueueTypeOK, JobsOK, RunsOK, RunSteps
  <1>8. ASSUME NEW j \in Jobs, Age(j) PROVE RunsOK'
    BY <1>8 DEF Age, InFlight, Active, Unsettled, TypeOK, QueueTypeOK, JobsOK, RunsOK, RunSteps
  <1>9. ASSUME NEW w \in Workers, NEW j \in Jobs, Deliver(w, j) PROVE RunsOK'
    BY <1>9 DEF Deliver, Hand, Deliverable, TypeOK, QueueTypeOK, JobsOK, RunsOK, RunSteps
  <1>10. ASSUME NEW w \in Workers, MarkProcessing(w) PROVE RunsOK'
    BY <1>10 DEF MarkProcessing, At, SetJob, TypeOK, QueueTypeOK, JobsOK, RunsOK, RunSteps
  <1>11. ASSUME NEW w \in Workers, LockFiles(w) PROVE RunsOK'
    BY <1>11 DEF LockFiles, At, SetFiles, TypeOK, QueueTypeOK, JobsOK, RunsOK, RunSteps
  <1>12. ASSUME NEW w \in Workers, TakeSnapshot(w) PROVE RunsOK'
    BY <1>12 DEF TakeSnapshot, At, TypeOK, QueueTypeOK, JobsOK, RunsOK, RunSteps
  <1>13. ASSUME NEW w \in Workers, Gather(w) PROVE RunsOK'
    BY <1>13 DEF Gather, At, TypeOK, QueueTypeOK, JobsOK, RunsOK, RunSteps
  <1>14. ASSUME NEW w \in Workers, Finish(w) PROVE RunsOK'
    BY <1>14 DEF Finish, At, SetJob, TypeOK, QueueTypeOK, JobsOK, RunsOK, RunSteps
  <1>15. ASSUME NEW w \in Workers, RunFails(w) PROVE RunsOK'
    BY <1>15 DEF RunFails, At, TypeOK, QueueTypeOK, JobsOK, RunsOK, RunSteps
  <1>16. ASSUME NEW w \in Workers, SettleJob(w) PROVE RunsOK'
    BY <1>16 DEF SettleJob, At, SetJob, TypeOK, QueueTypeOK, JobsOK, RunsOK, RunSteps
  <1>17. ASSUME NEW w \in Workers, SettleFiles(w) PROVE RunsOK'
    BY <1>17 DEF SettleFiles, At, SetFiles, TypeOK, QueueTypeOK, JobsOK, RunsOK, RunSteps
  <1>18. ASSUME NEW w \in Workers, Ack(w) PROVE RunsOK'
    BY <1>18 DEF Ack, Acknowledge, Release, TypeOK, QueueTypeOK, JobsOK, RunsOK, RunSteps
  <1>19. ASSUME NEW w \in Workers, RetryOrCrash(w) PROVE RunsOK'
    BY <1>19 DEF RetryOrCrash, Return, Release, LeftToJob, TypeOK, QueueTypeOK, JobsOK, RunsOK,
       RunSteps
  <1>20. ASSUME NEW w \in Workers, NEW f \in Files, LockFile(w, f) PROVE RunsOK'
    BY <1>20 DEF LockFile, FileAt, SetFiles, TypeOK, QueueTypeOK, JobsOK, RunsOK, RunSteps
  <1>21. ASSUME NEW w \in Workers, NEW f \in Files, FetchFile(w, f) PROVE RunsOK'
    BY <1>21 DEF FetchFile, FileAt, TypeOK, QueueTypeOK, JobsOK, RunsOK, RunSteps
  <1>22. ASSUME NEW w \in Workers, NEW f \in Files, UploadFile(w, f) PROVE RunsOK'
    BY <1>22 DEF UploadFile, FileAt, TypeOK, QueueTypeOK, JobsOK, RunsOK, RunSteps
  <1>23. ASSUME NEW w \in Workers, NEW f \in Files, UploadMismatch(w, f) PROVE RunsOK'
    BY <1>23 DEF Lost, Damaged, Gone, UploadMismatch, FileAt, TypeOK, QueueTypeOK, JobsOK, RunsOK, RunSteps
  <1>24. ASSUME NEW w \in Workers, NEW f \in Files, DeleteAnswered(w, f) PROVE RunsOK'
    BY <1>24 DEF Lost, Damaged, Gone, DeleteAnswered, DeleteEnds, TypeOK, QueueTypeOK, JobsOK, RunsOK, RunSteps
  <1>25. ASSUME NEW f \in Files, LateDelete(f) PROVE RunsOK'
    BY <1>25 DEF Lost, Damaged, Gone, LateDelete, DeleteEnds, TypeOK, QueueTypeOK, JobsOK, RunsOK, RunSteps
  <1>26. ASSUME NEW w \in Workers, NEW f \in Files, ReadyFile(w, f) PROVE RunsOK'
    BY <1>26 DEF ReadyFile, FileAt, SetFiles, TypeOK, QueueTypeOK, JobsOK, RunsOK, RunSteps
  <1>27. ASSUME NEW w \in Workers, NEW f \in Files, FileFails(w, f) PROVE RunsOK'
    BY <1>27 DEF FileFails, FileAt, TypeOK, QueueTypeOK, JobsOK, RunsOK, RunSteps
  <1>28. ASSUME NEW w \in Workers, NEW f \in Files, UndoFile(w, f) PROVE RunsOK'
    BY <1>28 DEF UndoFile, FileAt, SetFiles, TypeOK, QueueTypeOK, JobsOK, RunsOK, RunSteps
  <1>29. ASSUME SweepSelect PROVE RunsOK'
    BY <1>29 DEF SweepSelect, Sweeps, TypeOK, QueueTypeOK, JobsOK, RunsOK, RunSteps
  <1>30. ASSUME SweepJobs PROVE RunsOK'
    BY <1>30 DEF SweepJobs, Sweeps, TypeOK, QueueTypeOK, JobsOK, RunsOK, RunSteps
  <1>31. ASSUME SweepLook PROVE RunsOK'
    BY <1>31 DEF SweepLook, Sweeps, TypeOK, QueueTypeOK, JobsOK, RunsOK, RunSteps
  <1>32. ASSUME SweepFiles PROVE RunsOK'
    BY <1>32 DEF SweepFiles, Sweeps, SetFiles, TypeOK, QueueTypeOK, JobsOK, RunsOK, RunSteps
  <1>33. ASSUME SweepInterrupted PROVE RunsOK'
    BY <1>33 DEF SweepInterrupted, Sweeps, TypeOK, QueueTypeOK, JobsOK, RunsOK, RunSteps
  <1>34. QED
    BY StepCases, <1>1, <1>2, <1>3, <1>4, <1>5, <1>6, <1>7, <1>8, <1>9, <1>10, <1>11, <1>12,
       <1>13, <1>14, <1>15, <1>16, <1>17, <1>18, <1>19, <1>20, <1>21, <1>22, <1>23, <1>24, <1>25, <1>26,
       <1>27, <1>28, <1>29, <1>30, <1>31, <1>32, <1>33

(* An edit writes a version of its own. *)
LEMMA NextVersions ==
  ASSUME TypeOK, VersionsOK, Next
  PROVE  VersionsOK'
  <1> USE MetadataAssumption, QueueAssumption DEF editVars, jobVars, storeVars, fileVars, queueVars, runVars, sweepVars
  <1>1. ASSUME NEW j \in Jobs, UpdateBook(j) PROVE VersionsOK'
    BY <1>1 DEF UpdateBook, Step, TypeOK, QueueTypeOK, VersionsOK
  <1>2. ASSUME NEW j \in Jobs, MarkPending(j) PROVE VersionsOK'
    BY <1>2 DEF MarkPending, Step, SetFiles, TypeOK, QueueTypeOK, VersionsOK
  <1>3. ASSUME NEW j \in Jobs, CreateMetadataJob(j) PROVE VersionsOK'
    BY <1>3 DEF CreateMetadataJob, Step, SetJob, TypeOK, QueueTypeOK, VersionsOK
  <1>4. ASSUME NEW j \in Jobs, Send(j) PROVE VersionsOK'
    BY <1>4 DEF Send, Step, Enqueue, TypeOK, QueueTypeOK, VersionsOK
  <1>5. ASSUME NEW j \in Jobs, CloseFiles(j) PROVE VersionsOK'
    BY <1>5 DEF CloseFiles, Step, SetFiles, TypeOK, QueueTypeOK, VersionsOK
  <1>6. ASSUME NEW j \in Jobs, CloseJob(j) PROVE VersionsOK'
    BY <1>6 DEF CloseJob, Step, SetJob, TypeOK, QueueTypeOK, VersionsOK
  <1>7. ASSUME NEW j \in Jobs, EditDies(j) PROVE VersionsOK'
    BY <1>7 DEF EditDies, InFlight, TypeOK, QueueTypeOK, VersionsOK
  <1>8. ASSUME NEW j \in Jobs, Age(j) PROVE VersionsOK'
    BY <1>8 DEF Age, InFlight, Active, Unsettled, TypeOK, QueueTypeOK, VersionsOK
  <1>9. ASSUME NEW w \in Workers, NEW j \in Jobs, Deliver(w, j) PROVE VersionsOK'
    BY <1>9 DEF Deliver, Hand, Deliverable, TypeOK, QueueTypeOK, VersionsOK
  <1>10. ASSUME NEW w \in Workers, MarkProcessing(w) PROVE VersionsOK'
    BY <1>10 DEF MarkProcessing, At, SetJob, TypeOK, QueueTypeOK, VersionsOK
  <1>11. ASSUME NEW w \in Workers, LockFiles(w) PROVE VersionsOK'
    BY <1>11 DEF LockFiles, At, SetFiles, TypeOK, QueueTypeOK, VersionsOK
  <1>12. ASSUME NEW w \in Workers, TakeSnapshot(w) PROVE VersionsOK'
    BY <1>12 DEF TakeSnapshot, At, TypeOK, QueueTypeOK, VersionsOK
  <1>13. ASSUME NEW w \in Workers, Gather(w) PROVE VersionsOK'
    BY <1>13 DEF Gather, At, TypeOK, QueueTypeOK, VersionsOK
  <1>14. ASSUME NEW w \in Workers, Finish(w) PROVE VersionsOK'
    BY <1>14 DEF Finish, At, SetJob, TypeOK, QueueTypeOK, VersionsOK
  <1>15. ASSUME NEW w \in Workers, RunFails(w) PROVE VersionsOK'
    BY <1>15 DEF RunFails, At, TypeOK, QueueTypeOK, VersionsOK
  <1>16. ASSUME NEW w \in Workers, SettleJob(w) PROVE VersionsOK'
    BY <1>16 DEF SettleJob, At, SetJob, TypeOK, QueueTypeOK, VersionsOK
  <1>17. ASSUME NEW w \in Workers, SettleFiles(w) PROVE VersionsOK'
    BY <1>17 DEF SettleFiles, At, SetFiles, TypeOK, QueueTypeOK, VersionsOK
  <1>18. ASSUME NEW w \in Workers, Ack(w) PROVE VersionsOK'
    BY <1>18 DEF Ack, Acknowledge, Release, TypeOK, QueueTypeOK, VersionsOK
  <1>19. ASSUME NEW w \in Workers, RetryOrCrash(w) PROVE VersionsOK'
    BY <1>19 DEF RetryOrCrash, Return, Release, LeftToJob, TypeOK, QueueTypeOK, VersionsOK
  <1>20. ASSUME NEW w \in Workers, NEW f \in Files, LockFile(w, f) PROVE VersionsOK'
    BY <1>20 DEF LockFile, FileAt, SetFiles, TypeOK, QueueTypeOK, VersionsOK
  <1>21. ASSUME NEW w \in Workers, NEW f \in Files, FetchFile(w, f) PROVE VersionsOK'
    BY <1>21 DEF FetchFile, FileAt, TypeOK, QueueTypeOK, VersionsOK
  <1>22. ASSUME NEW w \in Workers, NEW f \in Files, UploadFile(w, f) PROVE VersionsOK'
    BY <1>22 DEF UploadFile, FileAt, TypeOK, QueueTypeOK, VersionsOK
  <1>23. ASSUME NEW w \in Workers, NEW f \in Files, UploadMismatch(w, f) PROVE VersionsOK'
    BY <1>23 DEF Lost, Damaged, Gone, UploadMismatch, FileAt, TypeOK, QueueTypeOK, VersionsOK
  <1>24. ASSUME NEW w \in Workers, NEW f \in Files, DeleteAnswered(w, f) PROVE VersionsOK'
    BY <1>24 DEF Lost, Damaged, Gone, DeleteAnswered, DeleteEnds, TypeOK, QueueTypeOK, VersionsOK
  <1>25. ASSUME NEW f \in Files, LateDelete(f) PROVE VersionsOK'
    BY <1>25 DEF Lost, Damaged, Gone, LateDelete, DeleteEnds, TypeOK, QueueTypeOK, VersionsOK
  <1>26. ASSUME NEW w \in Workers, NEW f \in Files, ReadyFile(w, f) PROVE VersionsOK'
    BY <1>26 DEF ReadyFile, FileAt, SetFiles, TypeOK, QueueTypeOK, VersionsOK
  <1>27. ASSUME NEW w \in Workers, NEW f \in Files, FileFails(w, f) PROVE VersionsOK'
    BY <1>27 DEF FileFails, FileAt, TypeOK, QueueTypeOK, VersionsOK
  <1>28. ASSUME NEW w \in Workers, NEW f \in Files, UndoFile(w, f) PROVE VersionsOK'
    BY <1>28 DEF UndoFile, FileAt, SetFiles, TypeOK, QueueTypeOK, VersionsOK
  <1>29. ASSUME SweepSelect PROVE VersionsOK'
    BY <1>29 DEF SweepSelect, Sweeps, TypeOK, QueueTypeOK, VersionsOK
  <1>30. ASSUME SweepJobs PROVE VersionsOK'
    BY <1>30 DEF SweepJobs, Sweeps, TypeOK, QueueTypeOK, VersionsOK
  <1>31. ASSUME SweepLook PROVE VersionsOK'
    BY <1>31 DEF SweepLook, Sweeps, TypeOK, QueueTypeOK, VersionsOK
  <1>32. ASSUME SweepFiles PROVE VersionsOK'
    BY <1>32 DEF SweepFiles, Sweeps, SetFiles, TypeOK, QueueTypeOK, VersionsOK
  <1>33. ASSUME SweepInterrupted PROVE VersionsOK'
    BY <1>33 DEF SweepInterrupted, Sweeps, TypeOK, QueueTypeOK, VersionsOK
  <1>34. QED
    BY StepCases, <1>1, <1>2, <1>3, <1>4, <1>5, <1>6, <1>7, <1>8, <1>9, <1>10, <1>11, <1>12,
       <1>13, <1>14, <1>15, <1>16, <1>17, <1>18, <1>19, <1>20, <1>21, <1>22, <1>23, <1>24, <1>25, <1>26,
       <1>27, <1>28, <1>29, <1>30, <1>31, <1>32, <1>33

(* Whoever comes too early makes an overlap. *)
LEMMA NextAlone ==
  ASSUME TypeOK, RunsOK, VersionsOK, AloneOK, Next
  PROVE  AloneOK'
  <1> USE MetadataAssumption, QueueAssumption DEF editVars, jobVars, storeVars, fileVars, queueVars, runVars, sweepVars
  <1>1. ASSUME NEW j \in Jobs, UpdateBook(j) PROVE AloneOK'
    BY <1>1 DEF UpdateBook, Step, TypeOK, QueueTypeOK, RunsOK, VersionsOK, AloneOK, Live, NoRun,
       Editing, RunSteps
  <1>2. ASSUME NEW j \in Jobs, MarkPending(j) PROVE AloneOK'
    BY <1>2 DEF MarkPending, Step, SetFiles, TypeOK, QueueTypeOK, RunsOK, VersionsOK, AloneOK,
       Live, NoRun, Editing, RunSteps
  <1>3. ASSUME NEW j \in Jobs, CreateMetadataJob(j) PROVE AloneOK'
    BY <1>3 DEF CreateMetadataJob, Step, SetJob, TypeOK, QueueTypeOK, RunsOK, VersionsOK,
       AloneOK, Live, NoRun, Editing, RunSteps
  <1>4. ASSUME NEW j \in Jobs, Send(j) PROVE AloneOK'
    BY <1>4 DEF Send, Step, Enqueue, TypeOK, QueueTypeOK, RunsOK, VersionsOK, AloneOK, Live,
       NoRun, Editing, RunSteps
  <1>5. ASSUME NEW j \in Jobs, CloseFiles(j) PROVE AloneOK'
    BY <1>5 DEF CloseFiles, Step, SetFiles, TypeOK, QueueTypeOK, RunsOK, VersionsOK, AloneOK,
       Live, NoRun, Editing, RunSteps
  <1>6. ASSUME NEW j \in Jobs, CloseJob(j) PROVE AloneOK'
    BY <1>6 DEF CloseJob, Step, SetJob, TypeOK, QueueTypeOK, RunsOK, VersionsOK, AloneOK, Live,
       NoRun, Editing, RunSteps
  <1>7. ASSUME NEW j \in Jobs, EditDies(j) PROVE AloneOK'
    BY <1>7 DEF EditDies, InFlight, TypeOK, QueueTypeOK, RunsOK, VersionsOK, AloneOK, Live,
       NoRun, Editing, RunSteps
  <1>8. ASSUME NEW j \in Jobs, Age(j) PROVE AloneOK'
    BY <1>8 DEF Age, InFlight, Active, Unsettled, TypeOK, QueueTypeOK, RunsOK, VersionsOK,
       AloneOK, Live, NoRun, Editing, RunSteps
  <1>9. ASSUME NEW w \in Workers, NEW j \in Jobs, Deliver(w, j) PROVE AloneOK'
    <2> SUFFICES ASSUME ~overlap' PROVE AloneOK'
      BY DEF AloneOK
    <2>1. ~overlap /\ pc' = [pc EXCEPT ![w] = "mark"] /\ \A v \in Workers : ~Live(v)
      BY <1>9 DEF Deliver, NoRun
    <2>2. \A v, u \in Workers : Live(v)' /\ Live(u)' => v = u
      BY <2>1 DEF TypeOK, Live
    <2>3. \A v \in Workers : pc'[v] # "files"
      BY <2>1 DEF TypeOK, Live, RunSteps
    <2> QED
      BY <1>9, <2>1, <2>2, <2>3 DEF Deliver, AloneOK, Editing
  <1>10. ASSUME NEW w \in Workers, MarkProcessing(w) PROVE AloneOK'
    BY <1>10 DEF MarkProcessing, At, SetJob, TypeOK, QueueTypeOK, RunsOK, VersionsOK, AloneOK,
       Live, NoRun, Editing, RunSteps
  <1>11. ASSUME NEW w \in Workers, LockFiles(w) PROVE AloneOK'
    BY <1>11 DEF LockFiles, At, SetFiles, TypeOK, QueueTypeOK, RunsOK, VersionsOK, AloneOK,
       Live, NoRun, Editing, RunSteps
  <1>12. ASSUME NEW w \in Workers, TakeSnapshot(w) PROVE AloneOK'
    BY <1>12 DEF TakeSnapshot, At, TypeOK, QueueTypeOK, RunsOK, VersionsOK, AloneOK, Live,
       NoRun, Editing, RunSteps
  <1>13. ASSUME NEW w \in Workers, Gather(w) PROVE AloneOK'
    BY <1>13 DEF Gather, At, TypeOK, QueueTypeOK, RunsOK, VersionsOK, AloneOK, Live, NoRun,
       Editing, RunSteps
  <1>14. ASSUME NEW w \in Workers, Finish(w) PROVE AloneOK'
    BY <1>14 DEF Finish, At, SetJob, TypeOK, QueueTypeOK, RunsOK, VersionsOK, AloneOK, Live,
       NoRun, Editing, RunSteps
  <1>15. ASSUME NEW w \in Workers, RunFails(w) PROVE AloneOK'
    BY <1>15 DEF RunFails, At, TypeOK, QueueTypeOK, RunsOK, VersionsOK, AloneOK, Live, NoRun,
       Editing, RunSteps
  <1>16. ASSUME NEW w \in Workers, SettleJob(w) PROVE AloneOK'
    BY <1>16 DEF SettleJob, At, SetJob, TypeOK, QueueTypeOK, RunsOK, VersionsOK, AloneOK, Live,
       NoRun, Editing, RunSteps
  <1>17. ASSUME NEW w \in Workers, SettleFiles(w) PROVE AloneOK'
    BY <1>17 DEF SettleFiles, At, SetFiles, TypeOK, QueueTypeOK, RunsOK, VersionsOK, AloneOK,
       Live, NoRun, Editing, RunSteps
  <1>18. ASSUME NEW w \in Workers, Ack(w) PROVE AloneOK'
    BY <1>18 DEF Ack, Acknowledge, Release, TypeOK, QueueTypeOK, RunsOK, VersionsOK, AloneOK,
       Live, NoRun, Editing, RunSteps
  <1>19. ASSUME NEW w \in Workers, RetryOrCrash(w) PROVE AloneOK'
    BY <1>19 DEF RetryOrCrash, Return, Release, LeftToJob, TypeOK, QueueTypeOK, RunsOK,
       VersionsOK, AloneOK, Live, NoRun, Editing, RunSteps
  <1>20. ASSUME NEW w \in Workers, NEW f \in Files, LockFile(w, f) PROVE AloneOK'
    BY <1>20 DEF LockFile, FileAt, SetFiles, TypeOK, QueueTypeOK, RunsOK, VersionsOK, AloneOK,
       Live, NoRun, Editing, RunSteps
  <1>21. ASSUME NEW w \in Workers, NEW f \in Files, FetchFile(w, f) PROVE AloneOK'
    BY <1>21 DEF FetchFile, FileAt, TypeOK, QueueTypeOK, RunsOK, VersionsOK, AloneOK, Live,
       NoRun, Editing, RunSteps
  <1>22. ASSUME NEW w \in Workers, NEW f \in Files, UploadFile(w, f) PROVE AloneOK'
    BY <1>22 DEF UploadFile, FileAt, TypeOK, QueueTypeOK, RunsOK, VersionsOK, AloneOK, Live,
       NoRun, Editing, RunSteps
  <1>23. ASSUME NEW w \in Workers, NEW f \in Files, UploadMismatch(w, f) PROVE AloneOK'
    BY <1>23 DEF Lost, Damaged, Gone, UploadMismatch, FileAt, TypeOK, QueueTypeOK, RunsOK, VersionsOK, AloneOK, Live,
       NoRun, Editing, RunSteps
  <1>24. ASSUME NEW w \in Workers, NEW f \in Files, DeleteAnswered(w, f) PROVE AloneOK'
    BY <1>24 DEF Lost, Damaged, Gone, DeleteAnswered, DeleteEnds, TypeOK, QueueTypeOK, RunsOK, VersionsOK, AloneOK, Live,
       NoRun, Editing, RunSteps
  <1>25. ASSUME NEW f \in Files, LateDelete(f) PROVE AloneOK'
    BY <1>25 DEF Lost, Damaged, Gone, LateDelete, DeleteEnds, TypeOK, QueueTypeOK, RunsOK, VersionsOK, AloneOK, Live,
       NoRun, Editing, RunSteps
  <1>26. ASSUME NEW w \in Workers, NEW f \in Files, ReadyFile(w, f) PROVE AloneOK'
    BY <1>26 DEF ReadyFile, FileAt, SetFiles, TypeOK, QueueTypeOK, RunsOK, VersionsOK, AloneOK,
       Live, NoRun, Editing, RunSteps
  <1>27. ASSUME NEW w \in Workers, NEW f \in Files, FileFails(w, f) PROVE AloneOK'
    BY <1>27 DEF FileFails, FileAt, TypeOK, QueueTypeOK, RunsOK, VersionsOK, AloneOK, Live,
       NoRun, Editing, RunSteps
  <1>28. ASSUME NEW w \in Workers, NEW f \in Files, UndoFile(w, f) PROVE AloneOK'
    BY <1>28 DEF UndoFile, FileAt, SetFiles, TypeOK, QueueTypeOK, RunsOK, VersionsOK, AloneOK,
       Live, NoRun, Editing, RunSteps
  <1>29. ASSUME SweepSelect PROVE AloneOK'
    BY <1>29 DEF SweepSelect, Sweeps, TypeOK, QueueTypeOK, RunsOK, VersionsOK, AloneOK, Live,
       NoRun, Editing, RunSteps
  <1>30. ASSUME SweepJobs PROVE AloneOK'
    BY <1>30 DEF SweepJobs, Sweeps, TypeOK, QueueTypeOK, RunsOK, VersionsOK, AloneOK, Live,
       NoRun, Editing, RunSteps
  <1>31. ASSUME SweepLook PROVE AloneOK'
    BY <1>31 DEF SweepLook, Sweeps, TypeOK, QueueTypeOK, RunsOK, VersionsOK, AloneOK, Live,
       NoRun, Editing, RunSteps
  <1>32. ASSUME SweepFiles PROVE AloneOK'
    BY <1>32 DEF SweepFiles, Sweeps, SetFiles, TypeOK, QueueTypeOK, RunsOK, VersionsOK, AloneOK,
       Live, NoRun, Editing, RunSteps
  <1>33. ASSUME SweepInterrupted PROVE AloneOK'
    BY <1>33 DEF SweepInterrupted, Sweeps, TypeOK, QueueTypeOK, RunsOK, VersionsOK, AloneOK,
       Live, NoRun, Editing, RunSteps
  <1>34. QED
    BY StepCases, <1>1, <1>2, <1>3, <1>4, <1>5, <1>6, <1>7, <1>8, <1>9, <1>10, <1>11, <1>12,
       <1>13, <1>14, <1>15, <1>16, <1>17, <1>18, <1>19, <1>20, <1>21, <1>22, <1>23, <1>24, <1>25, <1>26,
       <1>27, <1>28, <1>29, <1>30, <1>31, <1>32, <1>33

(* A file becomes ready with what the book is now. *)
LEMMA NextFresh ==
  ASSUME TypeOK, VersionsOK, AloneOK, FreshOK, ReadyIsFresh, Next
  PROVE  FreshOK' /\ ReadyIsFresh'
  <1> USE MetadataAssumption, QueueAssumption DEF editVars, jobVars, storeVars, fileVars, queueVars, runVars, sweepVars
  <1>1. ASSUME NEW j \in Jobs, UpdateBook(j) PROVE FreshOK' /\ ReadyIsFresh'
    BY <1>1 DEF UpdateBook, Step, TypeOK, QueueTypeOK, AloneOK, FreshOK, Fresh, ReadyIsFresh,
       Live, NoRun, Editing, RunSteps, NotReady, Locked
  <1>2. ASSUME NEW j \in Jobs, MarkPending(j) PROVE FreshOK' /\ ReadyIsFresh'
    BY <1>2 DEF MarkPending, Step, SetFiles, TypeOK, QueueTypeOK, AloneOK, FreshOK, Fresh,
       ReadyIsFresh, Live, NoRun, Editing, RunSteps, NotReady, Locked
  <1>3. ASSUME NEW j \in Jobs, CreateMetadataJob(j) PROVE FreshOK' /\ ReadyIsFresh'
    BY <1>3 DEF CreateMetadataJob, Step, SetJob, TypeOK, QueueTypeOK, AloneOK, FreshOK, Fresh,
       ReadyIsFresh, Live, NoRun, Editing, RunSteps, NotReady, Locked
  <1>4. ASSUME NEW j \in Jobs, Send(j) PROVE FreshOK' /\ ReadyIsFresh'
    BY <1>4 DEF Send, Step, Enqueue, TypeOK, QueueTypeOK, AloneOK, FreshOK, Fresh, ReadyIsFresh,
       Live, NoRun, Editing, RunSteps, NotReady, Locked
  <1>5. ASSUME NEW j \in Jobs, CloseFiles(j) PROVE FreshOK' /\ ReadyIsFresh'
    BY <1>5 DEF CloseFiles, Step, SetFiles, TypeOK, QueueTypeOK, AloneOK, FreshOK, Fresh,
       ReadyIsFresh, Live, NoRun, Editing, RunSteps, NotReady, Locked
  <1>6. ASSUME NEW j \in Jobs, CloseJob(j) PROVE FreshOK' /\ ReadyIsFresh'
    BY <1>6 DEF CloseJob, Step, SetJob, TypeOK, QueueTypeOK, AloneOK, FreshOK, Fresh,
       ReadyIsFresh, Live, NoRun, Editing, RunSteps, NotReady, Locked
  <1>7. ASSUME NEW j \in Jobs, EditDies(j) PROVE FreshOK' /\ ReadyIsFresh'
    BY <1>7 DEF EditDies, InFlight, TypeOK, QueueTypeOK, AloneOK, FreshOK, Fresh, ReadyIsFresh,
       Live, NoRun, Editing, RunSteps, NotReady, Locked
  <1>8. ASSUME NEW j \in Jobs, Age(j) PROVE FreshOK' /\ ReadyIsFresh'
    BY <1>8 DEF Age, InFlight, Active, Unsettled, TypeOK, QueueTypeOK, AloneOK, FreshOK, Fresh,
       ReadyIsFresh, Live, NoRun, Editing, RunSteps, NotReady, Locked
  <1>9. ASSUME NEW w \in Workers, NEW j \in Jobs, Deliver(w, j) PROVE FreshOK' /\ ReadyIsFresh'
    BY <1>9 DEF Deliver, Hand, Deliverable, TypeOK, QueueTypeOK, AloneOK, FreshOK, Fresh,
       ReadyIsFresh, Live, NoRun, Editing, RunSteps, NotReady, Locked
  <1>10. ASSUME NEW w \in Workers, MarkProcessing(w) PROVE FreshOK' /\ ReadyIsFresh'
    BY <1>10 DEF MarkProcessing, At, SetJob, TypeOK, QueueTypeOK, AloneOK, FreshOK, Fresh,
       ReadyIsFresh, Live, NoRun, Editing, RunSteps, NotReady, Locked
  <1>11. ASSUME NEW w \in Workers, LockFiles(w) PROVE FreshOK' /\ ReadyIsFresh'
    BY <1>11 DEF LockFiles, At, SetFiles, TypeOK, QueueTypeOK, AloneOK, FreshOK, Fresh,
       ReadyIsFresh, Live, NoRun, Editing, RunSteps, NotReady, Locked
  <1>12. ASSUME NEW w \in Workers, TakeSnapshot(w) PROVE FreshOK' /\ ReadyIsFresh'
    BY <1>12 DEF TakeSnapshot, At, TypeOK, QueueTypeOK, AloneOK, FreshOK, Fresh, ReadyIsFresh,
       Live, NoRun, Editing, RunSteps, NotReady, Locked
  <1>13. ASSUME NEW w \in Workers, Gather(w) PROVE FreshOK' /\ ReadyIsFresh'
    BY <1>13 DEF Gather, At, TypeOK, QueueTypeOK, AloneOK, FreshOK, Fresh, ReadyIsFresh, Live,
       NoRun, Editing, RunSteps, NotReady, Locked
  <1>14. ASSUME NEW w \in Workers, Finish(w) PROVE FreshOK' /\ ReadyIsFresh'
    BY <1>14 DEF Finish, At, SetJob, TypeOK, QueueTypeOK, AloneOK, FreshOK, Fresh, ReadyIsFresh,
       Live, NoRun, Editing, RunSteps, NotReady, Locked
  <1>15. ASSUME NEW w \in Workers, RunFails(w) PROVE FreshOK' /\ ReadyIsFresh'
    BY <1>15 DEF RunFails, At, TypeOK, QueueTypeOK, AloneOK, FreshOK, Fresh, ReadyIsFresh, Live,
       NoRun, Editing, RunSteps, NotReady, Locked
  <1>16. ASSUME NEW w \in Workers, SettleJob(w) PROVE FreshOK' /\ ReadyIsFresh'
    BY <1>16 DEF SettleJob, At, SetJob, TypeOK, QueueTypeOK, AloneOK, FreshOK, Fresh,
       ReadyIsFresh, Live, NoRun, Editing, RunSteps, NotReady, Locked
  <1>17. ASSUME NEW w \in Workers, SettleFiles(w) PROVE FreshOK' /\ ReadyIsFresh'
    BY <1>17 DEF SettleFiles, At, SetFiles, TypeOK, QueueTypeOK, AloneOK, FreshOK, Fresh,
       ReadyIsFresh, Live, NoRun, Editing, RunSteps, NotReady, Locked
  <1>18. ASSUME NEW w \in Workers, Ack(w) PROVE FreshOK' /\ ReadyIsFresh'
    BY <1>18 DEF Ack, Acknowledge, Release, TypeOK, QueueTypeOK, AloneOK, FreshOK, Fresh,
       ReadyIsFresh, Live, NoRun, Editing, RunSteps, NotReady, Locked
  <1>19. ASSUME NEW w \in Workers, RetryOrCrash(w) PROVE FreshOK' /\ ReadyIsFresh'
    BY <1>19 DEF RetryOrCrash, Return, Release, LeftToJob, TypeOK, QueueTypeOK, AloneOK,
       FreshOK, Fresh, ReadyIsFresh, Live, NoRun, Editing, RunSteps, NotReady, Locked
  <1>20. ASSUME NEW w \in Workers, NEW f \in Files, LockFile(w, f) PROVE FreshOK' /\ ReadyIsFresh'
    BY <1>20 DEF LockFile, FileAt, SetFiles, TypeOK, QueueTypeOK, AloneOK, FreshOK, Fresh,
       ReadyIsFresh, Live, NoRun, Editing, RunSteps, NotReady, Locked
  <1>21. ASSUME NEW w \in Workers, NEW f \in Files, FetchFile(w, f) PROVE FreshOK' /\ ReadyIsFresh'
    BY <1>21 DEF FetchFile, FileAt, TypeOK, QueueTypeOK, AloneOK, FreshOK, Fresh, ReadyIsFresh,
       Live, NoRun, Editing, RunSteps, NotReady, Locked
  <1>22. ASSUME NEW w \in Workers, NEW f \in Files, UploadFile(w, f) PROVE FreshOK' /\ ReadyIsFresh'
    BY <1>22 DEF UploadFile, FileAt, TypeOK, QueueTypeOK, AloneOK, FreshOK, Fresh, ReadyIsFresh,
       Live, NoRun, Editing, RunSteps, NotReady, Locked
  <1>23. ASSUME NEW w \in Workers, NEW f \in Files, UploadMismatch(w, f) PROVE FreshOK' /\ ReadyIsFresh'
    BY <1>23 DEF Lost, Damaged, Gone, UploadMismatch, FileAt, TypeOK, QueueTypeOK, AloneOK, FreshOK, Fresh,
       ReadyIsFresh, Live, NoRun, Editing, RunSteps, NotReady, Locked
  <1>24. ASSUME NEW w \in Workers, NEW f \in Files, DeleteAnswered(w, f) PROVE FreshOK' /\ ReadyIsFresh'
    BY <1>24 DEF Lost, Damaged, Gone, DeleteAnswered, DeleteEnds, TypeOK, QueueTypeOK, AloneOK, FreshOK, Fresh,
       ReadyIsFresh, Live, NoRun, Editing, RunSteps, NotReady, Locked
  <1>25. ASSUME NEW f \in Files, LateDelete(f) PROVE FreshOK' /\ ReadyIsFresh'
    <2>1. /\ UNCHANGED <<meta, edit, fileStatus, overlap, pc, fileStep>>
          /\ \A g \in Files : content'[g] \in {content[g], Gone}
      BY <1>25 DEF LateDelete, DeleteEnds, TypeOK
    <2>2. QED
      BY <2>1 DEF FreshOK, Fresh, ReadyIsFresh, Lost
  <1>26. ASSUME NEW w \in Workers, NEW f \in Files, ReadyFile(w, f) PROVE FreshOK' /\ ReadyIsFresh'
    BY <1>26 DEF ReadyFile, FileAt, SetFiles, TypeOK, QueueTypeOK, AloneOK, FreshOK, Fresh,
       ReadyIsFresh, Live, NoRun, Editing, RunSteps, NotReady, Locked
  <1>27. ASSUME NEW w \in Workers, NEW f \in Files, FileFails(w, f) PROVE FreshOK' /\ ReadyIsFresh'
    BY <1>27 DEF FileFails, FileAt, TypeOK, QueueTypeOK, AloneOK, FreshOK, Fresh, ReadyIsFresh,
       Live, NoRun, Editing, RunSteps, NotReady, Locked
  <1>28. ASSUME NEW w \in Workers, NEW f \in Files, UndoFile(w, f) PROVE FreshOK' /\ ReadyIsFresh'
    BY <1>28 DEF UndoFile, FileAt, SetFiles, TypeOK, QueueTypeOK, AloneOK, FreshOK, Fresh,
       ReadyIsFresh, Live, NoRun, Editing, RunSteps, NotReady, Locked
  <1>29. ASSUME SweepSelect PROVE FreshOK' /\ ReadyIsFresh'
    BY <1>29 DEF SweepSelect, Sweeps, TypeOK, QueueTypeOK, AloneOK, FreshOK, Fresh,
       ReadyIsFresh, Live, NoRun, Editing, RunSteps, NotReady, Locked
  <1>30. ASSUME SweepJobs PROVE FreshOK' /\ ReadyIsFresh'
    BY <1>30 DEF SweepJobs, Sweeps, TypeOK, QueueTypeOK, AloneOK, FreshOK, Fresh, ReadyIsFresh,
       Live, NoRun, Editing, RunSteps, NotReady, Locked
  <1>31. ASSUME SweepLook PROVE FreshOK' /\ ReadyIsFresh'
    BY <1>31 DEF SweepLook, Sweeps, TypeOK, QueueTypeOK, AloneOK, FreshOK, Fresh, ReadyIsFresh,
       Live, NoRun, Editing, RunSteps, NotReady, Locked
  <1>32. ASSUME SweepFiles PROVE FreshOK' /\ ReadyIsFresh'
    BY <1>32 DEF SweepFiles, Sweeps, SetFiles, TypeOK, QueueTypeOK, AloneOK, FreshOK, Fresh,
       ReadyIsFresh, Live, NoRun, Editing, RunSteps, NotReady, Locked
  <1>33. ASSUME SweepInterrupted PROVE FreshOK' /\ ReadyIsFresh'
    BY <1>33 DEF SweepInterrupted, Sweeps, TypeOK, QueueTypeOK, AloneOK, FreshOK, Fresh,
       ReadyIsFresh, Live, NoRun, Editing, RunSteps, NotReady, Locked
  <1>34. QED
    BY StepCases, <1>1, <1>2, <1>3, <1>4, <1>5, <1>6, <1>7, <1>8, <1>9, <1>10, <1>11, <1>12,
       <1>13, <1>14, <1>15, <1>16, <1>17, <1>18, <1>19, <1>20, <1>21, <1>22, <1>23, <1>24, <1>25, <1>26,
       <1>27, <1>28, <1>29, <1>30, <1>31, <1>32, <1>33

(* The run of the last edit leaves every file ready. *)
LEMMA NextSync ==
  ASSUME TypeOK, JobsOK, RunsOK, VersionsOK, AloneOK, FreshOK, SyncOK, DoneMeansSynced, Next
  PROVE  SyncOK' /\ DoneMeansSynced'
  <1> USE MetadataAssumption, QueueAssumption DEF editVars, jobVars, storeVars, fileVars, queueVars, runVars, sweepVars
  <1>1. ASSUME NEW j \in Jobs, UpdateBook(j) PROVE SyncOK' /\ DoneMeansSynced'
    BY <1>1 DEF UpdateBook, Step, TypeOK, QueueTypeOK, JobsOK, RunsOK, VersionsOK, AloneOK,
       FreshOK, SyncOK, Fresh, DoneMeansSynced, Live, NoRun, Editing, RunSteps, NotReady, Locked
  <1>2. ASSUME NEW j \in Jobs, MarkPending(j) PROVE SyncOK' /\ DoneMeansSynced'
    BY <1>2 DEF MarkPending, Step, SetFiles, TypeOK, QueueTypeOK, JobsOK, RunsOK, VersionsOK,
       AloneOK, FreshOK, SyncOK, Fresh, DoneMeansSynced, Live, NoRun, Editing, RunSteps,
       NotReady, Locked
  <1>3. ASSUME NEW j \in Jobs, CreateMetadataJob(j) PROVE SyncOK' /\ DoneMeansSynced'
    BY <1>3 DEF CreateMetadataJob, Step, SetJob, TypeOK, QueueTypeOK, JobsOK, RunsOK,
       VersionsOK, AloneOK, FreshOK, SyncOK, Fresh, DoneMeansSynced, Live, NoRun, Editing,
       RunSteps, NotReady, Locked
  <1>4. ASSUME NEW j \in Jobs, Send(j) PROVE SyncOK' /\ DoneMeansSynced'
    BY <1>4 DEF Send, Step, Enqueue, TypeOK, QueueTypeOK, JobsOK, RunsOK, VersionsOK, AloneOK,
       FreshOK, SyncOK, Fresh, DoneMeansSynced, Live, NoRun, Editing, RunSteps, NotReady, Locked
  <1>5. ASSUME NEW j \in Jobs, CloseFiles(j) PROVE SyncOK' /\ DoneMeansSynced'
    BY <1>5 DEF CloseFiles, Step, SetFiles, TypeOK, QueueTypeOK, JobsOK, RunsOK, VersionsOK,
       AloneOK, FreshOK, SyncOK, Fresh, DoneMeansSynced, Live, NoRun, Editing, RunSteps,
       NotReady, Locked
  <1>6. ASSUME NEW j \in Jobs, CloseJob(j) PROVE SyncOK' /\ DoneMeansSynced'
    BY <1>6 DEF CloseJob, Step, SetJob, TypeOK, QueueTypeOK, JobsOK, RunsOK, VersionsOK,
       AloneOK, FreshOK, SyncOK, Fresh, DoneMeansSynced, Live, NoRun, Editing, RunSteps,
       NotReady, Locked
  <1>7. ASSUME NEW j \in Jobs, EditDies(j) PROVE SyncOK' /\ DoneMeansSynced'
    BY <1>7 DEF EditDies, InFlight, TypeOK, QueueTypeOK, JobsOK, RunsOK, VersionsOK, AloneOK,
       FreshOK, SyncOK, Fresh, DoneMeansSynced, Live, NoRun, Editing, RunSteps, NotReady, Locked
  <1>8. ASSUME NEW j \in Jobs, Age(j) PROVE SyncOK' /\ DoneMeansSynced'
    BY <1>8 DEF Age, InFlight, Active, Unsettled, TypeOK, QueueTypeOK, JobsOK, RunsOK,
       VersionsOK, AloneOK, FreshOK, SyncOK, Fresh, DoneMeansSynced, Live, NoRun, Editing,
       RunSteps, NotReady, Locked
  <1>9. ASSUME NEW w \in Workers, NEW j \in Jobs, Deliver(w, j) PROVE SyncOK' /\ DoneMeansSynced'
    BY <1>9 DEF Deliver, Hand, Deliverable, TypeOK, QueueTypeOK, JobsOK, RunsOK, VersionsOK,
       AloneOK, FreshOK, SyncOK, Fresh, DoneMeansSynced, Live, NoRun, Editing, RunSteps,
       NotReady, Locked
  <1>10. ASSUME NEW w \in Workers, MarkProcessing(w) PROVE SyncOK' /\ DoneMeansSynced'
    BY <1>10 DEF MarkProcessing, At, SetJob, TypeOK, QueueTypeOK, JobsOK, RunsOK, VersionsOK,
       AloneOK, FreshOK, SyncOK, Fresh, DoneMeansSynced, Live, NoRun, Editing, RunSteps,
       NotReady, Locked
  <1>11. ASSUME NEW w \in Workers, LockFiles(w) PROVE SyncOK' /\ DoneMeansSynced'
    BY <1>11 DEF LockFiles, At, SetFiles, TypeOK, QueueTypeOK, JobsOK, RunsOK, VersionsOK,
       AloneOK, FreshOK, SyncOK, Fresh, DoneMeansSynced, Live, NoRun, Editing, RunSteps,
       NotReady, Locked
  <1>12. ASSUME NEW w \in Workers, TakeSnapshot(w) PROVE SyncOK' /\ DoneMeansSynced'
    BY <1>12 DEF TakeSnapshot, At, TypeOK, QueueTypeOK, JobsOK, RunsOK, VersionsOK, AloneOK,
       FreshOK, SyncOK, Fresh, DoneMeansSynced, Live, NoRun, Editing, RunSteps, NotReady, Locked
  <1>13. ASSUME NEW w \in Workers, Gather(w) PROVE SyncOK' /\ DoneMeansSynced'
    BY <1>13 DEF Gather, At, TypeOK, QueueTypeOK, JobsOK, RunsOK, VersionsOK, AloneOK, FreshOK,
       SyncOK, Fresh, DoneMeansSynced, Live, NoRun, Editing, RunSteps, NotReady, Locked
  <1>14. ASSUME NEW w \in Workers, Finish(w) PROVE SyncOK' /\ DoneMeansSynced'
    BY <1>14 DEF Finish, At, SetJob, TypeOK, QueueTypeOK, JobsOK, RunsOK, VersionsOK, AloneOK,
       FreshOK, SyncOK, Fresh, DoneMeansSynced, Live, NoRun, Editing, RunSteps, NotReady, Locked
  <1>15. ASSUME NEW w \in Workers, RunFails(w) PROVE SyncOK' /\ DoneMeansSynced'
    BY <1>15 DEF RunFails, At, TypeOK, QueueTypeOK, JobsOK, RunsOK, VersionsOK, AloneOK,
       FreshOK, SyncOK, Fresh, DoneMeansSynced, Live, NoRun, Editing, RunSteps, NotReady, Locked
  <1>16. ASSUME NEW w \in Workers, SettleJob(w) PROVE SyncOK' /\ DoneMeansSynced'
    BY <1>16 DEF SettleJob, At, SetJob, TypeOK, QueueTypeOK, JobsOK, RunsOK, VersionsOK,
       AloneOK, FreshOK, SyncOK, Fresh, DoneMeansSynced, Live, NoRun, Editing, RunSteps,
       NotReady, Locked
  <1>17. ASSUME NEW w \in Workers, SettleFiles(w) PROVE SyncOK' /\ DoneMeansSynced'
    BY <1>17 DEF SettleFiles, At, SetFiles, TypeOK, QueueTypeOK, JobsOK, RunsOK, VersionsOK,
       AloneOK, FreshOK, SyncOK, Fresh, DoneMeansSynced, Live, NoRun, Editing, RunSteps,
       NotReady, Locked
  <1>18. ASSUME NEW w \in Workers, Ack(w) PROVE SyncOK' /\ DoneMeansSynced'
    BY <1>18 DEF Ack, Acknowledge, Release, TypeOK, QueueTypeOK, JobsOK, RunsOK, VersionsOK,
       AloneOK, FreshOK, SyncOK, Fresh, DoneMeansSynced, Live, NoRun, Editing, RunSteps,
       NotReady, Locked
  <1>19. ASSUME NEW w \in Workers, RetryOrCrash(w) PROVE SyncOK' /\ DoneMeansSynced'
    BY <1>19 DEF RetryOrCrash, Return, Release, LeftToJob, TypeOK, QueueTypeOK, JobsOK, RunsOK,
       VersionsOK, AloneOK, FreshOK, SyncOK, Fresh, DoneMeansSynced, Live, NoRun, Editing,
       RunSteps, NotReady, Locked
  <1>20. ASSUME NEW w \in Workers, NEW f \in Files, LockFile(w, f) PROVE SyncOK' /\ DoneMeansSynced'
    BY <1>20 DEF LockFile, FileAt, SetFiles, TypeOK, QueueTypeOK, JobsOK, RunsOK, VersionsOK,
       AloneOK, FreshOK, SyncOK, Fresh, DoneMeansSynced, Live, NoRun, Editing, RunSteps,
       NotReady, Locked
  <1>21. ASSUME NEW w \in Workers, NEW f \in Files, FetchFile(w, f) PROVE SyncOK' /\ DoneMeansSynced'
    BY <1>21 DEF FetchFile, FileAt, TypeOK, QueueTypeOK, JobsOK, RunsOK, VersionsOK, AloneOK,
       FreshOK, SyncOK, Fresh, DoneMeansSynced, Live, NoRun, Editing, RunSteps, NotReady, Locked
  <1>22. ASSUME NEW w \in Workers, NEW f \in Files, UploadFile(w, f) PROVE SyncOK' /\ DoneMeansSynced'
    BY <1>22 DEF UploadFile, FileAt, TypeOK, QueueTypeOK, JobsOK, RunsOK, VersionsOK, AloneOK,
       FreshOK, SyncOK, Fresh, DoneMeansSynced, Live, NoRun, Editing, RunSteps, NotReady, Locked
  <1>23. ASSUME NEW w \in Workers, NEW f \in Files, UploadMismatch(w, f) PROVE SyncOK' /\ DoneMeansSynced'
    BY <1>23 DEF Lost, Damaged, Gone, UploadMismatch, FileAt, TypeOK, QueueTypeOK, JobsOK, RunsOK, VersionsOK,
       AloneOK, FreshOK, SyncOK, Fresh, DoneMeansSynced, Live, NoRun, Editing, RunSteps,
       NotReady, Locked
  <1>24. ASSUME NEW w \in Workers, NEW f \in Files, DeleteAnswered(w, f) PROVE SyncOK' /\ DoneMeansSynced'
    <2>1. /\ UNCHANGED <<meta, version, status, fileStatus, overlap, pc, job>>
          /\ fileStep' = [fileStep EXCEPT ![w][f] = "undo"]
          /\ \A g \in Files : content'[g] \in {content[g], Gone}
      BY <1>24 DEF DeleteAnswered, DeleteEnds, TypeOK
    <2>2. SyncOK'
      BY <2>1 DEF TypeOK, SyncOK, Fresh, Lost
    <2>3. DoneMeansSynced'
      BY <2>1 DEF DoneMeansSynced, Lost
    <2>4. QED
      BY <2>2, <2>3
  <1>25. ASSUME NEW f \in Files, LateDelete(f) PROVE SyncOK' /\ DoneMeansSynced'
    <2>1. /\ UNCHANGED <<meta, version, status, fileStatus, overlap, pc, job, fileStep>>
          /\ \A g \in Files : content'[g] \in {content[g], Gone}
      BY <1>25 DEF LateDelete, DeleteEnds, TypeOK
    <2>2. SyncOK' /\ DoneMeansSynced'
      BY <2>1 DEF SyncOK, Fresh, DoneMeansSynced, Lost
    <2>3. QED
      BY <2>2
  <1>26. ASSUME NEW w \in Workers, NEW f \in Files, ReadyFile(w, f) PROVE SyncOK' /\ DoneMeansSynced'
    BY <1>26 DEF ReadyFile, FileAt, SetFiles, TypeOK, QueueTypeOK, JobsOK, RunsOK, VersionsOK,
       AloneOK, FreshOK, SyncOK, Fresh, DoneMeansSynced, Live, NoRun, Editing, RunSteps,
       NotReady, Locked
  <1>27. ASSUME NEW w \in Workers, NEW f \in Files, FileFails(w, f) PROVE SyncOK' /\ DoneMeansSynced'
    BY <1>27 DEF FileFails, FileAt, TypeOK, QueueTypeOK, JobsOK, RunsOK, VersionsOK, AloneOK,
       FreshOK, SyncOK, Fresh, DoneMeansSynced, Live, NoRun, Editing, RunSteps, NotReady, Locked
  <1>28. ASSUME NEW w \in Workers, NEW f \in Files, UndoFile(w, f) PROVE SyncOK' /\ DoneMeansSynced'
    <2>1. /\ UNCHANGED <<meta, version, status, overlap, pc, job, content>>
          /\ pc[w] = "files" /\ fileStep[w][f] = "undo"
          /\ fileStep' = [fileStep EXCEPT ![w][f] = "err"]
          /\ \A g \in Files : fileStatus'[g] # fileStatus[g] => g = f /\ fileStatus[f] \in NotReady
      BY <1>28 DEF UndoFile, FileAt, SetFiles, TypeOK
    <2>2. SyncOK'
      BY <1>28, <2>1 DEF TypeOK, RunsOK, AloneOK, SyncOK, Fresh, Live, RunSteps, NotReady
    <2>3. DoneMeansSynced'
      BY <2>1 DEF DoneMeansSynced, NotReady
    <2>4. QED
      BY <2>2, <2>3
  <1>29. ASSUME SweepSelect PROVE SyncOK' /\ DoneMeansSynced'
    BY <1>29 DEF SweepSelect, Sweeps, TypeOK, QueueTypeOK, JobsOK, RunsOK, VersionsOK, AloneOK,
       FreshOK, SyncOK, Fresh, DoneMeansSynced, Live, NoRun, Editing, RunSteps, NotReady, Locked
  <1>30. ASSUME SweepJobs PROVE SyncOK' /\ DoneMeansSynced'
    BY <1>30 DEF SweepJobs, Sweeps, TypeOK, QueueTypeOK, JobsOK, RunsOK, VersionsOK, AloneOK,
       FreshOK, SyncOK, Fresh, DoneMeansSynced, Live, NoRun, Editing, RunSteps, NotReady, Locked
  <1>31. ASSUME SweepLook PROVE SyncOK' /\ DoneMeansSynced'
    BY <1>31 DEF SweepLook, Sweeps, TypeOK, QueueTypeOK, JobsOK, RunsOK, VersionsOK, AloneOK,
       FreshOK, SyncOK, Fresh, DoneMeansSynced, Live, NoRun, Editing, RunSteps, NotReady, Locked
  <1>32. ASSUME SweepFiles PROVE SyncOK' /\ DoneMeansSynced'
    BY <1>32 DEF SweepFiles, Sweeps, SetFiles, TypeOK, QueueTypeOK, JobsOK, RunsOK, VersionsOK,
       AloneOK, FreshOK, SyncOK, Fresh, DoneMeansSynced, Live, NoRun, Editing, RunSteps,
       NotReady, Locked
  <1>33. ASSUME SweepInterrupted PROVE SyncOK' /\ DoneMeansSynced'
    BY <1>33 DEF SweepInterrupted, Sweeps, TypeOK, QueueTypeOK, JobsOK, RunsOK, VersionsOK,
       AloneOK, FreshOK, SyncOK, Fresh, DoneMeansSynced, Live, NoRun, Editing, RunSteps,
       NotReady, Locked
  <1>34. QED
    BY StepCases, <1>1, <1>2, <1>3, <1>4, <1>5, <1>6, <1>7, <1>8, <1>9, <1>10, <1>11, <1>12,
       <1>13, <1>14, <1>15, <1>16, <1>17, <1>18, <1>19, <1>20, <1>21, <1>22, <1>23, <1>24, <1>25, <1>26,
       <1>27, <1>28, <1>29, <1>30, <1>31, <1>32, <1>33

(* The frame of the proof below: a step keeps the owners of a file it does not lock,
   if it brings no run past the file and takes nobody's right to unlock it. *)
LEMMA OwnersStay ==
  ASSUME NEW f \in Files, OwnerOK(f),
         fileStatus'[f] \in Locked => fileStatus[f] \in Locked,
         \A w \in Workers : Passed(w, f)' => Passed(w, f),
         \A w \in Workers : RunOwns(w, f) => RunOwns(w, f)' /\ (Young(w) => Young(w)'),
         \A j \in Jobs : Awaits(j, f) => Awaits(j, f)' /\ (Untaken(j) => Untaken(j)'),
         \A j \in Jobs : edit[j] = "marked" => edit'[j] = "marked",
         phase' = phase,
         stranded => stranded'
  PROVE  OwnerOK(f)'
  BY DEF OwnerOK, Owned, OwnedStill


(* A locked file keeps an owner. *)
LEMMA NextOwners ==
  ASSUME TypeOK, JobsOK, RunsOK, OwnersOK, Next
  PROVE  OwnersOK'
  <1> USE MetadataAssumption, QueueAssumption DEF editVars, jobVars, storeVars, fileVars, queueVars, runVars, sweepVars
  <1>1. ASSUME NEW j \in Jobs, UpdateBook(j) PROVE OwnersOK'
    BY <1>1 DEF UpdateBook, Step, TypeOK, QueueTypeOK, JobsOK, RunsOK, Live, RunSteps, OwnersOK,
       OwnerOK, Young, Untaken, Owned, OwnedStill, Awaits, RunOwns, Passed, Active, Locked,
       Unsettled, NotReady
  <1>2. ASSUME NEW j \in Jobs, MarkPending(j) PROVE OwnersOK'
    BY <1>2 DEF MarkPending, Step, SetFiles, TypeOK, QueueTypeOK, JobsOK, RunsOK, Live,
       RunSteps, OwnersOK, OwnerOK, Young, Untaken, Owned, OwnedStill, Awaits, RunOwns, Passed,
       Active, Locked, Unsettled, NotReady
  <1>3. ASSUME NEW j \in Jobs, CreateMetadataJob(j) PROVE OwnersOK'
    BY <1>3 DEF CreateMetadataJob, Step, SetJob, TypeOK, QueueTypeOK, JobsOK, RunsOK, Live,
       RunSteps, OwnersOK, OwnerOK, Young, Untaken, Owned, OwnedStill, Awaits, RunOwns, Passed,
       Active, Locked, Unsettled, NotReady
  <1>4. ASSUME NEW j \in Jobs, Send(j) PROVE OwnersOK'
    <2> SUFFICES ASSUME NEW f \in Files PROVE OwnerOK(f)'
      BY DEF OwnersOK
    <2>1. OwnerOK(f)
      BY DEF OwnersOK
    <2>2. \A v \in Workers : Passed(v, f)' => Passed(v, f)
      BY <1>4 DEF Send, Step, Enqueue, TypeOK, Passed, RunSteps
    <2>3. \A v \in Workers : RunOwns(v, f) => RunOwns(v, f)' /\ (Young(v) => Young(v)')
      BY <1>4, <2>2 DEF Send, Step, Enqueue, TypeOK, RunOwns, Young, Live, Active, RunSteps
    <2>4. \A i \in Jobs : Awaits(i, f) => Awaits(i, f)' /\ (Untaken(i) => Untaken(i)')
      BY <1>4, <2>2 DEF Send, Step, Enqueue, TypeOK, Awaits, Active, Untaken
    <2> QED
      BY <1>4, <2>1, <2>2, <2>3, <2>4, OwnersStay DEF Send, Step, Enqueue, TypeOK
  <1>5. ASSUME NEW j \in Jobs, CloseFiles(j) PROVE OwnersOK'
    BY <1>5 DEF CloseFiles, Step, SetFiles, TypeOK, QueueTypeOK, JobsOK, RunsOK, Live, RunSteps,
       OwnersOK, OwnerOK, Young, Untaken, Owned, OwnedStill, Awaits, RunOwns, Passed, Active,
       Locked, Unsettled, NotReady
  <1>6. ASSUME NEW j \in Jobs, CloseJob(j) PROVE OwnersOK'
    BY <1>6 DEF CloseJob, Step, SetJob, TypeOK, QueueTypeOK, JobsOK, RunsOK, Live, RunSteps,
       OwnersOK, OwnerOK, Young, Untaken, Owned, OwnedStill, Awaits, RunOwns, Passed, Active,
       Locked, Unsettled, NotReady
  <1>7. ASSUME NEW j \in Jobs, EditDies(j) PROVE OwnersOK'
    <2>1. CASE edit[j] = "marked"
      BY <1>7, <2>1 DEF EditDies, TypeOK, OwnersOK, OwnerOK, Owned, OwnedStill
    <2>2. CASE edit[j] # "marked"
      <3> SUFFICES ASSUME NEW f \in Files PROVE OwnerOK(f)'
        BY DEF OwnersOK
      <3>1. OwnerOK(f)
        BY DEF OwnersOK
      <3>2. \A v \in Workers : Passed(v, f)' => Passed(v, f)
        BY <1>7 DEF EditDies, Passed
      <3>3. \A v \in Workers : RunOwns(v, f) => RunOwns(v, f)' /\ (Young(v) => Young(v)')
        BY <1>7, <3>2 DEF EditDies, RunOwns, Young, Live, Active
      <3>4. \A i \in Jobs : Awaits(i, f) => Awaits(i, f)' /\ (Untaken(i) => Untaken(i)')
        BY <1>7, <3>2 DEF EditDies, Awaits, Active, Untaken
      <3> QED
        BY <1>7, <2>2, <3>1, <3>2, <3>3, <3>4, OwnersStay DEF EditDies, TypeOK
    <2> QED
      BY <2>1, <2>2
  <1>8. ASSUME NEW j \in Jobs, Age(j) PROVE OwnersOK'
    BY <1>8 DEF Age, InFlight, Active, Unsettled, TypeOK, QueueTypeOK, JobsOK, RunsOK, Live,
       RunSteps, OwnersOK, OwnerOK, Young, Untaken, Owned, OwnedStill, Awaits, RunOwns, Passed,
       Active, Locked, Unsettled, NotReady
  <1>9. ASSUME NEW w \in Workers, NEW j \in Jobs, Deliver(w, j) PROVE OwnersOK'
    <2> SUFFICES ASSUME NEW f \in Files PROVE OwnerOK(f)'
      BY DEF OwnersOK
    <2>1. OwnerOK(f)
      BY DEF OwnersOK
    <2>2. \A v \in Workers : Passed(v, f)' => Passed(v, f)
      BY <1>9 DEF Deliver, Hand, Deliverable, TypeOK, Passed, RunSteps
    <2>3. \A v \in Workers : RunOwns(v, f) => RunOwns(v, f)' /\ (Young(v) => Young(v)')
      BY <1>9, <2>2 DEF Deliver, Hand, Deliverable, TypeOK, RunOwns, Young, Live, Active, RunSteps
    <2>4. \A i \in Jobs : Awaits(i, f) => Awaits(i, f)' /\ (Untaken(i) => Untaken(i)')
      BY <1>9, <2>2 DEF Deliver, Hand, Deliverable, TypeOK, Awaits, Active, Passed, Untaken
    <2> QED
      BY <1>9, <2>1, <2>2, <2>3, <2>4, OwnersStay DEF Deliver, Hand, Deliverable, TypeOK
  <1>10. ASSUME NEW w \in Workers, MarkProcessing(w) PROVE OwnersOK'
    BY <1>10 DEF MarkProcessing, At, SetJob, TypeOK, QueueTypeOK, JobsOK, RunsOK, Live,
       RunSteps, OwnersOK, OwnerOK, Young, Untaken, Owned, OwnedStill, Awaits, RunOwns, Passed,
       Active, Locked, Unsettled, NotReady
  <1>11. ASSUME NEW w \in Workers, LockFiles(w) PROVE OwnersOK'
    BY <1>11 DEF LockFiles, At, SetFiles, TypeOK, QueueTypeOK, JobsOK, RunsOK, Live, RunSteps,
       OwnersOK, OwnerOK, Young, Untaken, Owned, OwnedStill, Awaits, RunOwns, Passed, Active,
       Locked, Unsettled, NotReady
  <1>12. ASSUME NEW w \in Workers, TakeSnapshot(w) PROVE OwnersOK'
    BY <1>12 DEF TakeSnapshot, At, TypeOK, QueueTypeOK, JobsOK, RunsOK, Live, RunSteps,
       OwnersOK, OwnerOK, Young, Untaken, Owned, OwnedStill, Awaits, RunOwns, Passed, Active,
       Locked, Unsettled, NotReady
  <1>13. ASSUME NEW w \in Workers, Gather(w) PROVE OwnersOK'
    <2> SUFFICES ASSUME NEW f \in Files PROVE OwnerOK(f)'
      BY DEF OwnersOK
    <2>1. OwnerOK(f)
      BY DEF OwnersOK
    <2>2. \A v \in Workers : Passed(v, f)' => Passed(v, f)
      BY <1>13 DEF Gather, At, TypeOK, Passed, RunSteps
    <2>3. \A v \in Workers : RunOwns(v, f) => RunOwns(v, f)' /\ (Young(v) => Young(v)')
      BY <1>13, <2>2 DEF Gather, At, TypeOK, RunOwns, Young, Live, Active, RunSteps
    <2>4. \A j \in Jobs : Awaits(j, f) => Awaits(j, f)' /\ (Untaken(j) => Untaken(j)')
      BY <1>13, <2>2 DEF Gather, At, TypeOK, Awaits, Active, Untaken
    <2> QED
      BY <1>13, <2>1, <2>2, <2>3, <2>4, OwnersStay DEF Gather, At
  <1>14. ASSUME NEW w \in Workers, Finish(w) PROVE OwnersOK'
    <2> SUFFICES ASSUME NEW f \in Files PROVE OwnerOK(f)'
      BY DEF OwnersOK
    <2>1. OwnerOK(f) /\ Passed(w, f) /\ job[w] \in Jobs
      BY <1>14 DEF OwnersOK, Finish, At, RunsOK, Passed
    <2>2. \A v \in Workers : Passed(v, f)' => Passed(v, f)
      BY <1>14 DEF Finish, At, TypeOK, Passed, RunSteps
    <2>3. \A v \in Workers : RunOwns(v, f) => RunOwns(v, f)' /\ (Young(v) => Young(v)')
      BY <1>14, <2>1, <2>2 DEF Finish, At, SetJob, TypeOK, RunOwns, Young, Live, Active, RunSteps
    <2>4. \A j \in Jobs : Awaits(j, f) => Awaits(j, f)' /\ (Untaken(j) => Untaken(j)')
      BY <1>14, <2>1, <2>2 DEF Finish, At, SetJob, TypeOK, Awaits, Active, Untaken
    <2> QED
      BY <1>14, <2>1, <2>2, <2>3, <2>4, OwnersStay DEF Finish, At
  <1>15. ASSUME NEW w \in Workers, RunFails(w) PROVE OwnersOK'
    BY <1>15 DEF RunFails, At, TypeOK, QueueTypeOK, JobsOK, RunsOK, Live, RunSteps, OwnersOK,
       OwnerOK, Young, Untaken, Owned, OwnedStill, Awaits, RunOwns, Passed, Active, Locked,
       Unsettled, NotReady
  <1>16. ASSUME NEW w \in Workers, SettleJob(w) PROVE OwnersOK'
    <2> SUFFICES ASSUME NEW f \in Files PROVE OwnerOK(f)'
      BY DEF OwnersOK
    <2>1. RunOwns(w, f)'
      BY <1>16 DEF SettleJob, At, TypeOK, RunOwns, Live, Passed
    <2>2. CASE SetJob(job[w], "failed")
      <3>1. Young(w)'
        BY <1>16, <2>2 DEF SettleJob, At, SetJob, TypeOK, RunsOK, Young
      <3> QED
        BY <2>1, <3>1 DEF OwnerOK, Owned, OwnedStill
    <2>3. CASE UNCHANGED jobVars
      <3>1. OwnerOK(f)
        BY DEF OwnersOK
      <3>2. \A v \in Workers : Passed(v, f)' => Passed(v, f)
        BY <1>16 DEF SettleJob, At, TypeOK, Passed
      <3>3. \A v \in Workers : RunOwns(v, f) => RunOwns(v, f)' /\ (Young(v) => Young(v)')
        BY <1>16, <2>3, <3>2 DEF SettleJob, At, TypeOK, RunOwns, Young, Live, Active
      <3>4. \A j \in Jobs : Awaits(j, f) => Awaits(j, f)' /\ (Untaken(j) => Untaken(j)')
        BY <1>16, <2>3, <3>2 DEF SettleJob, At, Awaits, Active, Untaken
      <3> QED
        BY <1>16, <2>3, <3>1, <3>2, <3>3, <3>4, OwnersStay DEF SettleJob, At
    <2> QED
      BY <1>16, <2>2, <2>3 DEF SettleJob
  <1>17. ASSUME NEW w \in Workers, SettleFiles(w) PROVE OwnersOK'
    BY <1>17 DEF SettleFiles, At, SetFiles, TypeOK, QueueTypeOK, JobsOK, RunsOK, Live, RunSteps,
       OwnersOK, OwnerOK, Young, Untaken, Owned, OwnedStill, Awaits, RunOwns, Passed, Active,
       Locked, Unsettled, NotReady
  <1>18. ASSUME NEW w \in Workers, Ack(w) PROVE OwnersOK'
    <2> SUFFICES ASSUME NEW f \in Files PROVE OwnerOK(f)'
      BY DEF OwnersOK
    <2>1. OwnerOK(f)
      BY DEF OwnersOK
    <2>2. \A v \in Workers : Passed(v, f)' => Passed(v, f)
      BY <1>18 DEF Ack, Acknowledge, Release, TypeOK, Passed, RunSteps
    <2>3. \A v \in Workers : RunOwns(v, f) => RunOwns(v, f)' /\ (Young(v) => Young(v)')
      BY <1>18, <2>2 DEF Ack, Acknowledge, Release, TypeOK, RunOwns, Young, Live, Active, RunSteps
    <2>4. \A j \in Jobs : Awaits(j, f) => Awaits(j, f)' /\ (Untaken(j) => Untaken(j)')
      BY <1>18, <2>2 DEF Ack, Acknowledge, Release, TypeOK, Awaits, Active, Passed, Untaken
    <2> QED
      BY <1>18, <2>1, <2>2, <2>3, <2>4, OwnersStay DEF Ack, Acknowledge, Release, TypeOK
  <1>19. ASSUME NEW w \in Workers, RetryOrCrash(w) PROVE OwnersOK'
    <2> SUFFICES ASSUME NEW f \in Files PROVE OwnerOK(f)'
      BY DEF OwnersOK
    <2>1. /\ fileStatus' = fileStatus /\ edit' = edit /\ phase' = phase /\ (stranded => stranded')
          /\ UNCHANGED <<status, old, sweeping>> /\ OwnerOK(f)
      BY <1>19 DEF RetryOrCrash, Return, Release, TypeOK, OwnersOK
    <2>2. /\ \A v \in Workers : Passed(v, f)' => Passed(v, f)
          /\ \A v \in Workers \ {w} : pc'[v] = pc[v] /\ job'[v] = job[v] /\ fileStep'[v] = fileStep[v]
          /\ pc'[w] = "idle"
      BY <1>19 DEF RetryOrCrash, Release, TypeOK, Passed
    <2>3. \A v \in Workers \ {w} : RunOwns(v, f) => RunOwns(v, f)' /\ (Young(v) => Young(v)')
      BY <2>1, <2>2 DEF RunOwns, Young, Live, Active
    <2>4. \A j \in Jobs : Awaits(j, f) => Awaits(j, f)' /\ (Untaken(j) => Untaken(j)')
      <3> SUFFICES ASSUME NEW j \in Jobs, Awaits(j, f), NEW v \in Workers, job'[v] = j, Passed(v, f)'
                   PROVE  FALSE
        BY <2>1 DEF Awaits, Active, Untaken
      <3>1. v # w
        BY <2>2 DEF Passed
      <3> QED
        BY <2>2, <3>1 DEF Awaits
    <2>5. CASE ~Live(w)
      <3>1. ~RunOwns(w, f)
        BY <2>5 DEF RunOwns
      <3> QED
        BY <2>1, <2>2, <2>3, <2>4, <3>1, OwnersStay
    <2>6. CASE Live(w) /\ ~LeftToJob(w)
      BY <1>19, <2>6 DEF RetryOrCrash, OwnerOK, Owned, OwnedStill
    <2>7. CASE Live(w) /\ LeftToJob(w)
      <3>1. PICK i \in Jobs : i = job[w] /\ Active(i) /\ i \notin sweeping
        BY <2>7 DEF Live, LeftToJob, RunsOK, RunSteps
      <3>2. Awaits(i, f)'
        <4> SUFFICES ASSUME NEW v \in Workers, job'[v] = i, Passed(v, f)' PROVE FALSE
          BY <2>1, <3>1 DEF Awaits, Active
        <4>1. v # w /\ Live(v) /\ job[v] = i
          BY <2>2 DEF Passed, Live, RunSteps
        <4> QED
          BY <2>7, <3>1, <4>1 DEF LeftToJob
      <3>3. Owned(f)'
        BY <3>1, <3>2 DEF Owned
      <3>4. OwnedStill(f) => OwnedStill(f)'
        <4>1. CASE i \notin old
          BY <2>1, <3>1, <3>2, <4>1 DEF OwnedStill, Untaken
        <4>2. CASE i \in old
          <5>1. ~Young(w)
            BY <3>1, <4>2 DEF Young
          <5> QED
            BY <2>1, <2>3, <2>4, <5>1 DEF OwnedStill
        <4> QED
          BY <4>1, <4>2
      <3> QED
        BY <2>1, <2>2, <3>3, <3>4 DEF OwnerOK
    <2> QED
      BY <2>5, <2>6, <2>7
  <1>20. ASSUME NEW w \in Workers, NEW f \in Files, LockFile(w, f) PROVE OwnersOK'
    <2> SUFFICES ASSUME NEW g \in Files PROVE OwnerOK(g)'
      BY DEF OwnersOK
    <2>1. CASE g = f
      <3>1. RunOwns(w, g)' /\ Young(w)'
        BY <1>20, <2>1 DEF LockFile, FileAt, SetFiles, TypeOK, RunsOK, RunOwns, Passed, Young, Live,
           RunSteps, NotReady, Active
      <3> QED
        BY <3>1 DEF OwnerOK, Owned, OwnedStill
    <2>2. CASE g # f
      <3>1. OwnerOK(g) /\ (g # f => fileStep'[w][g] = fileStep[w][g] /\ fileStatus'[g] = fileStatus[g])
        BY <1>20, <2>2 DEF LockFile, FileAt, SetFiles, TypeOK, OwnersOK
      <3>2. \A v \in Workers : Passed(v, g)' => Passed(v, g)
        BY <1>20, <2>2, <3>1 DEF LockFile, FileAt, SetFiles, TypeOK, Passed
      <3>3. \A v \in Workers : RunOwns(v, g) => RunOwns(v, g)' /\ (Young(v) => Young(v)')
        BY <1>20, <2>2, <3>1, <3>2 DEF LockFile, FileAt, SetFiles, TypeOK, RunOwns, Young, Live, Active
      <3>4. \A j \in Jobs : Awaits(j, g) => Awaits(j, g)' /\ (Untaken(j) => Untaken(j)')
        BY <1>20, <2>2, <3>2 DEF LockFile, FileAt, SetFiles, Awaits, Active, Untaken
      <3> QED
        BY <1>20, <2>2, <3>1, <3>2, <3>3, <3>4, OwnersStay DEF LockFile, FileAt, SetFiles
    <2> QED
      BY <2>1, <2>2
  <1>21. ASSUME NEW w \in Workers, NEW f \in Files, FetchFile(w, f) PROVE OwnersOK'
    <2> SUFFICES ASSUME NEW g \in Files PROVE OwnerOK(g)'
      BY DEF OwnersOK
    <2>1. OwnerOK(g) /\ (g # f => fileStep'[w][g] = fileStep[w][g] /\ fileStatus'[g] = fileStatus[g])
      BY <1>21 DEF FetchFile, FileAt, TypeOK, OwnersOK
    <2>2. \A v \in Workers : Passed(v, g)' => Passed(v, g)
      BY <1>21, <2>1 DEF FetchFile, FileAt, TypeOK, Passed
    <2>3. \A v \in Workers : RunOwns(v, g) => RunOwns(v, g)' /\ (Young(v) => Young(v)')
      BY <1>21, <2>1, <2>2 DEF FetchFile, FileAt, TypeOK, RunOwns, Young, Live, Active
    <2>4. \A j \in Jobs : Awaits(j, g) => Awaits(j, g)' /\ (Untaken(j) => Untaken(j)')
      BY <1>21, <2>2 DEF FetchFile, FileAt, Awaits, Active, Untaken
    <2> QED
      BY <1>21, <2>1, <2>2, <2>3, <2>4, OwnersStay DEF FetchFile, FileAt
  <1>22. ASSUME NEW w \in Workers, NEW f \in Files, UploadFile(w, f) PROVE OwnersOK'
    <2> SUFFICES ASSUME NEW g \in Files PROVE OwnerOK(g)'
      BY DEF OwnersOK
    <2>1. OwnerOK(g) /\ (g # f => fileStep'[w][g] = fileStep[w][g] /\ fileStatus'[g] = fileStatus[g])
      BY <1>22 DEF UploadFile, FileAt, TypeOK, OwnersOK
    <2>2. \A v \in Workers : Passed(v, g)' => Passed(v, g)
      BY <1>22, <2>1 DEF UploadFile, FileAt, TypeOK, Passed
    <2>3. \A v \in Workers : RunOwns(v, g) => RunOwns(v, g)' /\ (Young(v) => Young(v)')
      BY <1>22, <2>1, <2>2 DEF UploadFile, FileAt, TypeOK, RunOwns, Young, Live, Active
    <2>4. \A j \in Jobs : Awaits(j, g) => Awaits(j, g)' /\ (Untaken(j) => Untaken(j)')
      BY <1>22, <2>2 DEF UploadFile, FileAt, Awaits, Active, Untaken
    <2> QED
      BY <1>22, <2>1, <2>2, <2>3, <2>4, OwnersStay DEF UploadFile, FileAt
  <1>23. ASSUME NEW w \in Workers, NEW f \in Files, UploadMismatch(w, f) PROVE OwnersOK'
    <2> SUFFICES ASSUME NEW g \in Files PROVE OwnerOK(g)'
      BY DEF OwnersOK
    <2>1. OwnerOK(g) /\ (g # f => fileStep'[w][g] = fileStep[w][g] /\ fileStatus'[g] = fileStatus[g])
      BY <1>23 DEF UploadMismatch, FileAt, TypeOK, OwnersOK
    <2>2. \A v \in Workers : Passed(v, g)' => Passed(v, g)
      BY <1>23, <2>1 DEF UploadMismatch, FileAt, TypeOK, Passed
    <2>3. \A v \in Workers : RunOwns(v, g) => RunOwns(v, g)' /\ (Young(v) => Young(v)')
      BY <1>23, <2>1, <2>2 DEF UploadMismatch, FileAt, TypeOK, RunOwns, Young, Live, Active
    <2>4. \A j \in Jobs : Awaits(j, g) => Awaits(j, g)' /\ (Untaken(j) => Untaken(j)')
      BY <1>23, <2>2 DEF UploadMismatch, FileAt, Awaits, Active, Untaken
    <2> QED
      BY <1>23, <2>1, <2>2, <2>3, <2>4, OwnersStay DEF UploadMismatch, FileAt
  <1>24. ASSUME NEW w \in Workers, NEW f \in Files, DeleteAnswered(w, f) PROVE OwnersOK'
    <2> SUFFICES ASSUME NEW g \in Files PROVE OwnerOK(g)'
      BY DEF OwnersOK
    <2>1. OwnerOK(g) /\ (g # f => fileStep'[w][g] = fileStep[w][g] /\ fileStatus'[g] = fileStatus[g])
      BY <1>24 DEF DeleteAnswered, DeleteEnds, TypeOK, OwnersOK
    <2>2. \A v \in Workers : Passed(v, g)' => Passed(v, g)
      BY <1>24, <2>1 DEF DeleteAnswered, DeleteEnds, TypeOK, Passed
    <2>3. \A v \in Workers : RunOwns(v, g) => RunOwns(v, g)' /\ (Young(v) => Young(v)')
      BY <1>24, <2>1, <2>2 DEF DeleteAnswered, DeleteEnds, TypeOK, RunOwns, Young, Live, Active
    <2>4. \A j \in Jobs : Awaits(j, g) => Awaits(j, g)' /\ (Untaken(j) => Untaken(j)')
      BY <1>24, <2>2 DEF DeleteAnswered, DeleteEnds, Awaits, Active, Untaken
    <2> QED
      BY <1>24, <2>1, <2>2, <2>3, <2>4, OwnersStay DEF DeleteAnswered, DeleteEnds
  <1>25. ASSUME NEW f \in Files, LateDelete(f) PROVE OwnersOK'
    <2> SUFFICES ASSUME NEW g \in Files PROVE OwnerOK(g)'
      BY DEF OwnersOK
    <2>1. OwnerOK(g) /\ fileStep' = fileStep /\ fileStatus' = fileStatus
      BY <1>25 DEF LateDelete, DeleteEnds, TypeOK, OwnersOK
    <2>2. \A v \in Workers : Passed(v, g)' => Passed(v, g)
      BY <1>25, <2>1 DEF LateDelete, DeleteEnds, TypeOK, Passed
    <2>3. \A v \in Workers : RunOwns(v, g) => RunOwns(v, g)' /\ (Young(v) => Young(v)')
      BY <1>25, <2>1, <2>2 DEF LateDelete, DeleteEnds, TypeOK, RunOwns, Young, Live, Active
    <2>4. \A j \in Jobs : Awaits(j, g) => Awaits(j, g)' /\ (Untaken(j) => Untaken(j)')
      BY <1>25, <2>2 DEF LateDelete, DeleteEnds, Awaits, Active, Untaken
    <2> QED
      BY <1>25, <2>1, <2>2, <2>3, <2>4, OwnersStay DEF LateDelete, DeleteEnds
  <1>26. ASSUME NEW w \in Workers, NEW f \in Files, ReadyFile(w, f) PROVE OwnersOK'
    <2> SUFFICES ASSUME NEW g \in Files PROVE OwnerOK(g)'
      BY DEF OwnersOK
    <2>1. OwnerOK(g) /\ (g # f => fileStep'[w][g] = fileStep[w][g] /\ fileStatus'[g] = fileStatus[g])
      BY <1>26 DEF ReadyFile, FileAt, SetFiles, TypeOK, OwnersOK
    <2> SUFFICES ASSUME g = f => fileStatus[f] = "pending" PROVE OwnerOK(g)'
      BY <1>26 DEF ReadyFile, FileAt, SetFiles, TypeOK, NotReady, Locked, OwnerOK
    <2>2. \A v \in Workers : Passed(v, g)' => Passed(v, g)
      BY <1>26, <2>1 DEF ReadyFile, FileAt, SetFiles, TypeOK, Passed
    <2>3. \A v \in Workers : RunOwns(v, g) => RunOwns(v, g)' /\ (Young(v) => Young(v)')
      BY <1>26, <2>1, <2>2 DEF ReadyFile, FileAt, SetFiles, TypeOK, RunOwns, Young, Live, Active
    <2>4. \A j \in Jobs : Awaits(j, g) => Awaits(j, g)' /\ (Untaken(j) => Untaken(j)')
      BY <1>26, <2>2 DEF ReadyFile, FileAt, SetFiles, Awaits, Active, Untaken
    <2> QED
      BY <1>26, <2>1, <2>2, <2>3, <2>4, OwnersStay DEF ReadyFile, FileAt, SetFiles
  <1>27. ASSUME NEW w \in Workers, NEW f \in Files, FileFails(w, f) PROVE OwnersOK'
    <2> SUFFICES ASSUME NEW g \in Files PROVE OwnerOK(g)'
      BY DEF OwnersOK
    <2>1. OwnerOK(g) /\ (g # f => fileStep'[w][g] = fileStep[w][g] /\ fileStatus'[g] = fileStatus[g])
      BY <1>27 DEF FileFails, FileAt, TypeOK, OwnersOK
    <2>2. \A v \in Workers : Passed(v, g)' => Passed(v, g)
      BY <1>27, <2>1 DEF FileFails, FileAt, TypeOK, Passed
    <2>3. \A v \in Workers : RunOwns(v, g) => RunOwns(v, g)' /\ (Young(v) => Young(v)')
      BY <1>27, <2>1, <2>2 DEF FileFails, FileAt, TypeOK, RunOwns, Young, Live, Active
    <2>4. \A j \in Jobs : Awaits(j, g) => Awaits(j, g)' /\ (Untaken(j) => Untaken(j)')
      BY <1>27, <2>2 DEF FileFails, FileAt, Awaits, Active, Untaken
    <2> QED
      BY <1>27, <2>1, <2>2, <2>3, <2>4, OwnersStay DEF FileFails, FileAt
  <1>28. ASSUME NEW w \in Workers, NEW f \in Files, UndoFile(w, f) PROVE OwnersOK'
    <2> SUFFICES ASSUME NEW g \in Files PROVE OwnerOK(g)'
      BY DEF OwnersOK
    <2>1. OwnerOK(g) /\ (g # f => fileStep'[w][g] = fileStep[w][g] /\ fileStatus'[g] = fileStatus[g])
      BY <1>28 DEF UndoFile, FileAt, SetFiles, TypeOK, OwnersOK
    <2> SUFFICES ASSUME fileStatus'[g] = fileStatus[g] PROVE OwnerOK(g)'
      BY <1>28, <2>1 DEF UndoFile, FileAt, SetFiles, TypeOK, NotReady, Locked, OwnerOK
    <2>2. \A v \in Workers : Passed(v, g)' => Passed(v, g)
      BY <1>28, <2>1 DEF UndoFile, FileAt, SetFiles, TypeOK, Passed
    <2>3. \A v \in Workers : RunOwns(v, g) => RunOwns(v, g)' /\ (Young(v) => Young(v)')
      BY <1>28, <2>1, <2>2 DEF UndoFile, FileAt, SetFiles, TypeOK, RunOwns, Young, Live, Active
    <2>4. \A j \in Jobs : Awaits(j, g) => Awaits(j, g)' /\ (Untaken(j) => Untaken(j)')
      BY <1>28, <2>2 DEF UndoFile, FileAt, SetFiles, Awaits, Active, Untaken
    <2> QED
      BY <1>28, <2>1, <2>2, <2>3, <2>4, OwnersStay DEF UndoFile, FileAt, SetFiles
  <1>29. ASSUME SweepSelect PROVE OwnersOK'
    BY <1>29 DEF SweepSelect, Sweeps, TypeOK, QueueTypeOK, JobsOK, RunsOK, Live, RunSteps,
       OwnersOK, OwnerOK, Young, Untaken, Owned, OwnedStill, Awaits, RunOwns, Passed, Active,
       Locked, Unsettled, NotReady
  <1>30. ASSUME SweepJobs PROVE OwnersOK'
    <2> SUFFICES ASSUME NEW f \in Files, fileStatus'[f] \in Locked, NEW w \in Workers, Passed(w, f)'
                 PROVE  OwnedStill(f)'
      BY <1>30 DEF SweepJobs, Sweeps, OwnersOK, OwnerOK, Owned
    <2>1. OwnedStill(f)
      BY <1>30 DEF SweepJobs, Sweeps, Passed, OwnersOK, OwnerOK
    <2>2. \A j \in Jobs : Awaits(j, f) /\ Untaken(j) => Awaits(j, f)' /\ Untaken(j)'
      BY <1>30 DEF SweepJobs, Sweeps, TypeOK, Awaits, Active, Untaken, Passed
    <2>3. \A v \in Workers : RunOwns(v, f) /\ Young(v) => RunOwns(v, f)' /\ Young(v)'
      <3> SUFFICES ASSUME NEW v \in Workers, RunOwns(v, f), Young(v) PROVE RunOwns(v, f)' /\ Young(v)'
        OBVIOUS
      <3>1. RunOwns(v, f)' /\ job[v] \in Jobs
        BY <1>30 DEF SweepJobs, Sweeps, RunOwns, Live, Passed, RunsOK, RunSteps
      <3>2. Active(job[v])' => Active(job[v])
        BY <1>30, <3>1 DEF SweepJobs, Sweeps, TypeOK, Active, Unsettled
      <3> QED
        BY <1>30, <3>1, <3>2 DEF SweepJobs, Sweeps, Young
    <2> QED
      BY <1>30, <2>1, <2>2, <2>3 DEF SweepJobs, Sweeps, OwnedStill
  <1>31. ASSUME SweepLook PROVE OwnersOK'
    BY <1>31 DEF SweepLook, Sweeps, TypeOK, QueueTypeOK, JobsOK, RunsOK, Live, RunSteps,
       OwnersOK, OwnerOK, Young, Untaken, Owned, OwnedStill, Awaits, RunOwns, Passed, Active,
       Locked, Unsettled, NotReady
  <1>32. ASSUME SweepFiles PROVE OwnersOK'
    BY <1>32 DEF SweepFiles, Sweeps, SetFiles, TypeOK, QueueTypeOK, JobsOK, RunsOK, Live,
       RunSteps, OwnersOK, OwnerOK, Young, Untaken, Owned, OwnedStill, Awaits, RunOwns, Passed,
       Active, Locked, Unsettled, NotReady
  <1>33. ASSUME SweepInterrupted PROVE OwnersOK'
    <2>1. CASE phase # "selected"
      BY <1>33, <2>1 DEF SweepInterrupted, OwnersOK, OwnerOK, Owned, OwnedStill
    <2>2. CASE phase = "selected"
      <3> SUFFICES ASSUME NEW f \in Files PROVE OwnerOK(f)'
        BY DEF OwnersOK
      <3>1. OwnerOK(f) /\ \A w \in Workers : Passed(w, f)' <=> Passed(w, f)
        BY <1>33 DEF SweepInterrupted, Sweeps, OwnersOK, Passed
      <3>2. \A w \in Workers : (RunOwns(w, f)' <=> RunOwns(w, f)) /\ (Young(w)' <=> Young(w))
        BY <1>33, <3>1 DEF SweepInterrupted, Sweeps, RunOwns, Live, Young, Active
      <3>3. \A j \in Jobs : (Awaits(j, f)' <=> Awaits(j, f)) /\ (Untaken(j) => Untaken(j)')
        BY <1>33, <3>1 DEF SweepInterrupted, Sweeps, Awaits, Active, Untaken
      <3>4. fileStatus' = fileStatus /\ edit' = edit /\ (stranded => stranded')
        BY <1>33 DEF SweepInterrupted, Sweeps
      <3> QED
        BY <2>2, <3>1, <3>2, <3>3, <3>4 DEF OwnerOK, Owned, OwnedStill
    <2> QED
      BY <2>1, <2>2
  <1>34. QED
    BY StepCases, <1>1, <1>2, <1>3, <1>4, <1>5, <1>6, <1>7, <1>8, <1>9, <1>10, <1>11, <1>12,
       <1>13, <1>14, <1>15, <1>16, <1>17, <1>18, <1>19, <1>20, <1>21, <1>22, <1>23, <1>24, <1>25, <1>26,
       <1>27, <1>28, <1>29, <1>30, <1>31, <1>32, <1>33

LEMMA InvUnchanged == Inv /\ UNCHANGED vars => Inv'
  <1> SUFFICES ASSUME Inv, UNCHANGED vars PROVE Inv'
    OBVIOUS
  <1> USE DEF vars, editVars, jobVars, storeVars, fileVars, queueVars, runVars, sweepVars
  <1>1. TypeOK' /\ JobsOK' /\ VersionsOK'
    BY DEF Inv, TypeOK, QueueTypeOK, JobsOK, VersionsOK, Begun
  <1>2. RunsOK' /\ AloneOK' /\ FreshOK' /\ SyncOK'
    BY DEF Inv, RunsOK, AloneOK, FreshOK, SyncOK, Fresh, Live, Editing
  <1>3. ReadyIsFresh' /\ DoneMeansSynced'
    BY DEF Inv, ReadyIsFresh, DoneMeansSynced
  <1>4. OwnersOK'
    BY DEF Inv, OwnersOK, OwnerOK, Owned, OwnedStill, Awaits, RunOwns, Untaken, Young, Passed,
       Active, Live
  <1> QED
    BY <1>1, <1>2, <1>3, <1>4 DEF Inv

(* The invariant holds in every state of every behaviour. *)
THEOREM Invariance == SafeSpec => []Inv
  <1>1. Inv /\ [Next]_vars => Inv'
    <2> SUFFICES ASSUME Inv, [Next]_vars PROVE Inv'
      OBVIOUS
    <2>1. CASE Next
      BY <2>1, NextTypes, NextJobs, NextRuns, NextVersions, NextAlone, NextFresh, NextSync,
         NextOwners DEF Inv
    <2>2. CASE UNCHANGED vars
      BY <2>2, InvUnchanged
    <2> QED
      BY <2>1, <2>2
  <1> QED
    BY InitInv, <1>1, PTL DEF SafeSpec

-----------------------------------------------------------------------------
(* The theorems. *)

(* Every variable keeps its type. *)
THEOREM TypeCorrect == SafeSpec => []TypeOK
  <1>1. Inv => TypeOK
    BY DEF Inv
  <1> QED
    BY Invariance, <1>1, PTL

(* A file that can be downloaded holds the metadata the book has now, but for an
   edit that has not locked the files, an overlap, or a deleted object. *)
THEOREM ReadyFilesAreFresh == SafeSpec => []ReadyIsFresh
  <1>1. Inv => ReadyIsFresh
    BY DEF Inv
  <1> QED
    BY Invariance, <1>1, PTL

(* "done" is never reported of the last edit over a file that failed, is locked
   or has older metadata, unless runs or edits overlapped. *)
THEOREM DoneJobsHaveSynced == SafeSpec => []DoneMeansSynced
  <1>1. Inv => DoneMeansSynced
    BY DEF Inv
  <1> QED
    BY Invariance, <1>1, PTL

(* Whatever overlaps, dies or is swept, a locked file has somebody to unlock it,
   unless the one who alone would have done so died. *)
THEOREM LockedFilesHaveOwners == SafeSpec => []LockedFileIsOwned
  <1>1. Inv => LockedFileIsOwned
    BY DEF Inv, OwnersOK, OwnerOK, Owned, Awaits, RunOwns, LockedFileIsOwned
  <1> QED
    BY Invariance, <1>1, PTL

(* The status of a job moves as the abstract lifecycle of a job does. *)
LEMMA NextLifecycle ==
  ASSUME TypeOK, JobsOK, RunsOK, Next
  PROVE  [Lifecycle!Next]_status
  <1> USE DEF jobVars, TypeOK
  <1>1. ASSUME NEW j \in Jobs, status' = [status EXCEPT ![j] = "failed"], status[j] # "none"
        PROVE  Lifecycle!Fail({j})
    BY <1>1 DEF Lifecycle!Fail
  <1>2. ASSUME NEW j \in Jobs, CreateMetadataJob(j) PROVE Lifecycle!Create(j)
    BY <1>2 DEF CreateMetadataJob, Step, SetJob, JobsOK, Lifecycle!Create
  <1>3. ASSUME NEW j \in Jobs, CloseJob(j) PROVE Lifecycle!Fail({j})
    BY <1>1, <1>3 DEF CloseJob, Step, SetJob, JobsOK, Begun
  <1>4. ASSUME NEW w \in Workers, MarkProcessing(w) PROVE \E j \in Jobs : Lifecycle!Start(j)
    <2>1. job[w] \in Jobs /\ status[job[w]] # "none"
      BY <1>4 DEF MarkProcessing, At, RunsOK, JobsOK, Begun
    <2> QED
      BY <1>4, <2>1 DEF MarkProcessing, SetJob, Lifecycle!Start
  <1>5. ASSUME NEW w \in Workers, Finish(w) PROVE \E j \in Jobs : Lifecycle!Complete(j)
    <2>1. job[w] \in Jobs /\ status[job[w]] \in {"processing", "failed", "done"}
      BY <1>5 DEF Finish, At, RunsOK, RunSteps
    <2> QED
      BY <1>5, <2>1 DEF Finish, SetJob, Lifecycle!Complete
  <1>6. ASSUME NEW w \in Workers, SettleJob(w)
        PROVE  (\E j \in Jobs : Lifecycle!Fail({j})) \/ status' = status
    <2>1. job[w] \in Jobs /\ status[job[w]] # "none"
      BY <1>6 DEF SettleJob, At, RunsOK, JobsOK, Begun
    <2> QED
      BY <1>1, <1>6, <2>1 DEF SettleJob, SetJob
  <1>7. ASSUME SweepJobs PROVE Lifecycle!Fail(sweeping)
    BY <1>7 DEF SweepJobs, JobsOK, Lifecycle!Fail
  <1>8. \/ \E j \in Jobs : CreateMetadataJob(j) \/ CloseJob(j)
        \/ \E w \in Workers : MarkProcessing(w) \/ Finish(w) \/ SettleJob(w)
        \/ SweepJobs
        \/ status' = status
    BY StepCases DEF UpdateBook, MarkPending, Send, CloseFiles, EditDies, Age, Deliver, LockFiles,
       TakeSnapshot, Gather, RunFails, SettleFiles, Ack, RetryOrCrash, LockFile, FetchFile,
       UploadFile, UploadMismatch, DeleteAnswered, DeleteEnds, LateDelete, ReadyFile, FileFails, UndoFile, SweepSelect, SweepLook,
       SweepFiles, SweepInterrupted, FileAt
  <1>9. sweeping \in SUBSET Jobs
    OBVIOUS
  <1> QED
    BY <1>2, <1>3, <1>4, <1>5, <1>6, <1>7, <1>8, <1>9 DEF Lifecycle!Next

(* Embedding metadata implements the safety half of a job's lifecycle. *)
THEOREM ImplementsLifecycle == SafeSpec => LifecycleSafe
  <1>1. Init => Lifecycle!Init
    BY DEF Init, Lifecycle!Init
  <1>2. Inv /\ [Next]_vars => [Lifecycle!Next]_status
    <2>1. ASSUME Inv, Next PROVE [Lifecycle!Next]_status
      BY <2>1, NextLifecycle DEF Inv
    <2>2. ASSUME UNCHANGED vars PROVE [Lifecycle!Next]_status
      BY <2>2 DEF vars, jobVars
    <2> QED
      BY <2>1, <2>2
  <1> QED
    BY <1>1, <1>2, Invariance, PTL DEF SafeSpec, LifecycleSafe, Lifecycle!Safe
=============================================================================
