--------------------------- MODULE UploadSession ---------------------------
(***************************************************************************)
(* The multipart upload of one book: createBookUploadSession, the parts,    *)
(* completeBookUpload with its rollback, abortBookUpload and the cron       *)
(* sweeper, all on one upload task.                                         *)
(*                                                                         *)
(* The client sends its requests in order, but a request whose answer it    *)
(* missed may still be running when it sends the next one, so requests of   *)
(* every kind interleave here, one SQL statement or bucket call at a time.  *)
(* A book is named after the complete request that inserted it; its cover   *)
(* shares the fate of its file.                                             *)
(* A definition named Mutant... is a plausible slip in the definition that  *)
(* follows it; no specification uses it.                                     *)
(***************************************************************************)

CONSTANTS
  Parts,       \* uploadBookPart requests
  Completes,   \* completeBookUpload requests
  Aborts,      \* abortBookUpload requests
  Sweeper,     \* the cron handler's failStaleUploadTasks
  NoBook

ASSUME UploadAssumption ==
  /\ Parts \cap Completes = {} /\ Parts \cap Aborts = {} /\ Completes \cap Aborts = {}
  /\ Sweeper \notin Parts \cup Completes \cup Aborts
  /\ NoBook \notin Completes

VARIABLES
  session,    \* where createBookUploadSession is
  status,     \* upload_tasks.status; "none" before the INSERT
  keys,       \* staging_r2_key and multipart_upload_id are set
  book,       \* upload_tasks.book_id
  old,        \* updated_at lies before the sweeper's cutoff
  multipart,  \* the multipart upload in R2
  staging,    \* the staging object exists
  books,      \* rows of books ...
  listed,     \* ... of book_files ...
  stored,     \* ... and objects of those files
  pc,         \* where each request is
  heard,      \* history: the complete that made the task a success, if it was told so
  overlap,    \* history: two requests ran at the same time
  debris      \* history: what nobody will clean up was left behind

taskVars  == <<status, keys, book, old>>
r2Vars    == <<multipart, staging>>
bookVars  == <<books, listed, stored>>
histVars  == <<heard, overlap, debris>>
vars == <<session, taskVars, r2Vars, bookVars, pc, histVars>>

-----------------------------------------------------------------------------
Cleaners == Aborts \cup {Sweeper}
Requests == Parts \cup Completes \cup Cleaners

Unsettled == {"pending", "processing"}
Settled   == {"success", "failed"}

Live(r)  == pc[r] \notin {"idle", "end"}
Creating == session \in {"inserted", "opened"}
Quiet    == ~Creating /\ \A r \in Requests : ~Live(r)

Init ==
  /\ session   = "none"
  /\ status    = "none"
  /\ keys      = FALSE
  /\ book      = NoBook
  /\ old       = FALSE
  /\ multipart = "none"
  /\ staging   = FALSE
  /\ books     = {}
  /\ listed    = {}
  /\ stored    = {}
  /\ pc        = [r \in Requests |-> "idle"]
  /\ heard     = NoBook
  /\ overlap   = FALSE
  /\ debris    = FALSE

\* An UPDATE by id: none of them looks at the status it replaces.
SetTask(s, k, b) ==
  /\ status' = s
  /\ keys'   = k
  /\ book'   = b
  /\ old'    = FALSE

-----------------------------------------------------------------------------
(* createBookUploadSession. *)

Create(here, there) ==
  /\ session = here
  /\ session' = there
  /\ UNCHANGED <<staging, bookVars, pc, heard, overlap>>

InsertTask ==
  /\ Create("none", "inserted")
  /\ SetTask("pending", FALSE, NoBook)
  /\ UNCHANGED <<multipart, debris>>

OpenMultipart ==
  /\ Create("inserted", "opened")
  /\ multipart' = "open"
  /\ UNCHANGED <<taskVars, debris>>

\* An upload opened by a call whose answer is lost has an id that nobody knows.
OpenFails ==
  /\ Create("inserted", "dead")
  /\ SetTask("failed", FALSE, NoBook)
  /\ \/ UNCHANGED <<multipart, debris>>
     \/ multipart' = "open" /\ debris' = TRUE

MutantStillPending ==
  /\ Create("opened", "ready")
  /\ SetTask("pending", TRUE, NoBook)
  /\ UNCHANGED <<multipart, debris>>

StoreKeys ==
  /\ Create("opened", "ready")
  /\ SetTask("processing", TRUE, NoBook)
  /\ UNCHANGED <<multipart, debris>>

\* Without its keys in the row nobody can abort the multipart upload.
CreateDies ==
  /\ Creating
  /\ Create(session, "dead")
  /\ debris' = (debris \/ multipart = "open")
  /\ UNCHANGED <<taskVars, multipart>>

-----------------------------------------------------------------------------
(* Requests. *)

At(r, here, there) ==
  /\ pc[r] = here
  /\ pc' = [pc EXCEPT ![r] = there]
  /\ UNCHANGED <<session, heard, overlap>>

\* Every request begins by reading the row.  The client knows of the task once
\* the session is ready.
Begin(r, there) ==
  /\ pc[r] = "idle"
  /\ pc' = [pc EXCEPT ![r] = there]
  /\ overlap' = (overlap \/ ~Quiet)
  /\ UNCHANGED <<session, taskVars, r2Vars, bookVars, heard, debris>>

\* Some request has done its cleaning and is about to clear the keys.
Forgetting(r) ==
  \E q \in Requests \ {r} : pc[q] = "fail" \/ (pc[q] = "abort" /\ q \in Completes)

\* Whoever dies leaves a staging object that only keys in the row can find, and
\* a book that is nobody's business any more.
Die(r) ==
  /\ Live(r)
  /\ At(r, pc[r], "end")
  /\ debris' = (debris \/ r \in books \/ ~keys \/ Forgetting(r))
  /\ UNCHANGED <<taskVars, r2Vars, bookVars>>

-----------------------------------------------------------------------------
(* uploadBookPart. *)

BeginPart(p) ==
  /\ session = "ready"
  /\ Begin(p, IF status \notin Settled /\ keys THEN "put" ELSE "end")

PutPart(p) ==
  /\ At(p, "put", IF multipart = "open" THEN "mark" ELSE "end")
  /\ UNCHANGED <<taskVars, r2Vars, bookVars, debris>>

\* Unasked: a task that was settled meanwhile is processing again.
MarkPart(p) ==
  /\ At(p, "mark", "end")
  /\ SetTask("processing", keys, book)
  /\ UNCHANGED <<r2Vars, bookVars, debris>>

-----------------------------------------------------------------------------
(* completeBookUpload.  Its keys are those it read at the beginning. *)

BeginComplete(c) ==
  /\ session = "ready"
  /\ Begin(c, IF (status = "success" /\ book # NoBook) \/ ~keys THEN "end" ELSE "complete")

\* R2 completes a multipart upload once.
CompleteMultipart(c) ==
  /\ multipart = "open"
  /\ \E next \in {"read", "undoStaging"} : At(c, "complete", next)   \* or the size is wrong
  /\ multipart' = "completed"
  /\ staging'   = TRUE
  /\ UNCHANGED <<taskVars, bookVars, debris>>

MutantCompletedAlready(c) ==
  /\ multipart # "open"
  /\ At(c, "complete", IF staging THEN "read" ELSE "undoStaging")
  /\ UNCHANGED <<taskVars, r2Vars, bookVars, debris>>

CompleteFails(c) ==
  /\ At(c, "complete", "undoStaging")
  /\ UNCHANGED <<taskVars, r2Vars, bookVars, debris>>

\* parseEpubMetadataAndCoverFromR2 and getBookFile; the EPUB may be unreadable.
ReadStaging(c) ==
  /\ \/ staging /\ At(c, "read", "insert")
     \/ At(c, "read", "undoStaging")
  /\ UNCHANGED <<taskVars, r2Vars, bookVars, debris>>

\* createBookFromUpload inserts the book first and its file last.
InsertBook(c) ==
  /\ At(c, "insert", "insertFile")
  /\ books' = books \cup {c}
  /\ UNCHANGED <<taskVars, r2Vars, listed, stored, debris>>

InsertFile(c) ==
  /\ At(c, "insertFile", "upload")
  /\ listed' = listed \cup {c}
  /\ UNCHANGED <<taskVars, r2Vars, books, stored, debris>>

\* When it fails on the way, createdResources names nothing to roll back.
InsertFails(c) ==
  /\ pc[c] \in {"insert", "insertFile"}
  /\ At(c, pc[c], "undoStaging")
  /\ debris' = (debris \/ c \in books)
  /\ UNCHANGED <<taskVars, r2Vars, bookVars>>

MutantNotStored(c) ==
  /\ At(c, "upload", "unstage")
  /\ UNCHANGED <<taskVars, r2Vars, bookVars, debris>>

StoreFile(c) ==
  /\ At(c, "upload", "unstage")
  /\ stored' = stored \cup {c}
  /\ UNCHANGED <<taskVars, r2Vars, books, listed, debris>>

DeleteStaging(c) ==
  /\ At(c, "unstage", "finish")
  /\ staging' = FALSE
  /\ UNCHANGED <<taskVars, multipart, bookVars, debris>>

\* The answer to the last UPDATE can be lost: then the book is rolled back.
Finish(c) ==
  /\ pc[c] = "finish"
  /\ \E told \in BOOLEAN :
       /\ pc' = [pc EXCEPT ![c] = IF told THEN "end" ELSE "undoFile"]
       /\ heard' = IF told THEN c ELSE NoBook
  /\ SetTask("success", FALSE, c)
  /\ UNCHANGED <<session, r2Vars, bookVars, overlap, debris>>

CompleteStepFails(c) ==
  /\ pc[c] \in {"upload", "unstage", "finish"}
  /\ At(c, pc[c], "undoFile")
  /\ UNCHANGED <<taskVars, r2Vars, bookVars, debris>>

MutantFileKept(c) ==
  /\ At(c, "undoFile", "undoBook")
  /\ UNCHANGED <<taskVars, r2Vars, bookVars, debris>>

\* performRollback logs what fails and goes on.
UndoFile(c) ==
  /\ At(c, "undoFile", "undoBook")
  /\ \/ stored' = stored \ {c} /\ UNCHANGED debris
     \/ UNCHANGED stored /\ debris' = TRUE
  /\ UNCHANGED <<taskVars, r2Vars, books, listed>>

\* deleteBook cascades to book_files and sets upload_tasks.book_id to null.
UndoBook(c) ==
  /\ At(c, "undoBook", "undoStaging")
  /\ \/ /\ books'  = books \ {c}
        /\ listed' = listed \ {c}
        /\ book'   = IF book = c THEN NoBook ELSE book
        /\ UNCHANGED debris
     \/ UNCHANGED <<books, listed, book>> /\ debris' = TRUE
  /\ UNCHANGED <<status, keys, old, r2Vars, stored>>

MutantStagingKept(c) ==
  /\ At(c, "undoStaging", "abort")
  /\ UNCHANGED <<taskVars, r2Vars, bookVars, debris>>

UndoStaging(c) ==
  /\ At(c, "undoStaging", "abort")
  /\ \/ staging' = FALSE /\ UNCHANGED debris
     \/ UNCHANGED staging /\ debris' = TRUE
  /\ UNCHANGED <<taskVars, multipart, bookVars>>

-----------------------------------------------------------------------------
(* abortBookUpload, failStaleUploadTasks, and the end of a failed complete:
   abort the multipart upload, delete the staging object, fail the task. *)

BeginAbort(a) ==
  /\ session = "ready"
  /\ Begin(a, IF status \in Settled THEN "end" ELSE IF keys THEN "abort" ELSE "fail")

MutantSweepsPendingOnly ==
  /\ status = "pending" /\ old
  /\ Begin(Sweeper, IF keys THEN "abort" ELSE "fail")

BeginSweep ==
  /\ status \in Unsettled /\ old
  /\ Begin(Sweeper, IF keys THEN "abort" ELSE "fail")

AbortMultipart(r) ==
  /\ At(r, "abort", IF r \in Completes THEN "fail" ELSE "unstage")
  /\ \/ multipart' = (IF multipart = "open" THEN "aborted" ELSE multipart) /\ UNCHANGED debris
     \/ UNCHANGED multipart /\ debris' = TRUE
  /\ UNCHANGED <<taskVars, staging, bookVars>>

CleanStaging(r) ==
  /\ At(r, "unstage", "fail")
  /\ \/ staging' = FALSE /\ UNCHANGED debris
     \/ UNCHANGED staging /\ debris' = TRUE
  /\ UNCHANGED <<taskVars, multipart, bookVars>>

FailTask(r) ==
  /\ At(r, "fail", IF r = Sweeper THEN "idle" ELSE "end")
  /\ SetTask("failed", FALSE, book)
  /\ UNCHANGED <<r2Vars, bookVars, debris>>

\* The sweeper comes again; only its own UPDATE, or its host, can fail.
SweepDies ==
  /\ Live(Sweeper)
  /\ At(Sweeper, pc[Sweeper], "idle")
  /\ debris' = (debris \/ ~keys)
  /\ UNCHANGED <<taskVars, r2Vars, bookVars>>

\* Requests are over long before the window is.
Age ==
  /\ status \in Unsettled
  /\ Quiet
  /\ old' = TRUE
  /\ UNCHANGED <<session, status, keys, book, r2Vars, bookVars, pc, histVars>>

-----------------------------------------------------------------------------
CreateSession ==
  \/ InsertTask
  \/ OpenMultipart
  \/ OpenFails
  \/ StoreKeys
  \/ CreateDies

UploadPart(p) ==
  \/ BeginPart(p)
  \/ PutPart(p)
  \/ MarkPart(p)

Complete(c) ==
  \/ BeginComplete(c)
  \/ CompleteMultipart(c)
  \/ CompleteFails(c)
  \/ ReadStaging(c)
  \/ InsertBook(c)
  \/ InsertFile(c)
  \/ InsertFails(c)
  \/ StoreFile(c)
  \/ DeleteStaging(c)
  \/ Finish(c)
  \/ CompleteStepFails(c)
  \/ UndoFile(c)
  \/ UndoBook(c)
  \/ UndoStaging(c)

Clean(r) ==
  \/ AbortMultipart(r)
  \/ CleanStaging(r)
  \/ FailTask(r)

Next ==
  \/ CreateSession
  \/ \E p \in Parts : UploadPart(p)
  \/ \E c \in Completes : Complete(c) \/ AbortMultipart(c) \/ FailTask(c)
  \/ \E a \in Aborts : BeginAbort(a) \/ Clean(a)
  \/ BeginSweep \/ Clean(Sweeper) \/ SweepDies
  \/ \E r \in Requests \ {Sweeper} : Die(r)
  \/ Age

SafeSpec == Init /\ [][Next]_vars

\* Requests end; cron sweeps again and again, and not every sweep is stopped at
\* the same place.  No client is promised to come back.
Fairness ==
  /\ WF_vars(CreateDies)
  /\ \A r \in Requests \ {Sweeper} : WF_vars(Die(r))
  /\ WF_vars(Age)
  /\ SF_vars(BeginSweep)
  /\ SF_vars(AbortMultipart(Sweeper))
  /\ SF_vars(CleanStaging(Sweeper))
  /\ SF_vars(FailTask(Sweeper))

Spec == SafeSpec /\ Fairness

-----------------------------------------------------------------------------
(* Types and properties. *)

TypeOK ==
  /\ session   \in {"none", "inserted", "opened", "ready", "dead"}
  /\ status    \in {"none"} \cup Unsettled \cup Settled
  /\ keys      \in BOOLEAN
  /\ book      \in Completes \cup {NoBook}
  /\ old       \in BOOLEAN
  /\ multipart \in {"none", "open", "completed", "aborted"}
  /\ staging   \in BOOLEAN
  /\ books     \in SUBSET Completes
  /\ listed    \in SUBSET books     \* book_files.book_id references books
  /\ stored    \in SUBSET Completes
  /\ pc        \in [Requests -> {"idle", "end", "put", "mark", "complete", "read", "insert",
                                 "insertFile", "upload", "unstage", "finish", "undoFile",
                                 "undoBook", "undoStaging", "abort", "fail"}]
  /\ heard     \in Completes \cup {NoBook}
  /\ overlap   \in BOOLEAN
  /\ debris    \in BOOLEAN

(* However often and however late an upload is completed, it makes one book. *)
OneBookPerUpload == \A c, d \in books : c = d

(* A task shown as successful names the book of the complete request that made
   it so, and that book is listed and stored, whatever fails, dies or rolls back
   beside it: a rollback destroys what its own request has made and nothing else.
   Only that request, when the answer to its last UPDATE is lost, takes back the
   book of a success. *)
SuccessHasBook ==
  status = "success" /\ heard # NoBook => book = heard /\ book \in books \cap listed \cap stored

(* Once no request runs, no book is half there: it has its row, its file and
   the file's object, or none of them. *)
BooksAreWhole == Quiet /\ ~debris => books = listed /\ books = stored

(* A settled task that no request works on keeps nothing in the bucket but the
   book's file: no staging object and no open multipart upload, whoever settled
   it and whatever it was racing; and if it failed it has no book, unless a
   request was overtaken by another. *)
SettledLeavesNothing ==
  Quiet /\ status \in Settled /\ ~debris =>
    /\ ~staging /\ multipart # "open"
    /\ status = "failed" /\ ~overlap => books = {}

(* The task moves as a job does that is done when it is a success, and settles
   for good although a late part can reopen it. *)
Lifecycle == INSTANCE JobLifecycle WITH
  Jobs   <- {"upload"},
  status <- [j \in {"upload"} |-> IF status = "success" THEN "done" ELSE status]
LifecycleSafe == Lifecycle!Safe
SettlesForGood == Lifecycle!SettlesForGood
=============================================================================
