------------------------- MODULE UploadSessionProofs -------------------------
(***************************************************************************)
(* Proofs about UploadSession, for any number of part, complete and abort   *)
(* requests.                                                                *)
(***************************************************************************)
EXTENDS UploadSession, TLAPS

CleanSteps == {"abort", "unstage", "fail"}
UndoSteps  == {"undoFile", "undoBook", "undoStaging", "abort", "fail"}

(* Steps of the complete request that completed the multipart upload. *)
WonSteps == {"read", "insert", "insertFile", "upload", "unstage", "finish", "undoFile", "undoBook"}

(* Each kind of request has steps of its own, none of which comes before the
   session is ready. *)
StepsOK ==
  /\ \A p \in Parts : pc[p] \in {"idle", "end", "put", "mark"}
  /\ \A c \in Completes : pc[c] \in {"idle", "end", "complete"} \cup WonSteps \cup UndoSteps
  /\ \A a \in Aborts : pc[a] \in {"idle", "end"} \cup CleanSteps
  /\ pc[Sweeper] \in {"idle"} \cup CleanSteps
  /\ session # "ready" => \A r \in Requests \ {Sweeper} : pc[r] \in {"idle", "end"}

(* A session that is ready has left "pending" behind for good, and whoever
   works on a task works on one that was inserted. *)
StatusOK ==
  /\ session = "none" <=> status = "none"
  /\ session = "ready" => status # "pending"
  /\ pc[Sweeper] # "idle" => status # "none"
  /\ status = "success" => ~keys
  /\ session \in {"none", "inserted"} => multipart # "open"

(* Only one complete request gets past R2, and only it has made a book. *)
Won(c) == pc[c] \in WonSteps \/ c \in books \/ c \in stored

WinnerOK ==
  /\ \A c, d \in Completes : Won(c) /\ Won(d) => c = d
  /\ multipart = "open" \/ session # "ready" => \A c \in Completes : ~Won(c)

(* What a complete request has made at each of its steps. *)
MadeOK ==
  /\ \A c \in Completes : pc[c] \in {"insertFile", "upload", "unstage", "finish"} => c \in books
  /\ \A c \in Completes : pc[c] \in {"upload", "unstage", "finish"} => c \in listed
  /\ \A c \in Completes : pc[c] \in {"unstage", "finish"} => c \in stored

(* The complete request that was told of its success is over, and its book is
   there; nobody else's rollback takes it. *)
SuccessOK ==
  /\ status = "success" /\ heard # NoBook => book = heard
  /\ heard # NoBook => heard \in books \cap listed \cap stored /\ pc[heard] = "end"

(* A book that lacks its file, or the file's object, is still being made or
   rolled back, and a rollback takes the object before the book. *)
WholeOK ==
  ~debris => \A c \in Completes :
    /\ c \in books /\ c \notin listed => pc[c] = "insertFile"
    /\ c \in books /\ c \notin stored =>
         pc[c] \in {"insertFile", "upload", "undoFile", "undoBook"}
    /\ c \in stored => c \in books /\ pc[c] # "undoBook"

(* A complete request that has the staging object still to delete.  R2 is
   attended to when no multipart upload is open and what is staged has one. *)
HasStaging(c) == pc[c] \in {"read", "insert", "insertFile", "upload", "unstage", "undoFile",
                            "undoBook", "undoStaging"}
Handled  == staging => \E c \in Completes : HasStaging(c)
Attended == multipart # "open" /\ Handled

(* The keys are cleared by those only that have seen to R2, or found them gone. *)
BucketOK ==
  /\ keys => status = "processing" /\ session = "ready"
  /\ old \/ pc[Sweeper] # "idle" => session \in {"ready", "dead"}
  /\ session # "ready" => ~staging
  /\ ~debris =>
       /\ session \in {"ready", "dead"} /\ ~keys => Attended
       /\ \A r \in Requests : pc[r] = "fail" => Attended
       /\ \A c \in Completes : pc[c] = "abort" => Handled
       /\ \A r \in Cleaners : pc[r] = "unstage" => multipart # "open"
       /\ \A c \in Completes : pc[c] = "finish" => ~staging

(* Requests that come one after another find a book only as a success. *)
OwnSteps == {"insertFile", "upload", "unstage", "finish", "undoFile", "undoBook"}

AloneOK ==
  ~overlap =>
    /\ Creating => \A r \in Requests : ~Live(r)
    /\ \A r, q \in Requests : Live(r) /\ Live(q) => r = q
    /\ books # {} /\ ~debris =>
         \/ \E c \in Completes : pc[c] \in OwnSteps
         \/ status = "success" /\ \A r \in Requests : ~Live(r)

Inv ==
  /\ TypeOK
  /\ StepsOK
  /\ StatusOK
  /\ WinnerOK
  /\ MadeOK
  /\ SuccessOK
  /\ WholeOK
  /\ BucketOK
  /\ AloneOK

-----------------------------------------------------------------------------
(* The steps of the specification, named once for the proofs below. *)

LEMMA StepCases ==
  ASSUME Next
  PROVE  \/ InsertTask \/ OpenMultipart \/ OpenFails \/ StoreKeys \/ CreateDies
         \/ \E p \in Parts : BeginPart(p) \/ PutPart(p) \/ MarkPart(p)
         \/ \E c \in Completes :
              \/ BeginComplete(c) \/ CompleteMultipart(c) \/ CompleteFails(c) \/ ReadStaging(c)
              \/ InsertBook(c) \/ InsertFile(c) \/ InsertFails(c) \/ StoreFile(c)
              \/ DeleteStaging(c) \/ Finish(c) \/ CompleteStepFails(c) \/ UndoFile(c)
              \/ UndoBook(c) \/ UndoStaging(c)
         \/ \E a \in Aborts : BeginAbort(a)
         \/ BeginSweep \/ SweepDies \/ Age
         \/ \E r \in Requests : r \notin Parts /\ (AbortMultipart(r) \/ FailTask(r))
         \/ \E r \in Cleaners : CleanStaging(r)
         \/ \E r \in Requests \ {Sweeper} : Die(r)
  BY UploadAssumption DEF Next, CreateSession, UploadPart, Complete, Clean, Requests, Cleaners

LEMMA InitInv == Init => Inv
  BY UploadAssumption DEF Init, Inv, TypeOK, StepsOK, StatusOK, WinnerOK, MadeOK, SuccessOK, Won,
     WholeOK, BucketOK, AloneOK, Creating, Live, Attended, Handled, Requests, Cleaners, CleanSteps,
     WonSteps, UndoSteps

(* Every variable keeps its type, and every request keeps to its steps. *)
LEMMA NextTypes ==
  ASSUME TypeOK, StepsOK, StatusOK, MadeOK, Next
  PROVE  TypeOK' /\ StepsOK'
  <1> USE UploadAssumption DEF taskVars, r2Vars, bookVars, histVars
  <1>1. ASSUME InsertTask PROVE TypeOK' /\ StepsOK'
    BY <1>1 DEF InsertTask, Create, SetTask, TypeOK, StepsOK, MadeOK, StatusOK, Requests,
       Cleaners, WonSteps, UndoSteps, CleanSteps, Unsettled, Settled
  <1>2. ASSUME OpenMultipart PROVE TypeOK' /\ StepsOK'
    BY <1>2 DEF OpenMultipart, Create, TypeOK, StepsOK, MadeOK, StatusOK, Requests, Cleaners,
       WonSteps, UndoSteps, CleanSteps, Unsettled, Settled
  <1>3. ASSUME OpenFails PROVE TypeOK' /\ StepsOK'
    BY <1>3 DEF OpenFails, Create, SetTask, TypeOK, StepsOK, MadeOK, StatusOK, Requests,
       Cleaners, WonSteps, UndoSteps, CleanSteps, Unsettled, Settled
  <1>4. ASSUME StoreKeys PROVE TypeOK' /\ StepsOK'
    BY <1>4 DEF StoreKeys, Create, SetTask, TypeOK, StepsOK, MadeOK, StatusOK, Requests,
       Cleaners, WonSteps, UndoSteps, CleanSteps, Unsettled, Settled
  <1>5. ASSUME CreateDies PROVE TypeOK' /\ StepsOK'
    BY <1>5 DEF CreateDies, Create, Creating, TypeOK, StepsOK, MadeOK, StatusOK, Requests,
       Cleaners, WonSteps, UndoSteps, CleanSteps, Unsettled, Settled
  <1>6. ASSUME NEW p \in Parts, BeginPart(p) PROVE TypeOK' /\ StepsOK'
    BY <1>6 DEF BeginPart, Begin, TypeOK, StepsOK, MadeOK, StatusOK, Requests, Cleaners,
       WonSteps, UndoSteps, CleanSteps, Unsettled, Settled
  <1>7. ASSUME NEW p \in Parts, PutPart(p) PROVE TypeOK' /\ StepsOK'
    BY <1>7 DEF PutPart, At, TypeOK, StepsOK, MadeOK, StatusOK, Requests, Cleaners, WonSteps,
       UndoSteps, CleanSteps, Unsettled, Settled
  <1>8. ASSUME NEW p \in Parts, MarkPart(p) PROVE TypeOK' /\ StepsOK'
    <2>1. /\ status' \in Unsettled \cup Settled /\ keys' \in BOOLEAN /\ old' \in BOOLEAN
          /\ book' = book /\ UNCHANGED <<session, heard, overlap, r2Vars, bookVars, debris>>
      BY <1>8 DEF MarkPart, At, SetTask, TypeOK, Unsettled, Settled
    <2>2. pc' \in [Requests -> {"idle", "end", "put", "mark", "complete", "read", "insert",
                              "insertFile", "upload", "unstage", "finish", "undoFile",
                              "undoBook", "undoStaging", "abort", "fail"}]
      BY <1>8 DEF MarkPart, At, TypeOK, Requests
    <2>3. TypeOK'
      BY <2>1, <2>2 DEF TypeOK
    <2>4. StepsOK'
      BY <1>8 DEF MarkPart, At, SetTask, TypeOK, StepsOK, Requests, Cleaners, WonSteps, UndoSteps,
       CleanSteps
    <2>5. QED
      BY <2>3, <2>4
  <1>9. ASSUME NEW c \in Completes, BeginComplete(c) PROVE TypeOK' /\ StepsOK'
    BY <1>9 DEF BeginComplete, Begin, TypeOK, StepsOK, MadeOK, StatusOK, Requests, Cleaners,
       WonSteps, UndoSteps, CleanSteps, Unsettled, Settled
  <1>10. ASSUME NEW c \in Completes, CompleteMultipart(c) PROVE TypeOK' /\ StepsOK'
    BY <1>10 DEF CompleteMultipart, At, TypeOK, StepsOK, MadeOK, StatusOK, Requests, Cleaners,
       WonSteps, UndoSteps, CleanSteps, Unsettled, Settled
  <1>11. ASSUME NEW c \in Completes, CompleteFails(c) PROVE TypeOK' /\ StepsOK'
    BY <1>11 DEF CompleteFails, At, TypeOK, StepsOK, MadeOK, StatusOK, Requests, Cleaners,
       WonSteps, UndoSteps, CleanSteps, Unsettled, Settled
  <1>12. ASSUME NEW c \in Completes, ReadStaging(c) PROVE TypeOK' /\ StepsOK'
    BY <1>12 DEF ReadStaging, At, TypeOK, StepsOK, MadeOK, StatusOK, Requests, Cleaners,
       WonSteps, UndoSteps, CleanSteps, Unsettled, Settled
  <1>13. ASSUME NEW c \in Completes, InsertBook(c) PROVE TypeOK' /\ StepsOK'
    BY <1>13 DEF InsertBook, At, TypeOK, StepsOK, MadeOK, StatusOK, Requests, Cleaners,
       WonSteps, UndoSteps, CleanSteps, Unsettled, Settled
  <1>14. ASSUME NEW c \in Completes, InsertFile(c) PROVE TypeOK' /\ StepsOK'
    BY <1>14 DEF InsertFile, At, TypeOK, StepsOK, MadeOK, StatusOK, Requests, Cleaners,
       WonSteps, UndoSteps, CleanSteps, Unsettled, Settled
  <1>15. ASSUME NEW c \in Completes, InsertFails(c) PROVE TypeOK' /\ StepsOK'
    BY <1>15 DEF InsertFails, At, TypeOK, StepsOK, MadeOK, StatusOK, Requests, Cleaners,
       WonSteps, UndoSteps, CleanSteps, Unsettled, Settled
  <1>16. ASSUME NEW c \in Completes, StoreFile(c) PROVE TypeOK' /\ StepsOK'
    BY <1>16 DEF StoreFile, At, TypeOK, StepsOK, MadeOK, StatusOK, Requests, Cleaners, WonSteps,
       UndoSteps, CleanSteps, Unsettled, Settled
  <1>17. ASSUME NEW c \in Completes, DeleteStaging(c) PROVE TypeOK' /\ StepsOK'
    <2>1. staging' \in BOOLEAN /\ debris' \in BOOLEAN
      BY <1>17 DEF DeleteStaging, At, TypeOK
    <2>2. TypeOK'
      BY <1>17, <2>1 DEF DeleteStaging, At, TypeOK, StepsOK, Requests, Cleaners, CleanSteps,
       Unsettled, Settled
    <2>3. StepsOK'
      BY <1>17 DEF DeleteStaging, At, TypeOK, StepsOK, Requests, Cleaners, WonSteps, UndoSteps,
       CleanSteps
    <2>4. QED
      BY <2>2, <2>3
  <1>18. ASSUME NEW c \in Completes, Finish(c) PROVE TypeOK' /\ StepsOK'
    <2>1. PICK next \in {"end", "undoFile"} :
            /\ pc[c] = "finish" /\ pc' = [pc EXCEPT ![c] = next]
            /\ UNCHANGED <<session, overlap, r2Vars, bookVars, debris>>
            /\ heard' \in {c, NoBook}
      BY <1>18 DEF Finish
    <2>2. /\ status' \in Settled /\ keys' \in BOOLEAN /\ old' \in BOOLEAN
          /\ book' \in Completes \cup {NoBook}
      BY <1>18 DEF Finish, SetTask, TypeOK, Settled
    <2>3. TypeOK'
      BY <2>1, <2>2 DEF TypeOK, Requests
    <2>4. StepsOK'
      BY <1>18, <2>1 DEF Finish, SetTask, TypeOK, StepsOK, Requests, Cleaners, WonSteps,
       UndoSteps, CleanSteps
    <2>5. QED
      BY <2>3, <2>4
  <1>19. ASSUME NEW c \in Completes, CompleteStepFails(c) PROVE TypeOK' /\ StepsOK'
    BY <1>19 DEF CompleteStepFails, At, TypeOK, StepsOK, MadeOK, StatusOK, Requests, Cleaners,
       WonSteps, UndoSteps, CleanSteps, Unsettled, Settled
  <1>20. ASSUME NEW c \in Completes, UndoFile(c) PROVE TypeOK' /\ StepsOK'
    <2>1. staging' \in BOOLEAN /\ debris' \in BOOLEAN
      BY <1>20 DEF UndoFile, At, TypeOK
    <2>2. TypeOK'
      BY <1>20, <2>1 DEF UndoFile, At, TypeOK, StepsOK, Requests, Cleaners, CleanSteps,
       Unsettled, Settled
    <2>3. StepsOK'
      BY <1>20 DEF UndoFile, At, TypeOK, StepsOK, Requests, Cleaners, WonSteps, UndoSteps,
       CleanSteps
    <2>4. QED
      BY <2>2, <2>3
  <1>21. ASSUME NEW c \in Completes, UndoBook(c) PROVE TypeOK' /\ StepsOK'
    <2>1. /\ books' \in SUBSET Completes /\ listed' \in SUBSET books'
          /\ book' \in Completes \cup {NoBook} /\ debris' \in BOOLEAN
      BY <1>21 DEF UndoBook, TypeOK
    <2>2. TypeOK'
      BY <1>21, <2>1 DEF UndoBook, At, TypeOK, Requests
    <2>3. StepsOK'
      BY <1>21 DEF UndoBook, At, TypeOK, StepsOK, Requests, Cleaners, WonSteps, UndoSteps,
       CleanSteps
    <2>4. QED
      BY <2>2, <2>3
  <1>22. ASSUME NEW c \in Completes, UndoStaging(c) PROVE TypeOK' /\ StepsOK'
    <2>1. staging' \in BOOLEAN /\ debris' \in BOOLEAN
      BY <1>22 DEF UndoStaging, At, TypeOK
    <2>2. TypeOK'
      BY <1>22, <2>1 DEF UndoStaging, At, TypeOK, StepsOK, Requests, Cleaners, CleanSteps,
       Unsettled, Settled
    <2>3. StepsOK'
      BY <1>22 DEF UndoStaging, At, TypeOK, StepsOK, Requests, Cleaners, WonSteps, UndoSteps,
       CleanSteps
    <2>4. QED
      BY <2>2, <2>3
  <1>23. ASSUME NEW a \in Aborts, BeginAbort(a) PROVE TypeOK' /\ StepsOK'
    BY <1>23 DEF BeginAbort, Begin, TypeOK, StepsOK, MadeOK, StatusOK, Requests, Cleaners,
       WonSteps, UndoSteps, CleanSteps, Unsettled, Settled
  <1>24. ASSUME BeginSweep PROVE TypeOK' /\ StepsOK'
    BY <1>24 DEF BeginSweep, Begin, TypeOK, StepsOK, MadeOK, StatusOK, Requests, Cleaners,
       WonSteps, UndoSteps, CleanSteps, Unsettled, Settled
  <1>25. ASSUME NEW r \in Requests, r \notin Parts, AbortMultipart(r) PROVE TypeOK' /\ StepsOK'
    <2>1. staging' \in BOOLEAN /\ debris' \in BOOLEAN
      BY <1>25 DEF AbortMultipart, At, TypeOK
    <2>2. TypeOK'
      BY <1>25, <2>1 DEF AbortMultipart, At, TypeOK, StepsOK, Requests, Cleaners, CleanSteps,
       Unsettled, Settled
    <2>3. StepsOK'
      BY <1>25 DEF AbortMultipart, At, TypeOK, StepsOK, Requests, Cleaners, WonSteps, UndoSteps,
       CleanSteps
    <2>4. QED
      BY <2>2, <2>3
  <1>26. ASSUME NEW r \in Cleaners, CleanStaging(r) PROVE TypeOK' /\ StepsOK'
    <2>1. staging' \in BOOLEAN /\ debris' \in BOOLEAN
      BY <1>26 DEF CleanStaging, At, TypeOK
    <2>2. TypeOK'
      BY <1>26, <2>1 DEF CleanStaging, At, TypeOK, StepsOK, Requests, Cleaners, CleanSteps,
       Unsettled, Settled
    <2>3. StepsOK'
      BY <1>26 DEF CleanStaging, At, TypeOK, StepsOK, Requests, Cleaners, WonSteps, UndoSteps,
       CleanSteps
    <2>4. QED
      BY <2>2, <2>3
  <1>27. ASSUME NEW r \in Requests, r \notin Parts, FailTask(r) PROVE TypeOK' /\ StepsOK'
    <2>1. /\ status' \in Unsettled \cup Settled /\ keys' \in BOOLEAN /\ old' \in BOOLEAN
          /\ book' = book /\ UNCHANGED <<session, heard, overlap, r2Vars, bookVars, debris>>
      BY <1>27 DEF FailTask, At, SetTask, TypeOK, Unsettled, Settled
    <2>2. pc' \in [Requests -> {"idle", "end", "put", "mark", "complete", "read", "insert",
                              "insertFile", "upload", "unstage", "finish", "undoFile",
                              "undoBook", "undoStaging", "abort", "fail"}]
      BY <1>27 DEF FailTask, At, TypeOK, Requests
    <2>3. TypeOK'
      BY <2>1, <2>2 DEF TypeOK
    <2>4. StepsOK'
      BY <1>27 DEF FailTask, At, SetTask, TypeOK, StepsOK, Requests, Cleaners, WonSteps, UndoSteps,
       CleanSteps
    <2>5. QED
      BY <2>3, <2>4
  <1>28. ASSUME SweepDies PROVE TypeOK' /\ StepsOK'
    BY <1>28 DEF SweepDies, At, Live, TypeOK, StepsOK, MadeOK, StatusOK, Requests, Cleaners,
       WonSteps, UndoSteps, CleanSteps, Unsettled, Settled
  <1>29. ASSUME NEW r \in Requests \ {Sweeper}, Die(r) PROVE TypeOK' /\ StepsOK'
    BY <1>29 DEF Die, At, Live, Forgetting, TypeOK, StepsOK, MadeOK, StatusOK, Requests,
       Cleaners, WonSteps, UndoSteps, CleanSteps, Unsettled, Settled
  <1>30. ASSUME Age PROVE TypeOK' /\ StepsOK'
    BY <1>30 DEF Age, TypeOK, StepsOK, MadeOK, StatusOK, Requests, Cleaners, WonSteps,
       UndoSteps, CleanSteps, Unsettled, Settled
  <1>31. QED
    BY StepCases, <1>1, <1>2, <1>3, <1>4, <1>5, <1>6, <1>7, <1>8, <1>9, <1>10, <1>11, <1>12,
       <1>13, <1>14, <1>15, <1>16, <1>17, <1>18, <1>19, <1>20, <1>21, <1>22, <1>23, <1>24,
       <1>25, <1>26, <1>27, <1>28, <1>29, <1>30

(* The row's status goes with the session. *)
LEMMA NextStatus ==
  ASSUME TypeOK, StepsOK, StatusOK, Next
  PROVE  StatusOK'
  <1> USE UploadAssumption DEF taskVars, r2Vars, bookVars, histVars
  <1>1. ASSUME InsertTask PROVE StatusOK'
    BY <1>1 DEF InsertTask, Create, SetTask, TypeOK, StepsOK, StatusOK, Requests, Cleaners,
       WonSteps, UndoSteps, CleanSteps, Unsettled, Settled
  <1>2. ASSUME OpenMultipart PROVE StatusOK'
    BY <1>2 DEF OpenMultipart, Create, TypeOK, StepsOK, StatusOK, Requests, Cleaners, WonSteps,
       UndoSteps, CleanSteps, Unsettled, Settled
  <1>3. ASSUME OpenFails PROVE StatusOK'
    BY <1>3 DEF OpenFails, Create, SetTask, TypeOK, StepsOK, StatusOK, Requests, Cleaners,
       WonSteps, UndoSteps, CleanSteps, Unsettled, Settled
  <1>4. ASSUME StoreKeys PROVE StatusOK'
    BY <1>4 DEF StoreKeys, Create, SetTask, TypeOK, StepsOK, StatusOK, Requests, Cleaners,
       WonSteps, UndoSteps, CleanSteps, Unsettled, Settled
  <1>5. ASSUME CreateDies PROVE StatusOK'
    BY <1>5 DEF CreateDies, Create, Creating, TypeOK, StepsOK, StatusOK, Requests, Cleaners,
       WonSteps, UndoSteps, CleanSteps, Unsettled, Settled
  <1>6. ASSUME NEW p \in Parts, BeginPart(p) PROVE StatusOK'
    BY <1>6 DEF BeginPart, Begin, TypeOK, StepsOK, StatusOK, Requests, Cleaners, WonSteps,
       UndoSteps, CleanSteps, Unsettled, Settled
  <1>7. ASSUME NEW p \in Parts, PutPart(p) PROVE StatusOK'
    BY <1>7 DEF PutPart, At, TypeOK, StepsOK, StatusOK, Requests, Cleaners, WonSteps, UndoSteps,
       CleanSteps, Unsettled, Settled
  <1>8. ASSUME NEW p \in Parts, MarkPart(p) PROVE StatusOK'
    BY <1>8 DEF MarkPart, At, SetTask, TypeOK, StepsOK, StatusOK, Requests, Cleaners, WonSteps,
       UndoSteps, CleanSteps, Unsettled, Settled
  <1>9. ASSUME NEW c \in Completes, BeginComplete(c) PROVE StatusOK'
    BY <1>9 DEF BeginComplete, Begin, TypeOK, StepsOK, StatusOK, Requests, Cleaners, WonSteps,
       UndoSteps, CleanSteps, Unsettled, Settled
  <1>10. ASSUME NEW c \in Completes, CompleteMultipart(c) PROVE StatusOK'
    BY <1>10 DEF CompleteMultipart, At, TypeOK, StepsOK, StatusOK, Requests, Cleaners, WonSteps,
       UndoSteps, CleanSteps, Unsettled, Settled
  <1>11. ASSUME NEW c \in Completes, CompleteFails(c) PROVE StatusOK'
    BY <1>11 DEF CompleteFails, At, TypeOK, StepsOK, StatusOK, Requests, Cleaners, WonSteps,
       UndoSteps, CleanSteps, Unsettled, Settled
  <1>12. ASSUME NEW c \in Completes, ReadStaging(c) PROVE StatusOK'
    BY <1>12 DEF ReadStaging, At, TypeOK, StepsOK, StatusOK, Requests, Cleaners, WonSteps,
       UndoSteps, CleanSteps, Unsettled, Settled
  <1>13. ASSUME NEW c \in Completes, InsertBook(c) PROVE StatusOK'
    BY <1>13 DEF InsertBook, At, TypeOK, StepsOK, StatusOK, Requests, Cleaners, WonSteps,
       UndoSteps, CleanSteps, Unsettled, Settled
  <1>14. ASSUME NEW c \in Completes, InsertFile(c) PROVE StatusOK'
    BY <1>14 DEF InsertFile, At, TypeOK, StepsOK, StatusOK, Requests, Cleaners, WonSteps,
       UndoSteps, CleanSteps, Unsettled, Settled
  <1>15. ASSUME NEW c \in Completes, InsertFails(c) PROVE StatusOK'
    BY <1>15 DEF InsertFails, At, TypeOK, StepsOK, StatusOK, Requests, Cleaners, WonSteps,
       UndoSteps, CleanSteps, Unsettled, Settled
  <1>16. ASSUME NEW c \in Completes, StoreFile(c) PROVE StatusOK'
    BY <1>16 DEF StoreFile, At, TypeOK, StepsOK, StatusOK, Requests, Cleaners, WonSteps,
       UndoSteps, CleanSteps, Unsettled, Settled
  <1>17. ASSUME NEW c \in Completes, DeleteStaging(c) PROVE StatusOK'
    BY <1>17 DEF DeleteStaging, At, TypeOK, StepsOK, StatusOK, Requests, Cleaners, WonSteps,
       UndoSteps, CleanSteps, Unsettled, Settled
  <1>18. ASSUME NEW c \in Completes, Finish(c) PROVE StatusOK'
    BY <1>18 DEF Finish, SetTask, TypeOK, StepsOK, StatusOK, Requests, Cleaners, WonSteps,
       UndoSteps, CleanSteps, Unsettled, Settled
  <1>19. ASSUME NEW c \in Completes, CompleteStepFails(c) PROVE StatusOK'
    BY <1>19 DEF CompleteStepFails, At, TypeOK, StepsOK, StatusOK, Requests, Cleaners, WonSteps,
       UndoSteps, CleanSteps, Unsettled, Settled
  <1>20. ASSUME NEW c \in Completes, UndoFile(c) PROVE StatusOK'
    BY <1>20 DEF UndoFile, At, TypeOK, StepsOK, StatusOK, Requests, Cleaners, WonSteps,
       UndoSteps, CleanSteps, Unsettled, Settled
  <1>21. ASSUME NEW c \in Completes, UndoBook(c) PROVE StatusOK'
    BY <1>21 DEF UndoBook, At, TypeOK, StepsOK, StatusOK, Requests, Cleaners, WonSteps,
       UndoSteps, CleanSteps, Unsettled, Settled
  <1>22. ASSUME NEW c \in Completes, UndoStaging(c) PROVE StatusOK'
    BY <1>22 DEF UndoStaging, At, TypeOK, StepsOK, StatusOK, Requests, Cleaners, WonSteps,
       UndoSteps, CleanSteps, Unsettled, Settled
  <1>23. ASSUME NEW a \in Aborts, BeginAbort(a) PROVE StatusOK'
    BY <1>23 DEF BeginAbort, Begin, TypeOK, StepsOK, StatusOK, Requests, Cleaners, WonSteps,
       UndoSteps, CleanSteps, Unsettled, Settled
  <1>24. ASSUME BeginSweep PROVE StatusOK'
    BY <1>24 DEF BeginSweep, Begin, TypeOK, StepsOK, StatusOK, Requests, Cleaners, WonSteps,
       UndoSteps, CleanSteps, Unsettled, Settled
  <1>25. ASSUME NEW r \in Requests, r \notin Parts, AbortMultipart(r) PROVE StatusOK'
    BY <1>25 DEF AbortMultipart, At, TypeOK, StepsOK, StatusOK, Requests, Cleaners, WonSteps,
       UndoSteps, CleanSteps, Unsettled, Settled
  <1>26. ASSUME NEW r \in Cleaners, CleanStaging(r) PROVE StatusOK'
    BY <1>26 DEF CleanStaging, At, TypeOK, StepsOK, StatusOK, Requests, Cleaners, WonSteps,
       UndoSteps, CleanSteps, Unsettled, Settled
  <1>27. ASSUME NEW r \in Requests, r \notin Parts, FailTask(r) PROVE StatusOK'
    BY <1>27 DEF FailTask, At, SetTask, TypeOK, StepsOK, StatusOK, Requests, Cleaners, WonSteps,
       UndoSteps, CleanSteps, Unsettled, Settled
  <1>28. ASSUME SweepDies PROVE StatusOK'
    BY <1>28 DEF SweepDies, At, Live, TypeOK, StepsOK, StatusOK, Requests, Cleaners, WonSteps,
       UndoSteps, CleanSteps, Unsettled, Settled
  <1>29. ASSUME NEW r \in Requests \ {Sweeper}, Die(r) PROVE StatusOK'
    BY <1>29 DEF Die, At, Live, Forgetting, TypeOK, StepsOK, StatusOK, Requests, Cleaners,
       WonSteps, UndoSteps, CleanSteps, Unsettled, Settled
  <1>30. ASSUME Age PROVE StatusOK'
    BY <1>30 DEF Age, TypeOK, StepsOK, StatusOK, Requests, Cleaners, WonSteps, UndoSteps,
       CleanSteps, Unsettled, Settled
  <1>31. QED
    BY StepCases, <1>1, <1>2, <1>3, <1>4, <1>5, <1>6, <1>7, <1>8, <1>9, <1>10, <1>11, <1>12,
       <1>13, <1>14, <1>15, <1>16, <1>17, <1>18, <1>19, <1>20, <1>21, <1>22, <1>23, <1>24,
       <1>25, <1>26, <1>27, <1>28, <1>29, <1>30

(* R2 completes a multipart upload once. *)
LEMMA NextWinner ==
  ASSUME TypeOK, StepsOK, StatusOK, WinnerOK, Next
  PROVE  WinnerOK'
  <1> USE UploadAssumption DEF taskVars, r2Vars, bookVars, histVars
  <1>1. ASSUME InsertTask PROVE WinnerOK'
    BY <1>1 DEF InsertTask, Create, SetTask, TypeOK, StepsOK, WinnerOK, StatusOK, Won, Requests,
       Cleaners, WonSteps, UndoSteps
  <1>2. ASSUME OpenMultipart PROVE WinnerOK'
    BY <1>2 DEF OpenMultipart, Create, TypeOK, StepsOK, WinnerOK, StatusOK, Won, Requests,
       Cleaners, WonSteps, UndoSteps
  <1>3. ASSUME OpenFails PROVE WinnerOK'
    BY <1>3 DEF OpenFails, Create, SetTask, TypeOK, StepsOK, WinnerOK, StatusOK, Won, Requests,
       Cleaners, WonSteps, UndoSteps
  <1>4. ASSUME StoreKeys PROVE WinnerOK'
    BY <1>4 DEF StoreKeys, Create, SetTask, TypeOK, StepsOK, WinnerOK, StatusOK, Won, Requests,
       Cleaners, WonSteps, UndoSteps
  <1>5. ASSUME CreateDies PROVE WinnerOK'
    BY <1>5 DEF CreateDies, Create, Creating, TypeOK, StepsOK, WinnerOK, StatusOK, Won,
       Requests, Cleaners, WonSteps, UndoSteps
  <1>6. ASSUME NEW p \in Parts, BeginPart(p) PROVE WinnerOK'
    BY <1>6 DEF BeginPart, Begin, TypeOK, StepsOK, WinnerOK, StatusOK, Won, Requests, Cleaners,
       WonSteps, UndoSteps
  <1>7. ASSUME NEW p \in Parts, PutPart(p) PROVE WinnerOK'
    BY <1>7 DEF PutPart, At, TypeOK, StepsOK, WinnerOK, StatusOK, Won, Requests, Cleaners,
       WonSteps, UndoSteps
  <1>8. ASSUME NEW p \in Parts, MarkPart(p) PROVE WinnerOK'
    BY <1>8 DEF MarkPart, At, SetTask, TypeOK, StepsOK, WinnerOK, StatusOK, Won, Requests,
       Cleaners, WonSteps, UndoSteps
  <1>9. ASSUME NEW c \in Completes, BeginComplete(c) PROVE WinnerOK'
    BY <1>9 DEF BeginComplete, Begin, TypeOK, StepsOK, WinnerOK, StatusOK, Won, Requests,
       Cleaners, WonSteps, UndoSteps
  <1>10. ASSUME NEW c \in Completes, CompleteMultipart(c) PROVE WinnerOK'
    BY <1>10 DEF CompleteMultipart, At, TypeOK, StepsOK, WinnerOK, StatusOK, Won, Requests,
       Cleaners, WonSteps, UndoSteps
  <1>11. ASSUME NEW c \in Completes, CompleteFails(c) PROVE WinnerOK'
    BY <1>11 DEF CompleteFails, At, TypeOK, StepsOK, WinnerOK, StatusOK, Won, Requests,
       Cleaners, WonSteps, UndoSteps
  <1>12. ASSUME NEW c \in Completes, ReadStaging(c) PROVE WinnerOK'
    BY <1>12 DEF ReadStaging, At, TypeOK, StepsOK, WinnerOK, StatusOK, Won, Requests, Cleaners,
       WonSteps, UndoSteps
  <1>13. ASSUME NEW c \in Completes, InsertBook(c) PROVE WinnerOK'
    BY <1>13 DEF InsertBook, At, TypeOK, StepsOK, WinnerOK, StatusOK, Won, Requests, Cleaners,
       WonSteps, UndoSteps
  <1>14. ASSUME NEW c \in Completes, InsertFile(c) PROVE WinnerOK'
    BY <1>14 DEF InsertFile, At, TypeOK, StepsOK, WinnerOK, StatusOK, Won, Requests, Cleaners,
       WonSteps, UndoSteps
  <1>15. ASSUME NEW c \in Completes, InsertFails(c) PROVE WinnerOK'
    BY <1>15 DEF InsertFails, At, TypeOK, StepsOK, WinnerOK, StatusOK, Won, Requests, Cleaners,
       WonSteps, UndoSteps
  <1>16. ASSUME NEW c \in Completes, StoreFile(c) PROVE WinnerOK'
    BY <1>16 DEF StoreFile, At, TypeOK, StepsOK, WinnerOK, StatusOK, Won, Requests, Cleaners,
       WonSteps, UndoSteps
  <1>17. ASSUME NEW c \in Completes, DeleteStaging(c) PROVE WinnerOK'
    BY <1>17 DEF DeleteStaging, At, TypeOK, StepsOK, WinnerOK, StatusOK, Won, Requests,
       Cleaners, WonSteps, UndoSteps
  <1>18. ASSUME NEW c \in Completes, Finish(c) PROVE WinnerOK'
    BY <1>18 DEF Finish, SetTask, TypeOK, StepsOK, WinnerOK, StatusOK, Won, Requests,
       Cleaners, WonSteps, UndoSteps
  <1>19. ASSUME NEW c \in Completes, CompleteStepFails(c) PROVE WinnerOK'
    BY <1>19 DEF CompleteStepFails, At, TypeOK, StepsOK, WinnerOK, StatusOK, Won, Requests,
       Cleaners, WonSteps, UndoSteps
  <1>20. ASSUME NEW c \in Completes, UndoFile(c) PROVE WinnerOK'
    BY <1>20 DEF UndoFile, At, TypeOK, StepsOK, WinnerOK, StatusOK, Won, Requests, Cleaners,
       WonSteps, UndoSteps
  <1>21. ASSUME NEW c \in Completes, UndoBook(c) PROVE WinnerOK'
    BY <1>21 DEF UndoBook, At, TypeOK, StepsOK, WinnerOK, StatusOK, Won, Requests, Cleaners,
       WonSteps, UndoSteps
  <1>22. ASSUME NEW c \in Completes, UndoStaging(c) PROVE WinnerOK'
    BY <1>22 DEF UndoStaging, At, TypeOK, StepsOK, WinnerOK, StatusOK, Won, Requests, Cleaners,
       WonSteps, UndoSteps
  <1>23. ASSUME NEW a \in Aborts, BeginAbort(a) PROVE WinnerOK'
    BY <1>23 DEF BeginAbort, Begin, TypeOK, StepsOK, WinnerOK, StatusOK, Won, Requests,
       Cleaners, WonSteps, UndoSteps
  <1>24. ASSUME BeginSweep PROVE WinnerOK'
    BY <1>24 DEF BeginSweep, Begin, TypeOK, StepsOK, WinnerOK, StatusOK, Won, Requests,
       Cleaners, WonSteps, UndoSteps
  <1>25. ASSUME NEW r \in Requests, r \notin Parts, AbortMultipart(r) PROVE WinnerOK'
    BY <1>25 DEF AbortMultipart, At, TypeOK, StepsOK, WinnerOK, StatusOK, Won, Requests,
       Cleaners, WonSteps, UndoSteps
  <1>26. ASSUME NEW r \in Cleaners, CleanStaging(r) PROVE WinnerOK'
    BY <1>26 DEF CleanStaging, At, TypeOK, StepsOK, WinnerOK, StatusOK, Won, Requests, Cleaners,
       WonSteps, UndoSteps
  <1>27. ASSUME NEW r \in Requests, r \notin Parts, FailTask(r) PROVE WinnerOK'
    BY <1>27 DEF FailTask, At, SetTask, TypeOK, StepsOK, WinnerOK, StatusOK, Won, Requests,
       Cleaners, WonSteps, UndoSteps
  <1>28. ASSUME SweepDies PROVE WinnerOK'
    BY <1>28 DEF SweepDies, At, Live, TypeOK, StepsOK, WinnerOK, StatusOK, Won, Requests,
       Cleaners, WonSteps, UndoSteps
  <1>29. ASSUME NEW r \in Requests \ {Sweeper}, Die(r) PROVE WinnerOK'
    BY <1>29 DEF Die, At, Live, Forgetting, TypeOK, StepsOK, WinnerOK, StatusOK, Won, Requests,
       Cleaners, WonSteps, UndoSteps
  <1>30. ASSUME Age PROVE WinnerOK'
    BY <1>30 DEF Age, TypeOK, StepsOK, WinnerOK, StatusOK, Won, Requests, Cleaners, WonSteps,
       UndoSteps
  <1>31. QED
    BY StepCases, <1>1, <1>2, <1>3, <1>4, <1>5, <1>6, <1>7, <1>8, <1>9, <1>10, <1>11, <1>12,
       <1>13, <1>14, <1>15, <1>16, <1>17, <1>18, <1>19, <1>20, <1>21, <1>22, <1>23, <1>24,
       <1>25, <1>26, <1>27, <1>28, <1>29, <1>30

(* A rollback undoes what its own request made. *)
LEMMA NextMade ==
  ASSUME TypeOK, StepsOK, StatusOK, WinnerOK, MadeOK, Next
  PROVE  MadeOK'
  <1> USE UploadAssumption DEF taskVars, r2Vars, bookVars, histVars
  <1>1. ASSUME InsertTask PROVE MadeOK'
    BY <1>1 DEF InsertTask, Create, SetTask, TypeOK, StepsOK, MadeOK, WinnerOK, Won, Requests,
       Cleaners, WonSteps
  <1>2. ASSUME OpenMultipart PROVE MadeOK'
    BY <1>2 DEF OpenMultipart, Create, TypeOK, StepsOK, MadeOK, WinnerOK, Won, Requests,
       Cleaners, WonSteps
  <1>3. ASSUME OpenFails PROVE MadeOK'
    BY <1>3 DEF OpenFails, Create, SetTask, TypeOK, StepsOK, MadeOK, WinnerOK, Won, Requests,
       Cleaners, WonSteps
  <1>4. ASSUME StoreKeys PROVE MadeOK'
    BY <1>4 DEF StoreKeys, Create, SetTask, TypeOK, StepsOK, MadeOK, WinnerOK, Won, Requests,
       Cleaners, WonSteps
  <1>5. ASSUME CreateDies PROVE MadeOK'
    BY <1>5 DEF CreateDies, Create, Creating, TypeOK, StepsOK, MadeOK, WinnerOK, Won, Requests,
       Cleaners, WonSteps
  <1>6. ASSUME NEW p \in Parts, BeginPart(p) PROVE MadeOK'
    BY <1>6 DEF BeginPart, Begin, TypeOK, StepsOK, MadeOK, WinnerOK, Won, Requests, Cleaners,
       WonSteps
  <1>7. ASSUME NEW p \in Parts, PutPart(p) PROVE MadeOK'
    BY <1>7 DEF PutPart, At, TypeOK, StepsOK, MadeOK, WinnerOK, Won, Requests, Cleaners,
       WonSteps
  <1>8. ASSUME NEW p \in Parts, MarkPart(p) PROVE MadeOK'
    BY <1>8 DEF MarkPart, At, SetTask, TypeOK, StepsOK, MadeOK, WinnerOK, Won, Requests,
       Cleaners, WonSteps
  <1>9. ASSUME NEW c \in Completes, BeginComplete(c) PROVE MadeOK'
    BY <1>9 DEF BeginComplete, Begin, TypeOK, StepsOK, MadeOK, WinnerOK, Won, Requests,
       Cleaners, WonSteps
  <1>10. ASSUME NEW c \in Completes, CompleteMultipart(c) PROVE MadeOK'
    BY <1>10 DEF CompleteMultipart, At, TypeOK, StepsOK, MadeOK, WinnerOK, Won, Requests,
       Cleaners, WonSteps
  <1>11. ASSUME NEW c \in Completes, CompleteFails(c) PROVE MadeOK'
    BY <1>11 DEF CompleteFails, At, TypeOK, StepsOK, MadeOK, WinnerOK, Won, Requests, Cleaners,
       WonSteps
  <1>12. ASSUME NEW c \in Completes, ReadStaging(c) PROVE MadeOK'
    BY <1>12 DEF ReadStaging, At, TypeOK, StepsOK, MadeOK, WinnerOK, Won, Requests, Cleaners,
       WonSteps
  <1>13. ASSUME NEW c \in Completes, InsertBook(c) PROVE MadeOK'
    BY <1>13 DEF InsertBook, At, TypeOK, StepsOK, MadeOK, WinnerOK, Won, Requests, Cleaners,
       WonSteps
  <1>14. ASSUME NEW c \in Completes, InsertFile(c) PROVE MadeOK'
    BY <1>14 DEF InsertFile, At, TypeOK, StepsOK, MadeOK, WinnerOK, Won, Requests, Cleaners,
       WonSteps
  <1>15. ASSUME NEW c \in Completes, InsertFails(c) PROVE MadeOK'
    BY <1>15 DEF InsertFails, At, TypeOK, StepsOK, MadeOK, WinnerOK, Won, Requests, Cleaners,
       WonSteps
  <1>16. ASSUME NEW c \in Completes, StoreFile(c) PROVE MadeOK'
    BY <1>16 DEF StoreFile, At, TypeOK, StepsOK, MadeOK, WinnerOK, Won, Requests, Cleaners,
       WonSteps
  <1>17. ASSUME NEW c \in Completes, DeleteStaging(c) PROVE MadeOK'
    BY <1>17 DEF DeleteStaging, At, TypeOK, StepsOK, MadeOK, WinnerOK, Won, Requests, Cleaners,
       WonSteps
  <1>18. ASSUME NEW c \in Completes, Finish(c) PROVE MadeOK'
    BY <1>18 DEF Finish, SetTask, TypeOK, StepsOK, MadeOK, WinnerOK, Won, Requests,
       Cleaners, WonSteps
  <1>19. ASSUME NEW c \in Completes, CompleteStepFails(c) PROVE MadeOK'
    BY <1>19 DEF CompleteStepFails, At, TypeOK, StepsOK, MadeOK, WinnerOK, Won, Requests,
       Cleaners, WonSteps
  <1>20. ASSUME NEW c \in Completes, UndoFile(c) PROVE MadeOK'
    BY <1>20 DEF UndoFile, At, TypeOK, StepsOK, MadeOK, WinnerOK, Won, Requests, Cleaners,
       WonSteps
  <1>21. ASSUME NEW c \in Completes, UndoBook(c) PROVE MadeOK'
    BY <1>21 DEF UndoBook, At, TypeOK, StepsOK, MadeOK, WinnerOK, Won, Requests, Cleaners,
       WonSteps
  <1>22. ASSUME NEW c \in Completes, UndoStaging(c) PROVE MadeOK'
    BY <1>22 DEF UndoStaging, At, TypeOK, StepsOK, MadeOK, WinnerOK, Won, Requests, Cleaners,
       WonSteps
  <1>23. ASSUME NEW a \in Aborts, BeginAbort(a) PROVE MadeOK'
    BY <1>23 DEF BeginAbort, Begin, TypeOK, StepsOK, MadeOK, WinnerOK, Won, Requests, Cleaners,
       WonSteps
  <1>24. ASSUME BeginSweep PROVE MadeOK'
    BY <1>24 DEF BeginSweep, Begin, TypeOK, StepsOK, MadeOK, WinnerOK, Won, Requests, Cleaners,
       WonSteps
  <1>25. ASSUME NEW r \in Requests, r \notin Parts, AbortMultipart(r) PROVE MadeOK'
    BY <1>25 DEF AbortMultipart, At, TypeOK, StepsOK, MadeOK, WinnerOK, Won, Requests, Cleaners,
       WonSteps
  <1>26. ASSUME NEW r \in Cleaners, CleanStaging(r) PROVE MadeOK'
    BY <1>26 DEF CleanStaging, At, TypeOK, StepsOK, MadeOK, WinnerOK, Won, Requests, Cleaners,
       WonSteps
  <1>27. ASSUME NEW r \in Requests, r \notin Parts, FailTask(r) PROVE MadeOK'
    BY <1>27 DEF FailTask, At, SetTask, TypeOK, StepsOK, MadeOK, WinnerOK, Won, Requests,
       Cleaners, WonSteps
  <1>28. ASSUME SweepDies PROVE MadeOK'
    BY <1>28 DEF SweepDies, At, Live, TypeOK, StepsOK, MadeOK, WinnerOK, Won, Requests,
       Cleaners, WonSteps
  <1>29. ASSUME NEW r \in Requests \ {Sweeper}, Die(r) PROVE MadeOK'
    BY <1>29 DEF Die, At, Live, Forgetting, TypeOK, StepsOK, MadeOK, WinnerOK, Won, Requests,
       Cleaners, WonSteps
  <1>30. ASSUME Age PROVE MadeOK'
    BY <1>30 DEF Age, TypeOK, StepsOK, MadeOK, WinnerOK, Won, Requests, Cleaners, WonSteps
  <1>31. QED
    BY StepCases, <1>1, <1>2, <1>3, <1>4, <1>5, <1>6, <1>7, <1>8, <1>9, <1>10, <1>11, <1>12,
       <1>13, <1>14, <1>15, <1>16, <1>17, <1>18, <1>19, <1>20, <1>21, <1>22, <1>23, <1>24,
       <1>25, <1>26, <1>27, <1>28, <1>29, <1>30

(* A success keeps its book. *)
LEMMA NextSuccess ==
  ASSUME TypeOK, StepsOK, StatusOK, WinnerOK, MadeOK, SuccessOK, Next
  PROVE  SuccessOK'
  <1> USE UploadAssumption DEF taskVars, r2Vars, bookVars, histVars
  <1>1. ASSUME InsertTask PROVE SuccessOK'
    BY <1>1 DEF InsertTask, Create, SetTask, TypeOK, StepsOK, StatusOK, MadeOK, SuccessOK,
       Requests
  <1>2. ASSUME OpenMultipart PROVE SuccessOK'
    BY <1>2 DEF OpenMultipart, Create, TypeOK, StepsOK, StatusOK, MadeOK, SuccessOK, Requests
  <1>3. ASSUME OpenFails PROVE SuccessOK'
    BY <1>3 DEF OpenFails, Create, SetTask, TypeOK, StepsOK, StatusOK, MadeOK, SuccessOK, Requests
  <1>4. ASSUME StoreKeys PROVE SuccessOK'
    BY <1>4 DEF StoreKeys, Create, SetTask, TypeOK, StepsOK, StatusOK, MadeOK, SuccessOK, Requests
  <1>5. ASSUME CreateDies PROVE SuccessOK'
    BY <1>5 DEF CreateDies, Create, Creating, TypeOK, StepsOK, StatusOK, MadeOK, SuccessOK,
       Requests
  <1>6. ASSUME NEW p \in Parts, BeginPart(p) PROVE SuccessOK'
    BY <1>6 DEF BeginPart, Begin, TypeOK, StepsOK, StatusOK, MadeOK, SuccessOK, Requests
  <1>7. ASSUME NEW p \in Parts, PutPart(p) PROVE SuccessOK'
    BY <1>7 DEF PutPart, At, TypeOK, StepsOK, StatusOK, MadeOK, SuccessOK, Requests
  <1>8. ASSUME NEW p \in Parts, MarkPart(p) PROVE SuccessOK'
    BY <1>8 DEF MarkPart, At, SetTask, TypeOK, StepsOK, StatusOK, MadeOK, SuccessOK, Requests
  <1>9. ASSUME NEW c \in Completes, BeginComplete(c) PROVE SuccessOK'
    BY <1>9 DEF BeginComplete, Begin, TypeOK, StepsOK, StatusOK, MadeOK, SuccessOK, Requests
  <1>10. ASSUME NEW c \in Completes, CompleteMultipart(c) PROVE SuccessOK'
    BY <1>10 DEF CompleteMultipart, At, TypeOK, StepsOK, StatusOK, MadeOK, SuccessOK, Requests
  <1>11. ASSUME NEW c \in Completes, CompleteFails(c) PROVE SuccessOK'
    BY <1>11 DEF CompleteFails, At, TypeOK, StepsOK, StatusOK, MadeOK, SuccessOK, Requests
  <1>12. ASSUME NEW c \in Completes, ReadStaging(c) PROVE SuccessOK'
    BY <1>12 DEF ReadStaging, At, TypeOK, StepsOK, StatusOK, MadeOK, SuccessOK, Requests
  <1>13. ASSUME NEW c \in Completes, InsertBook(c) PROVE SuccessOK'
    BY <1>13 DEF InsertBook, At, TypeOK, StepsOK, StatusOK, MadeOK, SuccessOK, Requests
  <1>14. ASSUME NEW c \in Completes, InsertFile(c) PROVE SuccessOK'
    BY <1>14 DEF InsertFile, At, TypeOK, StepsOK, StatusOK, MadeOK, SuccessOK, Requests
  <1>15. ASSUME NEW c \in Completes, InsertFails(c) PROVE SuccessOK'
    BY <1>15 DEF InsertFails, At, TypeOK, StepsOK, StatusOK, MadeOK, SuccessOK, Requests
  <1>16. ASSUME NEW c \in Completes, StoreFile(c) PROVE SuccessOK'
    BY <1>16 DEF StoreFile, At, TypeOK, StepsOK, StatusOK, MadeOK, SuccessOK, Requests
  <1>17. ASSUME NEW c \in Completes, DeleteStaging(c) PROVE SuccessOK'
    BY <1>17 DEF DeleteStaging, At, TypeOK, StepsOK, StatusOK, MadeOK, SuccessOK, Requests
  <1>18. ASSUME NEW c \in Completes, Finish(c) PROVE SuccessOK'
    BY <1>18 DEF Finish, SetTask, TypeOK, StepsOK, StatusOK, MadeOK, SuccessOK, Requests
  <1>19. ASSUME NEW c \in Completes, CompleteStepFails(c) PROVE SuccessOK'
    BY <1>19 DEF CompleteStepFails, At, TypeOK, StepsOK, StatusOK, MadeOK, SuccessOK, Requests
  <1>20. ASSUME NEW c \in Completes, UndoFile(c) PROVE SuccessOK'
    BY <1>20 DEF UndoFile, At, TypeOK, StepsOK, StatusOK, MadeOK, SuccessOK, Requests
  <1>21. ASSUME NEW c \in Completes, UndoBook(c) PROVE SuccessOK'
    BY <1>21 DEF UndoBook, At, TypeOK, StepsOK, StatusOK, MadeOK, SuccessOK, Requests
  <1>22. ASSUME NEW c \in Completes, UndoStaging(c) PROVE SuccessOK'
    BY <1>22 DEF UndoStaging, At, TypeOK, StepsOK, StatusOK, MadeOK, SuccessOK, Requests
  <1>23. ASSUME NEW a \in Aborts, BeginAbort(a) PROVE SuccessOK'
    BY <1>23 DEF BeginAbort, Begin, TypeOK, StepsOK, StatusOK, MadeOK, SuccessOK, Requests
  <1>24. ASSUME BeginSweep PROVE SuccessOK'
    BY <1>24 DEF BeginSweep, Begin, TypeOK, StepsOK, StatusOK, MadeOK, SuccessOK, Requests
  <1>25. ASSUME NEW r \in Requests, r \notin Parts, AbortMultipart(r) PROVE SuccessOK'
    BY <1>25 DEF AbortMultipart, At, TypeOK, StepsOK, StatusOK, MadeOK, SuccessOK, Requests
  <1>26. ASSUME NEW r \in Cleaners, CleanStaging(r) PROVE SuccessOK'
    BY <1>26 DEF CleanStaging, At, TypeOK, StepsOK, StatusOK, MadeOK, SuccessOK, Requests
  <1>27. ASSUME NEW r \in Requests, r \notin Parts, FailTask(r) PROVE SuccessOK'
    BY <1>27 DEF FailTask, At, SetTask, TypeOK, StepsOK, StatusOK, MadeOK, SuccessOK, Requests
  <1>28. ASSUME SweepDies PROVE SuccessOK'
    BY <1>28 DEF SweepDies, At, Live, TypeOK, StepsOK, StatusOK, MadeOK, SuccessOK, Requests
  <1>29. ASSUME NEW r \in Requests \ {Sweeper}, Die(r) PROVE SuccessOK'
    BY <1>29 DEF Die, At, Live, Forgetting, TypeOK, StepsOK, StatusOK, MadeOK, SuccessOK, Requests
  <1>30. ASSUME Age PROVE SuccessOK'
    BY <1>30 DEF Age, TypeOK, StepsOK, StatusOK, MadeOK, SuccessOK, Requests
  <1>31. QED
    BY StepCases, <1>1, <1>2, <1>3, <1>4, <1>5, <1>6, <1>7, <1>8, <1>9, <1>10, <1>11, <1>12,
       <1>13, <1>14, <1>15, <1>16, <1>17, <1>18, <1>19, <1>20, <1>21, <1>22, <1>23, <1>24,
       <1>25, <1>26, <1>27, <1>28, <1>29, <1>30

(* No book is left half-way. *)
LEMMA NextWhole ==
  ASSUME TypeOK, StepsOK, MadeOK, WholeOK, Next
  PROVE  WholeOK'
  <1> USE UploadAssumption DEF taskVars, r2Vars, bookVars, histVars
  <1>1. ASSUME InsertTask PROVE WholeOK'
    BY <1>1 DEF InsertTask, Create, SetTask, TypeOK, MadeOK, WholeOK, Requests, Cleaners
  <1>2. ASSUME OpenMultipart PROVE WholeOK'
    BY <1>2 DEF OpenMultipart, Create, TypeOK, MadeOK, WholeOK, Requests, Cleaners
  <1>3. ASSUME OpenFails PROVE WholeOK'
    BY <1>3 DEF OpenFails, Create, SetTask, TypeOK, MadeOK, WholeOK, Requests, Cleaners
  <1>4. ASSUME StoreKeys PROVE WholeOK'
    BY <1>4 DEF StoreKeys, Create, SetTask, TypeOK, MadeOK, WholeOK, Requests, Cleaners
  <1>5. ASSUME CreateDies PROVE WholeOK'
    BY <1>5 DEF CreateDies, Create, Creating, TypeOK, MadeOK, WholeOK, Requests, Cleaners
  <1>6. ASSUME NEW p \in Parts, BeginPart(p) PROVE WholeOK'
    BY <1>6 DEF BeginPart, Begin, TypeOK, MadeOK, WholeOK, Requests, Cleaners
  <1>7. ASSUME NEW p \in Parts, PutPart(p) PROVE WholeOK'
    BY <1>7 DEF PutPart, At, TypeOK, MadeOK, WholeOK, Requests, Cleaners
  <1>8. ASSUME NEW p \in Parts, MarkPart(p) PROVE WholeOK'
    BY <1>8 DEF MarkPart, At, SetTask, TypeOK, MadeOK, WholeOK, Requests, Cleaners
  <1>9. ASSUME NEW c \in Completes, BeginComplete(c) PROVE WholeOK'
    BY <1>9 DEF BeginComplete, Begin, TypeOK, MadeOK, WholeOK, Requests, Cleaners
  <1>10. ASSUME NEW c \in Completes, CompleteMultipart(c) PROVE WholeOK'
    BY <1>10 DEF CompleteMultipart, At, TypeOK, MadeOK, WholeOK, Requests, Cleaners
  <1>11. ASSUME NEW c \in Completes, CompleteFails(c) PROVE WholeOK'
    BY <1>11 DEF CompleteFails, At, TypeOK, MadeOK, WholeOK, Requests, Cleaners
  <1>12. ASSUME NEW c \in Completes, ReadStaging(c) PROVE WholeOK'
    BY <1>12 DEF ReadStaging, At, TypeOK, MadeOK, WholeOK, Requests, Cleaners
  <1>13. ASSUME NEW c \in Completes, InsertBook(c) PROVE WholeOK'
    BY <1>13 DEF InsertBook, At, TypeOK, MadeOK, WholeOK, Requests, Cleaners
  <1>14. ASSUME NEW c \in Completes, InsertFile(c) PROVE WholeOK'
    BY <1>14 DEF InsertFile, At, TypeOK, MadeOK, WholeOK, Requests, Cleaners
  <1>15. ASSUME NEW c \in Completes, InsertFails(c) PROVE WholeOK'
    BY <1>15 DEF InsertFails, At, TypeOK, MadeOK, WholeOK, Requests, Cleaners
  <1>16. ASSUME NEW c \in Completes, StoreFile(c) PROVE WholeOK'
    BY <1>16 DEF StoreFile, At, TypeOK, MadeOK, WholeOK, Requests, Cleaners
  <1>17. ASSUME NEW c \in Completes, DeleteStaging(c) PROVE WholeOK'
    BY <1>17 DEF DeleteStaging, At, TypeOK, MadeOK, WholeOK, Requests, Cleaners
  <1>18. ASSUME NEW c \in Completes, Finish(c) PROVE WholeOK'
    BY <1>18 DEF Finish, SetTask, TypeOK, MadeOK, WholeOK, Requests, Cleaners
  <1>19. ASSUME NEW c \in Completes, CompleteStepFails(c) PROVE WholeOK'
    BY <1>19 DEF CompleteStepFails, At, TypeOK, MadeOK, WholeOK, Requests, Cleaners
  <1>20. ASSUME NEW c \in Completes, UndoFile(c) PROVE WholeOK'
    BY <1>20 DEF UndoFile, At, TypeOK, MadeOK, WholeOK, Requests, Cleaners
  <1>21. ASSUME NEW c \in Completes, UndoBook(c) PROVE WholeOK'
    BY <1>21 DEF UndoBook, At, TypeOK, MadeOK, WholeOK, Requests, Cleaners
  <1>22. ASSUME NEW c \in Completes, UndoStaging(c) PROVE WholeOK'
    BY <1>22 DEF UndoStaging, At, TypeOK, MadeOK, WholeOK, Requests, Cleaners
  <1>23. ASSUME NEW a \in Aborts, BeginAbort(a) PROVE WholeOK'
    BY <1>23 DEF BeginAbort, Begin, TypeOK, MadeOK, WholeOK, Requests, Cleaners
  <1>24. ASSUME BeginSweep PROVE WholeOK'
    BY <1>24 DEF BeginSweep, Begin, TypeOK, MadeOK, WholeOK, Requests, Cleaners
  <1>25. ASSUME NEW r \in Requests, r \notin Parts, AbortMultipart(r) PROVE WholeOK'
    BY <1>25 DEF AbortMultipart, At, TypeOK, MadeOK, WholeOK, Requests, Cleaners
  <1>26. ASSUME NEW r \in Cleaners, CleanStaging(r) PROVE WholeOK'
    BY <1>26 DEF CleanStaging, At, TypeOK, MadeOK, WholeOK, Requests, Cleaners
  <1>27. ASSUME NEW r \in Requests, r \notin Parts, FailTask(r) PROVE WholeOK'
    BY <1>27 DEF FailTask, At, SetTask, TypeOK, MadeOK, WholeOK, Requests, Cleaners
  <1>28. ASSUME SweepDies PROVE WholeOK'
    BY <1>28 DEF SweepDies, At, Live, TypeOK, MadeOK, WholeOK, Requests, Cleaners
  <1>29. ASSUME NEW r \in Requests \ {Sweeper}, Die(r) PROVE WholeOK'
    BY <1>29 DEF Die, At, Live, Forgetting, TypeOK, MadeOK, WholeOK, Requests, Cleaners
  <1>30. ASSUME Age PROVE WholeOK'
    BY <1>30 DEF Age, TypeOK, MadeOK, WholeOK, Requests, Cleaners
  <1>31. QED
    BY StepCases, <1>1, <1>2, <1>3, <1>4, <1>5, <1>6, <1>7, <1>8, <1>9, <1>10, <1>11, <1>12,
       <1>13, <1>14, <1>15, <1>16, <1>17, <1>18, <1>19, <1>20, <1>21, <1>22, <1>23, <1>24,
       <1>25, <1>26, <1>27, <1>28, <1>29, <1>30

(* What is in the bucket is attended to as long as its keys are. *)
LEMMA NextBucket ==
  ASSUME TypeOK, StepsOK, StatusOK, WinnerOK, MadeOK, BucketOK, Next
  PROVE  BucketOK'
  <1> USE UploadAssumption DEF taskVars, r2Vars, bookVars, histVars
  <1>1. ASSUME InsertTask PROVE BucketOK'
    BY <1>1 DEF InsertTask, Create, SetTask, TypeOK, StepsOK, StatusOK, WinnerOK, BucketOK,
       Attended, Handled, HasStaging, Won, WonSteps, Requests, Cleaners
  <1>2. ASSUME OpenMultipart PROVE BucketOK'
    BY <1>2 DEF OpenMultipart, Create, TypeOK, StepsOK, StatusOK, WinnerOK, BucketOK, Attended,
       Handled, HasStaging, Won, WonSteps, Requests, Cleaners
  <1>3. ASSUME OpenFails PROVE BucketOK'
    BY <1>3 DEF OpenFails, Create, SetTask, TypeOK, StepsOK, StatusOK, WinnerOK, BucketOK,
       Attended, Handled, HasStaging, Won, WonSteps, Requests, Cleaners
  <1>4. ASSUME StoreKeys PROVE BucketOK'
    BY <1>4 DEF StoreKeys, Create, SetTask, TypeOK, StepsOK, StatusOK, WinnerOK, BucketOK,
       Attended, Handled, HasStaging, Won, WonSteps, Requests, Cleaners
  <1>5. ASSUME CreateDies PROVE BucketOK'
    BY <1>5 DEF CreateDies, Create, Creating, TypeOK, StepsOK, StatusOK, WinnerOK, BucketOK,
       Attended, Handled, HasStaging, Won, WonSteps, Requests, Cleaners
  <1>6. ASSUME NEW p \in Parts, BeginPart(p) PROVE BucketOK'
    BY <1>6 DEF BeginPart, Begin, TypeOK, StepsOK, StatusOK, WinnerOK, BucketOK, Attended,
       Handled, HasStaging, Won, WonSteps, Requests, Cleaners
  <1>7. ASSUME NEW p \in Parts, PutPart(p) PROVE BucketOK'
    BY <1>7 DEF PutPart, At, TypeOK, StepsOK, StatusOK, WinnerOK, BucketOK, Attended, Handled,
       HasStaging, Won, WonSteps, Requests, Cleaners
  <1>8. ASSUME NEW p \in Parts, MarkPart(p) PROVE BucketOK'
    BY <1>8 DEF MarkPart, At, SetTask, TypeOK, StepsOK, StatusOK, WinnerOK, BucketOK, Attended,
       Handled, HasStaging, Won, WonSteps, Requests, Cleaners
  <1>9. ASSUME NEW c \in Completes, BeginComplete(c) PROVE BucketOK'
    BY <1>9 DEF BeginComplete, Begin, TypeOK, StepsOK, StatusOK, WinnerOK, BucketOK, Attended,
       Handled, HasStaging, Won, WonSteps, Requests, Cleaners
  <1>10. ASSUME NEW c \in Completes, CompleteMultipart(c) PROVE BucketOK'
    BY <1>10 DEF CompleteMultipart, At, TypeOK, StepsOK, StatusOK, WinnerOK, BucketOK, Attended,
       Handled, HasStaging, Won, WonSteps, Requests, Cleaners
  <1>11. ASSUME NEW c \in Completes, CompleteFails(c) PROVE BucketOK'
    BY <1>11 DEF CompleteFails, At, TypeOK, StepsOK, StatusOK, WinnerOK, BucketOK, Attended,
       Handled, HasStaging, Won, WonSteps, Requests, Cleaners
  <1>12. ASSUME NEW c \in Completes, ReadStaging(c) PROVE BucketOK'
    BY <1>12 DEF ReadStaging, At, TypeOK, StepsOK, StatusOK, WinnerOK, BucketOK, Attended,
       Handled, HasStaging, Won, WonSteps, Requests, Cleaners
  <1>13. ASSUME NEW c \in Completes, InsertBook(c) PROVE BucketOK'
    BY <1>13 DEF InsertBook, At, TypeOK, StepsOK, StatusOK, WinnerOK, BucketOK, Attended,
       Handled, HasStaging, Won, WonSteps, Requests, Cleaners
  <1>14. ASSUME NEW c \in Completes, InsertFile(c) PROVE BucketOK'
    BY <1>14 DEF InsertFile, At, TypeOK, StepsOK, StatusOK, WinnerOK, BucketOK, Attended,
       Handled, HasStaging, Won, WonSteps, Requests, Cleaners
  <1>15. ASSUME NEW c \in Completes, InsertFails(c) PROVE BucketOK'
    BY <1>15 DEF InsertFails, At, TypeOK, StepsOK, StatusOK, WinnerOK, BucketOK, Attended,
       Handled, HasStaging, Won, WonSteps, Requests, Cleaners
  <1>16. ASSUME NEW c \in Completes, StoreFile(c) PROVE BucketOK'
    BY <1>16 DEF StoreFile, At, TypeOK, StepsOK, StatusOK, WinnerOK, BucketOK, Attended,
       Handled, HasStaging, Won, WonSteps, Requests, Cleaners
  <1>17. ASSUME NEW c \in Completes, DeleteStaging(c) PROVE BucketOK'
    BY <1>17 DEF DeleteStaging, At, TypeOK, StepsOK, StatusOK, WinnerOK, BucketOK, Attended,
       Handled, HasStaging, Won, WonSteps, Requests, Cleaners
  <1>18. ASSUME NEW c \in Completes, Finish(c) PROVE BucketOK'
    BY <1>18 DEF Finish, SetTask, TypeOK, StepsOK, StatusOK, WinnerOK, BucketOK, Attended,
       Handled, HasStaging, Won, WonSteps, Requests, Cleaners
  <1>19. ASSUME NEW c \in Completes, CompleteStepFails(c) PROVE BucketOK'
    BY <1>19 DEF CompleteStepFails, At, TypeOK, StepsOK, StatusOK, WinnerOK, BucketOK, Attended,
       Handled, HasStaging, Won, WonSteps, Requests, Cleaners
  <1>20. ASSUME NEW c \in Completes, UndoFile(c) PROVE BucketOK'
    BY <1>20 DEF UndoFile, At, TypeOK, StepsOK, StatusOK, WinnerOK, BucketOK, Attended, Handled,
       HasStaging, Won, WonSteps, Requests, Cleaners
  <1>21. ASSUME NEW c \in Completes, UndoBook(c) PROVE BucketOK'
    BY <1>21 DEF UndoBook, At, TypeOK, StepsOK, StatusOK, WinnerOK, BucketOK, Attended, Handled,
       HasStaging, Won, WonSteps, Requests, Cleaners
  <1>22. ASSUME NEW c \in Completes, UndoStaging(c) PROVE BucketOK'
    BY <1>22 DEF UndoStaging, At, TypeOK, StepsOK, StatusOK, WinnerOK, BucketOK, Attended,
       Handled, HasStaging, Won, WonSteps, Requests, Cleaners
  <1>23. ASSUME NEW a \in Aborts, BeginAbort(a) PROVE BucketOK'
    BY <1>23 DEF BeginAbort, Begin, TypeOK, StepsOK, StatusOK, WinnerOK, BucketOK, Attended,
       Handled, HasStaging, Won, WonSteps, Requests, Cleaners
  <1>24. ASSUME BeginSweep PROVE BucketOK'
    BY <1>24 DEF BeginSweep, Begin, TypeOK, StepsOK, StatusOK, WinnerOK, BucketOK, Attended,
       Handled, HasStaging, Won, WonSteps, Requests, Cleaners
  <1>25. ASSUME NEW r \in Requests, r \notin Parts, AbortMultipart(r) PROVE BucketOK'
    BY <1>25 DEF AbortMultipart, At, TypeOK, StepsOK, StatusOK, WinnerOK, BucketOK, Attended,
       Handled, HasStaging, Won, WonSteps, Requests, Cleaners
  <1>26. ASSUME NEW r \in Cleaners, CleanStaging(r) PROVE BucketOK'
    BY <1>26 DEF CleanStaging, At, TypeOK, StepsOK, StatusOK, WinnerOK, BucketOK, Attended,
       Handled, HasStaging, Won, WonSteps, Requests, Cleaners
  <1>27. ASSUME NEW r \in Requests, r \notin Parts, FailTask(r) PROVE BucketOK'
    BY <1>27 DEF FailTask, At, SetTask, TypeOK, StepsOK, StatusOK, WinnerOK, BucketOK, Attended,
       Handled, HasStaging, Won, WonSteps, Requests, Cleaners
  <1>28. ASSUME SweepDies PROVE BucketOK'
    BY <1>28 DEF SweepDies, At, Live, TypeOK, StepsOK, StatusOK, WinnerOK, BucketOK, Attended,
       Handled, HasStaging, Won, WonSteps, Requests, Cleaners
  <1>29. ASSUME NEW r \in Requests \ {Sweeper}, Die(r) PROVE BucketOK'
    BY <1>29 DEF Die, At, Live, Forgetting, TypeOK, StepsOK, StatusOK, WinnerOK, BucketOK,
       Attended, Handled, HasStaging, Won, WonSteps, Requests, Cleaners
  <1>30. ASSUME Age PROVE BucketOK'
    BY <1>30 DEF Age, Quiet, Creating, Unsettled, TypeOK, StepsOK, StatusOK, WinnerOK, BucketOK, Attended, Handled,
       HasStaging, Won, WonSteps, Requests, Cleaners
  <1>31. QED
    BY StepCases, <1>1, <1>2, <1>3, <1>4, <1>5, <1>6, <1>7, <1>8, <1>9, <1>10, <1>11, <1>12,
       <1>13, <1>14, <1>15, <1>16, <1>17, <1>18, <1>19, <1>20, <1>21, <1>22, <1>23, <1>24,
       <1>25, <1>26, <1>27, <1>28, <1>29, <1>30

(* Requests that do not overlap find a book only as a success. *)
LEMMA NextAlone ==
  ASSUME TypeOK, StepsOK, StatusOK, WinnerOK, MadeOK, WholeOK, BucketOK, AloneOK, Next
  PROVE  AloneOK'
  <1> USE UploadAssumption DEF taskVars, r2Vars, bookVars, histVars
  <1>1. ASSUME InsertTask PROVE AloneOK'
    BY <1>1 DEF InsertTask, Create, SetTask, TypeOK, StepsOK, StatusOK, WinnerOK, WholeOK,
       AloneOK, OwnSteps, Live, Creating, Quiet, Won, Requests, Cleaners
  <1>2. ASSUME OpenMultipart PROVE AloneOK'
    BY <1>2 DEF OpenMultipart, Create, TypeOK, StepsOK, StatusOK, WinnerOK, WholeOK, AloneOK,
       OwnSteps, Live, Creating, Quiet, Won, Requests, Cleaners
  <1>3. ASSUME OpenFails PROVE AloneOK'
    BY <1>3 DEF OpenFails, Create, SetTask, TypeOK, StepsOK, StatusOK, WinnerOK, WholeOK,
       AloneOK, OwnSteps, Live, Creating, Quiet, Won, Requests, Cleaners
  <1>4. ASSUME StoreKeys PROVE AloneOK'
    BY <1>4 DEF StoreKeys, Create, SetTask, TypeOK, StepsOK, StatusOK, WinnerOK, WholeOK,
       AloneOK, OwnSteps, Live, Creating, Quiet, Won, Requests, Cleaners
  <1>5. ASSUME CreateDies PROVE AloneOK'
    BY <1>5 DEF CreateDies, Create, Creating, TypeOK, StepsOK, StatusOK, WinnerOK, WholeOK,
       AloneOK, OwnSteps, Live, Creating, Quiet, Won, Requests, Cleaners
  <1>6. ASSUME NEW p \in Parts, BeginPart(p) PROVE AloneOK'
    BY <1>6 DEF BeginPart, Begin, TypeOK, StepsOK, StatusOK, WinnerOK, WholeOK, AloneOK,
       OwnSteps, Live, Creating, Quiet, Won, Requests, Cleaners
  <1>7. ASSUME NEW p \in Parts, PutPart(p) PROVE AloneOK'
    BY <1>7 DEF PutPart, At, TypeOK, StepsOK, StatusOK, WinnerOK, WholeOK, AloneOK, OwnSteps,
       Live, Creating, Quiet, Won, Requests, Cleaners
  <1>8. ASSUME NEW p \in Parts, MarkPart(p) PROVE AloneOK'
    BY <1>8 DEF MarkPart, At, SetTask, TypeOK, StepsOK, StatusOK, WinnerOK, WholeOK, AloneOK,
       OwnSteps, Live, Creating, Quiet, Won, Requests, Cleaners
  <1>9. ASSUME NEW c \in Completes, BeginComplete(c) PROVE AloneOK'
    BY <1>9 DEF BeginComplete, Begin, TypeOK, StepsOK, StatusOK, WinnerOK, WholeOK, AloneOK,
       OwnSteps, Live, Creating, Quiet, Won, Requests, Cleaners
  <1>10. ASSUME NEW c \in Completes, CompleteMultipart(c) PROVE AloneOK'
    BY <1>10 DEF CompleteMultipart, At, TypeOK, StepsOK, StatusOK, WinnerOK, WholeOK, AloneOK,
       OwnSteps, Live, Creating, Quiet, Won, Requests, Cleaners
  <1>11. ASSUME NEW c \in Completes, CompleteFails(c) PROVE AloneOK'
    BY <1>11 DEF CompleteFails, At, TypeOK, StepsOK, StatusOK, WinnerOK, WholeOK, AloneOK,
       OwnSteps, Live, Creating, Quiet, Won, Requests, Cleaners
  <1>12. ASSUME NEW c \in Completes, ReadStaging(c) PROVE AloneOK'
    BY <1>12 DEF ReadStaging, At, TypeOK, StepsOK, StatusOK, WinnerOK, WholeOK, AloneOK,
       OwnSteps, Live, Creating, Quiet, Won, Requests, Cleaners
  <1>13. ASSUME NEW c \in Completes, InsertBook(c) PROVE AloneOK'
    BY <1>13 DEF InsertBook, At, TypeOK, StepsOK, StatusOK, WinnerOK, WholeOK, AloneOK,
       OwnSteps, Live, Creating, Quiet, Won, Requests, Cleaners
  <1>14. ASSUME NEW c \in Completes, InsertFile(c) PROVE AloneOK'
    BY <1>14 DEF InsertFile, At, TypeOK, StepsOK, StatusOK, WinnerOK, WholeOK, AloneOK,
       OwnSteps, Live, Creating, Quiet, Won, Requests, Cleaners
  <1>15. ASSUME NEW c \in Completes, InsertFails(c) PROVE AloneOK'
    <2>1. /\ pc[c] \in {"insert", "insertFile"} /\ pc' = [pc EXCEPT ![c] = "undoStaging"]
          /\ UNCHANGED <<session, overlap, status, books>>
          /\ ~debris' => ~debris /\ c \notin books
      BY <1>15 DEF InsertFails, At
    <2>2. \A r \in Requests : Live(r)' <=> Live(r)
      BY <2>1 DEF TypeOK, Live
    <2>3. ASSUME ~overlap, books # {}, ~debris' PROVE FALSE
      <3>1. Live(c) /\ c \in Requests
        BY <2>1 DEF Live, Requests
      <3>2. PICK d \in Completes : pc[d] \in OwnSteps
        BY <2>1, <2>3, <3>1 DEF AloneOK
      <3>3. d = c
        BY <2>3, <3>1, <3>2 DEF AloneOK, OwnSteps, Live, Requests
      <3> QED
        BY <2>1, <2>3, <3>2, <3>3 DEF MadeOK, OwnSteps
    <2> QED
      BY <2>1, <2>2, <2>3 DEF AloneOK, Creating
  <1>16. ASSUME NEW c \in Completes, StoreFile(c) PROVE AloneOK'
    BY <1>16 DEF StoreFile, At, TypeOK, StepsOK, StatusOK, WinnerOK, WholeOK, AloneOK, OwnSteps,
       Live, Creating, Quiet, Won, Requests, Cleaners
  <1>17. ASSUME NEW c \in Completes, DeleteStaging(c) PROVE AloneOK'
    BY <1>17 DEF DeleteStaging, At, TypeOK, StepsOK, StatusOK, WinnerOK, WholeOK, AloneOK,
       OwnSteps, Live, Creating, Quiet, Won, Requests, Cleaners
  <1>18. ASSUME NEW c \in Completes, Finish(c) PROVE AloneOK'
    BY <1>18 DEF Finish, SetTask, TypeOK, StepsOK, StatusOK, WinnerOK, WholeOK, AloneOK,
       OwnSteps, Live, Creating, Quiet, Won, Requests, Cleaners
  <1>19. ASSUME NEW c \in Completes, CompleteStepFails(c) PROVE AloneOK'
    BY <1>19 DEF CompleteStepFails, At, TypeOK, StepsOK, StatusOK, WinnerOK, WholeOK, AloneOK,
       OwnSteps, Live, Creating, Quiet, Won, Requests, Cleaners
  <1>20. ASSUME NEW c \in Completes, UndoFile(c) PROVE AloneOK'
    BY <1>20 DEF UndoFile, At, TypeOK, StepsOK, StatusOK, WinnerOK, WholeOK, AloneOK, OwnSteps,
       Live, Creating, Quiet, Won, Requests, Cleaners
  <1>21. ASSUME NEW c \in Completes, UndoBook(c) PROVE AloneOK'
    <2>1. /\ pc[c] = "undoBook" /\ pc' = [pc EXCEPT ![c] = "undoStaging"]
          /\ UNCHANGED <<session, overlap, status>>
          /\ ~debris' => books' = books \ {c}
      BY <1>21 DEF UndoBook, At
    <2>2. \A r \in Requests : Live(r)' <=> Live(r)
      BY <2>1 DEF TypeOK, Live
    <2>3. books \subseteq {c}
      BY <2>1 DEF WinnerOK, Won, WonSteps, TypeOK
    <2> QED
      BY <2>1, <2>2, <2>3 DEF AloneOK, Creating
  <1>22. ASSUME NEW c \in Completes, UndoStaging(c) PROVE AloneOK'
    BY <1>22 DEF UndoStaging, At, TypeOK, StepsOK, StatusOK, WinnerOK, WholeOK, AloneOK,
       OwnSteps, Live, Creating, Quiet, Won, Requests, Cleaners
  <1>23. ASSUME NEW a \in Aborts, BeginAbort(a) PROVE AloneOK'
    BY <1>23 DEF BeginAbort, Begin, Settled, TypeOK, StepsOK, StatusOK, WinnerOK, WholeOK, AloneOK,
       OwnSteps, Live, Creating, Quiet, Won, Requests, Cleaners
  <1>24. ASSUME BeginSweep PROVE AloneOK'
    BY <1>24 DEF BeginSweep, Begin, Unsettled, TypeOK, StepsOK, StatusOK, WinnerOK, WholeOK, AloneOK,
       OwnSteps, Live, Creating, Quiet, Won, Requests, Cleaners
  <1>25. ASSUME NEW r \in Requests, r \notin Parts, AbortMultipart(r) PROVE AloneOK'
    BY <1>25 DEF AbortMultipart, At, TypeOK, StepsOK, StatusOK, WinnerOK, WholeOK, AloneOK,
       OwnSteps, Live, Creating, Quiet, Won, Requests, Cleaners
  <1>26. ASSUME NEW r \in Cleaners, CleanStaging(r) PROVE AloneOK'
    BY <1>26 DEF CleanStaging, At, TypeOK, StepsOK, StatusOK, WinnerOK, WholeOK, AloneOK,
       OwnSteps, Live, Creating, Quiet, Won, Requests, Cleaners
  <1>27. ASSUME NEW r \in Requests, r \notin Parts, FailTask(r) PROVE AloneOK'
    BY <1>27 DEF FailTask, At, SetTask, TypeOK, StepsOK, StatusOK, WinnerOK, WholeOK, AloneOK,
       OwnSteps, Live, Creating, Quiet, Won, Requests, Cleaners
  <1>28. ASSUME SweepDies PROVE AloneOK'
    BY <1>28 DEF SweepDies, At, Live, TypeOK, StepsOK, StatusOK, WinnerOK, WholeOK, AloneOK,
       OwnSteps, Live, Creating, Quiet, Won, Requests, Cleaners
  <1>29. ASSUME NEW r \in Requests \ {Sweeper}, Die(r) PROVE AloneOK'
    <2>1. /\ Live(r) /\ pc' = [pc EXCEPT ![r] = "end"]
          /\ UNCHANGED <<session, overlap, status, books>>
          /\ ~debris' => ~debris /\ r \notin books
      BY <1>29 DEF Die, At
    <2>2. \A q \in Requests : Live(q)' => Live(q)
      BY <2>1 DEF TypeOK, Live
    <2>3. ASSUME ~overlap, books # {}, ~debris' PROVE FALSE
      <3>1. PICK d \in Completes : pc[d] \in OwnSteps
        BY <1>29, <2>1, <2>3 DEF AloneOK
      <3>2. d = r
        BY <1>29, <2>1, <2>3, <3>1 DEF AloneOK, OwnSteps, Live, Requests
      <3>3. \A x \in books : x = d
        BY <3>1 DEF WinnerOK, Won, WonSteps, OwnSteps, MadeOK, TypeOK
      <3> QED
        BY <2>1, <2>3, <3>2, <3>3
    <2> QED
      BY <2>1, <2>2, <2>3 DEF AloneOK, Creating
  <1>30. ASSUME Age PROVE AloneOK'
    BY <1>30 DEF Age, TypeOK, StepsOK, StatusOK, WinnerOK, WholeOK, AloneOK, OwnSteps, Live,
       Creating, Quiet, Won, Requests, Cleaners
  <1>31. QED
    BY StepCases, <1>1, <1>2, <1>3, <1>4, <1>5, <1>6, <1>7, <1>8, <1>9, <1>10, <1>11, <1>12,
       <1>13, <1>14, <1>15, <1>16, <1>17, <1>18, <1>19, <1>20, <1>21, <1>22, <1>23, <1>24,
       <1>25, <1>26, <1>27, <1>28, <1>29, <1>30

LEMMA InvUnchanged ==
  ASSUME Inv, UNCHANGED vars
  PROVE  Inv'
  <1> USE DEF vars, taskVars, r2Vars, bookVars, histVars
  <1>1. TypeOK' /\ StepsOK' /\ StatusOK' /\ WinnerOK'
    BY DEF Inv, TypeOK, StepsOK, StatusOK, WinnerOK, Won
  <1>2. MadeOK' /\ SuccessOK' /\ WholeOK'
    BY DEF Inv, MadeOK, SuccessOK, WholeOK
  <1>3. BucketOK'
    BY DEF Inv, BucketOK, Attended, Handled, HasStaging
  <1>4. AloneOK'
    BY DEF Inv, AloneOK, Creating, Live
  <1> QED
    BY <1>1, <1>2, <1>3, <1>4 DEF Inv

LEMMA Invariance == SafeSpec => []Inv
  <1>1. Inv /\ [Next]_vars => Inv'
    <2>1. ASSUME Inv, Next PROVE Inv'
      BY <2>1, NextTypes, NextStatus, NextWinner, NextMade, NextSuccess, NextWhole, NextBucket,
         NextAlone DEF Inv
    <2>2. QED
      BY <2>1, InvUnchanged
  <1>2. QED
    BY InitInv, <1>1, PTL DEF SafeSpec

-----------------------------------------------------------------------------
(* Theorems. *)

(* Every variable of UploadSession keeps its type. *)
THEOREM TypeCorrect == SafeSpec => []TypeOK
  <1>1. Inv => TypeOK
    BY DEF Inv
  <1>2. QED
    BY Invariance, <1>1, PTL

(* However many completeBookUpload requests run, and however they interleave,
   one upload makes one book. *)
THEOREM UploadMakesOneBook == SafeSpec => []OneBookPerUpload
  <1>1. Inv => OneBookPerUpload
    BY DEF Inv, TypeOK, WinnerOK, Won, OneBookPerUpload
  <1>2. QED
    BY Invariance, <1>1, PTL

(* A task that is a success has the book of the complete request that made it
   so, listed and stored, whatever else fails, dies or rolls back: only that
   request, when the answer to its last UPDATE is lost, takes the book back. *)
THEOREM SuccessesHaveBooks == SafeSpec => []SuccessHasBook
  <1>1. Inv => SuccessHasBook
    BY DEF Inv, SuccessOK, SuccessHasBook
  <1>2. QED
    BY Invariance, <1>1, PTL

(* Once no request runs and nothing died half-way, every book has its row, its
   file and the file's object: performRollback takes all of what was made. *)
THEOREM NoBookIsHalfMade == SafeSpec => []BooksAreWhole
  <1>1. Inv => BooksAreWhole
    <2> SUFFICES ASSUME Inv, Quiet, ~debris PROVE books = listed /\ books = stored
      BY DEF BooksAreWhole
    <2>1. \A c \in Completes : ~Live(c)
      BY DEF Quiet, Requests
    <2> QED
      BY <2>1 DEF Inv, WholeOK, TypeOK, Live
  <1>2. QED
    BY Invariance, <1>1, PTL

(* A settled task that no request works on has left neither a staging object nor
   an open multipart upload behind, whoever settled it; and when it failed, no
   book, unless requests overlapped. *)
THEOREM SettlingCleansUp == SafeSpec => []SettledLeavesNothing
  <1>1. Inv => SettledLeavesNothing
    <2> SUFFICES ASSUME Inv, Quiet, status \in Settled, ~debris
                 PROVE  /\ ~staging /\ multipart # "open"
                        /\ status = "failed" /\ ~overlap => books = {}
      BY DEF SettledLeavesNothing
    <2>1. \A r \in Requests : ~Live(r)
      BY DEF Quiet
    <2>2. session \in {"ready", "dead"} /\ ~keys
      BY DEF Inv, TypeOK, StatusOK, BucketOK, Quiet, Creating, Settled
    <2>3. ~staging /\ multipart # "open"
      BY <2>1, <2>2 DEF Inv, BucketOK, Attended, Handled, HasStaging, Live, Requests
    <2>4. ASSUME status = "failed", ~overlap PROVE books = {}
      BY <2>1, <2>4 DEF Inv, AloneOK, OwnSteps, Live, Requests
    <2> QED
      BY <2>3, <2>4
  <1>2. QED
    BY Invariance, <1>1, PTL

(* The task's status moves as the abstract lifecycle of a job does. *)
LEMMA NextLifecycle ==
  ASSUME TypeOK, StepsOK, StatusOK, Next
  PROVE  [Lifecycle!Next]_status
  <1>1. ASSUME status' = "pending", status = "none" PROVE Lifecycle!Create("upload")
    BY <1>1 DEF Lifecycle!Create
  <1>2. ASSUME status' = "processing", status # "none" PROVE Lifecycle!Start("upload")
    BY <1>2 DEF Lifecycle!Start
  <1>3. ASSUME status' = "success", status \in {"processing", "failed", "success"}
        PROVE  Lifecycle!Complete("upload")
    BY <1>3 DEF Lifecycle!Complete
  <1>4. ASSUME status' = "failed", status # "none" PROVE Lifecycle!Fail({"upload"})
    BY <1>4 DEF Lifecycle!Fail
  <1>5. \/ status' = status
        \/ status = "none" /\ status' = "pending"
        \/ status # "none" /\ status' \in {"processing", "failed"}
        \/ status \in {"processing", "failed", "success"} /\ status' = "success"
    <2> USE DEF taskVars
    <2>1. CASE InsertTask
      BY <2>1 DEF InsertTask, Create, SetTask, StatusOK
    <2>2. CASE OpenFails
      BY <2>2 DEF OpenFails, Create, SetTask, StatusOK
    <2>3. CASE StoreKeys
      BY <2>3 DEF StoreKeys, Create, SetTask, StatusOK
    <2>4. ASSUME NEW p \in Parts, MarkPart(p) PROVE status # "none" /\ status' = "processing"
      BY <2>4, UploadAssumption DEF MarkPart, At, SetTask, TypeOK, StepsOK, StatusOK, Requests,
         Cleaners
    <2>5. ASSUME NEW c \in Completes, Finish(c)
          PROVE  status \in {"processing", "failed", "success"} /\ status' = "success"
      BY <2>5, UploadAssumption DEF Finish, SetTask, TypeOK, StepsOK, StatusOK, Requests, Cleaners,
         Unsettled, Settled
    <2>6. ASSUME NEW r \in Requests, FailTask(r) PROVE status # "none" /\ status' = "failed"
      BY <2>6, UploadAssumption DEF FailTask, At, SetTask, TypeOK, StepsOK, StatusOK, Requests,
         Cleaners
    <2>7. CASE OpenMultipart \/ CreateDies \/ BeginSweep \/ SweepDies \/ Age
      BY <2>7 DEF OpenMultipart, CreateDies, BeginSweep, SweepDies, Age, Create, Begin, At
    <2>8. ASSUME NEW r \in Requests,
                 \/ BeginPart(r) \/ PutPart(r) \/ BeginComplete(r) \/ CompleteMultipart(r)
                 \/ CompleteFails(r) \/ ReadStaging(r) \/ InsertBook(r) \/ InsertFile(r)
                 \/ InsertFails(r) \/ StoreFile(r) \/ DeleteStaging(r) \/ CompleteStepFails(r)
                 \/ UndoFile(r) \/ UndoStaging(r) \/ BeginAbort(r) \/ AbortMultipart(r)
                 \/ CleanStaging(r) \/ Die(r) \/ UndoBook(r)
          PROVE  status' = status
      BY <2>8 DEF BeginPart, PutPart, BeginComplete, CompleteMultipart, CompleteFails, ReadStaging,
         InsertBook, InsertFile, InsertFails, StoreFile, DeleteStaging, CompleteStepFails, UndoFile,
         UndoStaging, BeginAbort, AbortMultipart, CleanStaging, Die, UndoBook, At, Begin
    <2>9. QED
      BY StepCases, <2>1, <2>2, <2>3, <2>4, <2>5, <2>6, <2>7, <2>8 DEF Requests, Cleaners
  <1>6. QED
    BY <1>1, <1>2, <1>3, <1>4, <1>5 DEF Lifecycle!Next

(* An upload task implements the safety half of a job's lifecycle. *)
THEOREM ImplementsLifecycle == SafeSpec => LifecycleSafe
  <1> DEFINE s == [j \in {"upload"} |-> IF status = "success" THEN "done" ELSE status]
  <1>1. Init => Lifecycle!Init
    BY DEF Init, Lifecycle!Init
  <1>2. Inv /\ [Next]_vars => [Lifecycle!Next]_s
    <2>1. ASSUME Inv, Next PROVE [Lifecycle!Next]_s
      BY <2>1, NextLifecycle DEF Inv
    <2>2. ASSUME UNCHANGED vars PROVE [Lifecycle!Next]_s
      BY <2>2 DEF vars, taskVars
    <2>3. QED
      BY <2>1, <2>2
  <1>3. QED
    BY <1>1, <1>2, Invariance, PTL DEF SafeSpec, LifecycleSafe, Lifecycle!Safe
=============================================================================
