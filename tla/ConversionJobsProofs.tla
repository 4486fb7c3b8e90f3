------------------------ MODULE ConversionJobsProofs ------------------------
(***************************************************************************)
(* Proofs about ConversionJobs, for any number of jobs, keys, workers,      *)
(* deliveries and ticks.                                                    *)
(***************************************************************************)
EXTENDS ConversionJobs, TLAPS

(* A busy worker knows its job and its delivery, and only a job whose format
   was accepted gets past the check. *)
RunOK ==
  \A w \in Workers : pc[w] # "idle" =>
    /\ job[w] \in Jobs
    /\ attempt[w] \in 1 .. MaxDeliveries
    /\ pc[w] \in RunSteps => Target[job[w]] \in Keys

(* A key has its object, or lost it to the delete of another run than d. *)
Kept(k, d) == k \in objects \/ \E e \in wiped : Target[e[1]] = k /\ e # d

(* A row is inserted only when its object was uploaded by the same run, and a
   job is finished only when its row is there. *)
UploadedOK ==
  \A w \in Workers : pc[w] = "insert" => Kept(Target[job[w]], Run(w))

InsertedOK ==
  \A w \in Workers : pc[w] = "finish" =>
    \E r \in rows : r.id = Run(w) /\ r.r2Key = Target[job[w]]

(* No two workers run one delivery, and the next delivery of a job is new to
   the rows and to the deletes. *)
FreshOK ==
  /\ \A w \in Workers : pc[w] # "idle" => attempt[w] <= attempts[job[w]]
  /\ \A d \in deletes \cup wiped : d[2] <= attempts[d[1]]
  /\ \A r \in rows : r.id \in Runs => r.id[2] <= attempts[r.id[1]]
  /\ \A v, w \in Workers : v # w /\ pc[v] # "idle" /\ pc[w] # "idle" => Run(v) # Run(w)

(* A run lists its file or deletes it, never both. *)
Listers  == {"mark", "read", "upload", "insert", "finish"}
Unlisted == {"mark", "read", "upload", "wipe", "insert"}

EitherOK ==
  /\ \A r \in rows : r.id \notin deletes \cup wiped
  /\ \A w \in Workers : pc[w] \in Listers => Run(w) \notin deletes \cup wiped
  /\ \A w \in Workers : pc[w] \in Unlisted => \A r \in rows : r.id # Run(w)

(* Since it marked its job, a run has used at least the ticks the row aged. *)
AgeOK == \A w \in Workers : pc[w] \in MarkedSteps => age[job[w]] <= elapsed[w]

(* Whoever holds a job's id, the job was inserted before. *)
CreatedOK ==
  /\ \A j \in Jobs : j \in outbox \/ message[j] # "none" \/ j \in sweeping
                       => status[j] # "none"
  /\ \A w \in Workers : pc[w] # "idle" => status[job[w]] # "none"
  /\ \A w \in Workers : pc[w] \in MarkedSteps => status[job[w]] # "pending"

Inv ==
  /\ TypeOK
  /\ RunOK
  /\ UploadedOK
  /\ InsertedOK
  /\ FreshOK
  /\ EitherOK
  /\ DoneJobDelivers
  /\ ListedFileStored
  /\ OneRowPerKey
  /\ AgeOK
  /\ CreatedOK

-----------------------------------------------------------------------------
(* The steps of the specification, named once for the proofs below: a fact
   that each of them establishes holds after every step. *)

LEMMA StepCases ==
  ASSUME Next
  PROVE  \/ \E j \in Jobs : TriggerConversion(j) \/ Send(j) \/ MarkAsRead(j)
         \/ \E j \in KoboJobs : KoboScan(j) \/ KoboCheck(j) \/ KoboInsert(j)
         \/ \E w \in Workers, j \in Jobs : Deliver(w, j)
         \/ \E w \in Workers : \/ MarkProcessing(w) \/ ReadSource(w) \/ Upload(w)
                              \/ UploadMismatch(w) \/ DeleteAnswered(w) \/ InsertFile(w) \/ Finish(w)
                              \/ (pc[w] \in RunSteps /\ Stop(w))
                              \/ Settle(w) \/ Ack(w) \/ RetryOrCrash(w)
         \/ \E d \in deletes : DeleteLands(d) \/ DeleteFails(d)
         \/ Tick \/ SweepSelect \/ SweepUpdate \/ SweepInterrupted
  BY DEF Next, Request, KoboSync, RunStep, Sweep, RunFails, Timeout, Delete

(* The constants a type-correctness obligation needs. *)
LEMMA ConstantFacts ==
  /\ MaxDeliveries \in Nat \ {0} /\ RunTimeout \in Nat /\ StaleWindow \in Nat
  /\ MaxReads \in Nat /\ NoJob \notin Jobs /\ KoboJobs \subseteq Jobs
  /\ Uploaded \subseteq Keys /\ RunTimeout < StaleWindow
  /\ \A j \in Jobs : Target[j] \in Keys \cup {Unsupported}
  /\ Unsupported \notin Keys
  BY QueueAssumption, ConversionAssumption, WindowAssumption

(* Every variable keeps its type, and a busy worker its job. *)
LEMMA InitTypes == Init => TypeOK /\ RunOK
  <1>1. Uploaded \subseteq Keys /\ MaxReads \in Nat /\ MaxDeliveries \in Nat /\ RunTimeout \in Nat
        /\ StaleWindow \in Nat
    BY ConstantFacts
  <1>2. ASSUME NEW k \in Keys PROVE [r2Key |-> k, id |-> <<k, 0>>] \in BookFiles
    BY DEF BookFiles, FileIds
  <1>3. QED
    BY <1>1, <1>2 DEF Init, QueueInit, TypeOK, QueueTypeOK, RunOK, Statuses, RunSteps, MarkedSteps

LEMMA NextTypes ==
  ASSUME TypeOK, RunOK, Next
  PROVE  TypeOK' /\ RunOK'
  <1> USE ConstantFacts DEF TypeOK, QueueTypeOK, RunOK
  <1>1. ASSUME NEW j \in Jobs, TriggerConversion(j) PROVE TypeOK' /\ RunOK'
    BY <1>1 DEF TriggerConversion, InsertJob, Statuses, vars, jobVars, queueVars, storeVars, runVars
  <1>2. ASSUME NEW j \in Jobs, Send(j) PROVE TypeOK' /\ RunOK'
    BY <1>2 DEF Send, Enqueue, jobVars, queueVars, storeVars, runVars
  <1>3. ASSUME NEW j \in Jobs, MarkAsRead(j) PROVE TypeOK' /\ RunOK'
    BY <1>3 DEF MarkAsRead, jobVars, queueVars, storeVars, runVars
  <1>4. ASSUME NEW j \in KoboJobs, KoboScan(j) PROVE TypeOK' /\ RunOK'
    BY <1>4 DEF KoboScan, jobVars, queueVars, storeVars, runVars
  <1>5. ASSUME NEW j \in KoboJobs, KoboCheck(j) PROVE TypeOK' /\ RunOK'
    BY <1>5 DEF KoboCheck, jobVars, queueVars, storeVars, runVars
  <1>6. ASSUME NEW j \in KoboJobs, KoboInsert(j) PROVE TypeOK' /\ RunOK'
    BY <1>6 DEF KoboInsert, InsertJob, Statuses, jobVars, queueVars, storeVars, runVars
  <1>7. ASSUME NEW w \in Workers, NEW j \in Jobs, Deliver(w, j) PROVE TypeOK' /\ RunOK'
    BY <1>7 DEF Deliver, Hand, Deliverable, RunSteps, MarkedSteps, jobVars, queueVars, storeVars, runVars
  <1>8. ASSUME NEW w \in Workers, MarkProcessing(w) PROVE TypeOK' /\ RunOK'
    BY <1>8 DEF MarkProcessing, At, SetStatus, Statuses, RunSteps, MarkedSteps, jobVars, queueVars, storeVars, runVars
  <1>9. ASSUME NEW w \in Workers, ReadSource(w) PROVE TypeOK' /\ RunOK'
    BY <1>9 DEF ReadSource, At, RunSteps, MarkedSteps, jobVars, queueVars, storeVars, runVars
  <1>10. ASSUME NEW w \in Workers, Upload(w) PROVE TypeOK' /\ RunOK'
    BY <1>10 DEF Upload, Put, At, RunSteps, MarkedSteps, jobVars, queueVars, storeVars, runVars
  <1>11. ASSUME NEW w \in Workers, UploadMismatch(w) PROVE TypeOK' /\ RunOK'
    BY <1>11 DEF UploadMismatch, Put, Run, Runs, At, RunSteps, MarkedSteps, jobVars, queueVars, storeVars, runVars
  <1>12. ASSUME NEW d \in deletes, DeleteLands(d) PROVE TypeOK' /\ RunOK'
    BY <1>12 DEF DeleteLands, At, RunSteps, MarkedSteps, jobVars, queueVars, storeVars, runVars
  <1>13. ASSUME NEW d \in deletes, DeleteFails(d) PROVE TypeOK' /\ RunOK'
    BY <1>13 DEF DeleteFails, At, RunSteps, MarkedSteps, jobVars, queueVars, storeVars, runVars
  <1>14. ASSUME NEW w \in Workers, DeleteAnswered(w) PROVE TypeOK' /\ RunOK'
    BY <1>14 DEF DeleteAnswered, At, RunSteps, MarkedSteps, jobVars, queueVars, storeVars, runVars
  <1>15. ASSUME NEW w \in Workers, InsertFile(w) PROVE TypeOK' /\ RunOK'
    BY <1>15 DEF InsertFile, At, RunSteps, MarkedSteps, BookFiles, FileIds, Runs, Run, jobVars, queueVars, storeVars, runVars
  <1>16. ASSUME NEW w \in Workers, Finish(w) PROVE TypeOK' /\ RunOK'
    BY <1>16 DEF Finish, At, SetStatus, Statuses, FileIds, Runs, Run, RunSteps, MarkedSteps, jobVars, queueVars, storeVars, runVars
  <1>17. ASSUME NEW w \in Workers, pc[w] \in RunSteps, Stop(w) PROVE TypeOK' /\ RunOK'
    BY <1>17 DEF Stop, At, RunSteps, MarkedSteps, jobVars, queueVars, storeVars, runVars
  <1>18. ASSUME NEW w \in Workers, Settle(w) PROVE TypeOK' /\ RunOK'
    BY <1>18 DEF Settle, At, SetStatus, Statuses, RunSteps, MarkedSteps, jobVars, queueVars, storeVars, runVars
  <1>19. ASSUME NEW w \in Workers, Ack(w) PROVE TypeOK' /\ RunOK'
    BY <1>19 DEF Ack, Acknowledge, Release, RunSteps, MarkedSteps, jobVars, queueVars, storeVars, runVars
  <1>20. ASSUME NEW w \in Workers, RetryOrCrash(w) PROVE TypeOK' /\ RunOK'
    BY <1>20 DEF RetryOrCrash, Release, Return, RunSteps, MarkedSteps, jobVars, queueVars, storeVars, runVars
  <1>21. ASSUME Tick PROVE TypeOK' /\ RunOK'
    BY <1>21 DEF Tick, RunSteps, MarkedSteps, jobVars, queueVars, storeVars, runVars
  <1>22. ASSUME SweepSelect PROVE TypeOK' /\ RunOK'
    BY <1>22 DEF SweepSelect, Stale, jobVars, queueVars, storeVars, runVars
  <1>23. ASSUME SweepUpdate PROVE TypeOK' /\ RunOK'
    BY <1>23 DEF SweepUpdate, Statuses, jobVars, queueVars, storeVars, runVars
  <1>24. ASSUME SweepInterrupted PROVE TypeOK' /\ RunOK'
    BY <1>24 DEF SweepInterrupted, jobVars, queueVars, storeVars, runVars
  <1>25. QED
    BY StepCases, <1>1, <1>2, <1>3, <1>4, <1>5, <1>6, <1>7, <1>8, <1>9, <1>10, <1>11, <1>12, <1>13, <1>14, <1>15, <1>16, <1>17, <1>18, <1>19, <1>20, <1>21, <1>22, <1>23, <1>24

-----------------------------------------------------------------------------
(* Runs and what they own. *)

OwnersOK == FreshOK /\ EitherOK

LEMMA InitOwners == Init => OwnersOK
  <1>1. Init => \A r \in rows : r.id \notin Runs
    <2>1. \A k : <<k, 0>> \notin Runs
      BY ConstantFacts DEF Runs
    <2>2. QED
      BY <2>1 DEF Init
  <1>2. QED
    BY <1>1 DEF Init, OwnersOK, FreshOK, EitherOK, Listers, Unlisted

(* A step that hands out no message, lists no file and asks for no delete,
   and takes no run back to an earlier part, leaves the owners alone. *)
LEMMA OwnersFrame ==
  ASSUME OwnersOK, attempts' = attempts, rows' = rows,
         deletes' \cup wiped' \subseteq deletes \cup wiped,
         \A w \in Workers : pc'[w] # "idle" =>
            /\ pc[w] # "idle" /\ job'[w] = job[w] /\ attempt'[w] = attempt[w]
            /\ pc'[w] \in Listers => pc[w] \in Listers
            /\ pc'[w] \in Unlisted => pc[w] \in Unlisted
  PROVE  OwnersOK'
  <1> USE DEF OwnersOK, Run
  <1>1. FreshOK'
    BY DEF FreshOK
  <1>2. EitherOK'
    <2>1. \A w \in Workers : pc'[w] \in Listers => Run(w)' \notin deletes' \cup wiped'
      BY DEF EitherOK, Listers
    <2>2. \A w \in Workers : pc'[w] \in Unlisted => \A r \in rows' : r.id # Run(w)'
      BY DEF EitherOK, Unlisted
    <2>3. QED
      BY <2>1, <2>2 DEF EitherOK
  <1>3. QED
    BY <1>1, <1>2

LEMMA NextOwners ==
  ASSUME TypeOK, RunOK, OwnersOK, Next
  PROVE  OwnersOK'
  <1> USE DEF Listers, Unlisted, jobVars, queueVars, storeVars, runVars
  <1>1. ASSUME NEW j \in Jobs, TriggerConversion(j) PROVE OwnersOK'
    BY <1>1, OwnersFrame DEF TriggerConversion, InsertJob
  <1>2. ASSUME NEW j \in Jobs, Send(j) PROVE OwnersOK'
    BY <1>2, OwnersFrame DEF Send, Enqueue
  <1>3. ASSUME NEW j \in Jobs, MarkAsRead(j) PROVE OwnersOK'
    BY <1>3, OwnersFrame DEF MarkAsRead
  <1>4. ASSUME NEW j \in KoboJobs, KoboScan(j) PROVE OwnersOK'
    BY <1>4, OwnersFrame DEF KoboScan
  <1>5. ASSUME NEW j \in KoboJobs, KoboCheck(j) PROVE OwnersOK'
    BY <1>5, OwnersFrame DEF KoboCheck
  <1>6. ASSUME NEW j \in KoboJobs, KoboInsert(j) PROVE OwnersOK'
    BY <1>6, OwnersFrame DEF KoboInsert, InsertJob
  <1>7. ASSUME NEW w \in Workers, NEW j \in Jobs, Deliver(w, j) PROVE OwnersOK'
    <2>1. /\ pc[w] = "idle"
          /\ job' = [job EXCEPT ![w] = j]
          /\ attempt' = [attempt EXCEPT ![w] = attempts[j] + 1]
          /\ attempts' = [attempts EXCEPT ![j] = attempts[j] + 1]
          /\ pc' = [pc EXCEPT ![w] = pc'[w]] /\ pc'[w] \in {"settle", "mark"}
          /\ UNCHANGED <<rows, deletes, wiped>>
          /\ j \in Jobs /\ attempts[j] + 1 \in 1 .. MaxDeliveries
      BY <1>7, ConstantFacts DEF Deliver, Hand, Deliverable, TypeOK, QueueTypeOK
    <2> DEFINE new == <<j, attempts[j] + 1>>
    <2>2. /\ new \in Runs
          /\ \A d \in deletes \cup wiped : d # new
          /\ \A r \in rows : r.id # new
      BY <2>1, ConstantFacts DEF OwnersOK, FreshOK, Runs, TypeOK, QueueTypeOK
    <2>3. \A v \in Workers : v # w =>
             pc'[v] = pc[v] /\ job'[v] = job[v] /\ attempt'[v] = attempt[v] /\ Run(v)' = Run(v)
      BY <2>1 DEF TypeOK, Run
    <2>4. job'[w] = j /\ attempt'[w] = attempts[j] + 1 /\ Run(w)' = new
      BY <2>1 DEF TypeOK, Run
    <2>5. \A i \in Jobs : attempts[i] \in Nat /\ attempts'[i] \in Nat /\ attempts[i] <= attempts'[i]
      BY <2>1, ConstantFacts DEF TypeOK, QueueTypeOK
    <2>6. FreshOK'
      <3>1. \A v \in Workers : pc'[v] # "idle" => attempt'[v] <= attempts'[job'[v]]
        <4>1. ASSUME NEW v \in Workers, pc'[v] # "idle", v # w PROVE attempt'[v] <= attempts'[job'[v]]
          <5>1. attempt[v] <= attempts[job[v]] /\ job[v] \in Jobs /\ attempt[v] \in 1 .. MaxDeliveries
            BY <4>1, <2>3 DEF OwnersOK, FreshOK, RunOK
          <5>2. QED
            BY <5>1, <4>1, <2>3, <2>5
        <4>2. attempt'[w] <= attempts'[job'[w]]
          BY <2>1, <2>4 DEF TypeOK, QueueTypeOK
        <4>3. QED
          BY <4>1, <4>2
      <3>2. \A d \in deletes' \cup wiped' : d[2] <= attempts'[d[1]]
        BY <2>1, <2>5, ConstantFacts DEF OwnersOK, FreshOK, Runs, TypeOK
      <3>3. \A r \in rows' : r.id \in Runs => r.id[2] <= attempts'[r.id[1]]
        <4>1. ASSUME NEW r \in rows, r.id \in Runs PROVE r.id[2] <= attempts'[r.id[1]]
          <5>1. r.id[1] \in Jobs /\ r.id[2] \in 1 .. MaxDeliveries
            BY <4>1 DEF Runs
          <5>2. r.id[2] <= attempts[r.id[1]]
            BY <4>1 DEF OwnersOK, FreshOK
          <5>3. QED
            BY <5>1, <5>2, <2>5, ConstantFacts
        <4>2. QED
          BY <4>1, <2>1
      <3>4. ASSUME NEW u \in Workers, NEW v \in Workers, u # v, pc'[u] # "idle", pc'[v] # "idle"
            PROVE  Run(u)' # Run(v)'
        <4>1. ASSUME NEW x \in Workers, x # w, pc'[x] # "idle" PROVE Run(x)' # new
          <5>1. attempt[x] <= attempts[job[x]] /\ attempt[x] \in 1 .. MaxDeliveries
            BY <4>1, <2>3 DEF OwnersOK, FreshOK, RunOK
          <5>2. attempts[j] \in Nat
            BY <2>5
          <5>3. QED
            BY <5>1, <5>2, <4>1, <2>3 DEF Run
        <4>2. CASE u = w
          BY <4>1, <4>2, <3>4, <2>4
        <4>3. CASE v = w
          BY <4>1, <4>3, <3>4, <2>4
        <4>4. CASE u # w /\ v # w
          BY <4>4, <3>4, <2>3 DEF OwnersOK, FreshOK
        <4>5. QED
          BY <4>2, <4>3, <4>4
      <3>5. QED
        BY <3>1, <3>2, <3>3, <3>4 DEF FreshOK
    <2>7. EitherOK'
      <3>1. \A v \in Workers : pc'[v] \in Listers => Run(v)' \notin deletes' \cup wiped'
        BY <2>1, <2>2, <2>3, <2>4 DEF OwnersOK, EitherOK
      <3>2. \A v \in Workers : pc'[v] \in Unlisted => \A r \in rows' : r.id # Run(v)'
        BY <2>1, <2>2, <2>3, <2>4 DEF OwnersOK, EitherOK
      <3>3. QED
        BY <3>1, <3>2, <2>1 DEF OwnersOK, EitherOK
    <2>8. QED
      BY <2>6, <2>7 DEF OwnersOK
  <1>8. ASSUME NEW w \in Workers, MarkProcessing(w) PROVE OwnersOK'
    BY <1>8, OwnersFrame DEF MarkProcessing, At, TypeOK
  <1>9. ASSUME NEW w \in Workers, ReadSource(w) PROVE OwnersOK'
    BY <1>9, OwnersFrame DEF ReadSource, At, TypeOK
  <1>10. ASSUME NEW w \in Workers, Upload(w) PROVE OwnersOK'
    BY <1>10, OwnersFrame DEF Upload, Put, At, TypeOK
  <1>11. ASSUME NEW w \in Workers, UploadMismatch(w) PROVE OwnersOK'
    <2>1. /\ pc[w] = "upload" /\ pc' = [pc EXCEPT ![w] = "wipe"]
          /\ UNCHANGED <<rows, job, attempt, attempts>>
          /\ deletes' = deletes \cup {Run(w)} /\ wiped' \subseteq wiped
      BY <1>11 DEF UploadMismatch, Put, At
    <2>2. /\ \A v \in Workers : v # w => pc'[v] = pc[v]
          /\ pc'[w] = "wipe"
          /\ \A v \in Workers : Run(v)' = Run(v)
      BY <2>1 DEF TypeOK, Run
    <2>3. Run(w)[2] <= attempts[Run(w)[1]]
      BY <2>1 DEF OwnersOK, FreshOK, Run
    <2>4. FreshOK'
      <3>1. \A u, v \in Workers : u # v /\ pc'[u] # "idle" /\ pc'[v] # "idle" => Run(u)' # Run(v)'
        BY <2>1, <2>2 DEF OwnersOK, FreshOK
      <3>2. \A d \in deletes' \cup wiped' : d[2] <= attempts'[d[1]]
        BY <2>1, <2>3 DEF OwnersOK, FreshOK
      <3>3. \A v \in Workers : pc'[v] # "idle" => attempt'[v] <= attempts'[job'[v]]
        BY <2>1, <2>2 DEF OwnersOK, FreshOK
      <3>4. \A r \in rows' : r.id \in Runs => r.id[2] <= attempts'[r.id[1]]
        BY <2>1 DEF OwnersOK, FreshOK
      <3>5. QED
        BY <3>1, <3>2, <3>3, <3>4 DEF FreshOK
    <2>5. EitherOK'
      <3>1. ASSUME NEW v \in Workers, pc'[v] \in Listers PROVE Run(v)' \notin deletes' \cup wiped'
        BY <3>1, <2>1, <2>2 DEF OwnersOK, FreshOK, EitherOK
      <3>2. \A v \in Workers : pc'[v] \in Unlisted => \A r \in rows' : r.id # Run(v)'
        BY <2>1, <2>2 DEF OwnersOK, EitherOK
      <3>3. \A r \in rows' : r.id \notin deletes' \cup wiped'
        BY <2>1 DEF OwnersOK, EitherOK
      <3>4. QED
        BY <3>1, <3>2, <3>3 DEF EitherOK
    <2>6. QED
      BY <2>4, <2>5 DEF OwnersOK
  <1>12. ASSUME NEW d \in deletes, DeleteLands(d) PROVE OwnersOK'
    BY <1>12, OwnersFrame DEF DeleteLands
  <1>13. ASSUME NEW d \in deletes, DeleteFails(d) PROVE OwnersOK'
    BY <1>13, OwnersFrame DEF DeleteFails
  <1>14. ASSUME NEW w \in Workers, DeleteAnswered(w) PROVE OwnersOK'
    BY <1>14, OwnersFrame DEF DeleteAnswered, At, TypeOK
  <1>15. ASSUME NEW w \in Workers, InsertFile(w) PROVE OwnersOK'
    <2> DEFINE k == Target[job[w]]
               new == [r2Key |-> k, id |-> Run(w)]
    <2>1. CASE Listed(k)
      BY <1>15, <2>1, OwnersFrame DEF InsertFile, At, TypeOK
    <2>2. CASE ~Listed(k)
      <3>1. /\ pc[w] = "insert" /\ pc' = [pc EXCEPT ![w] = "finish"]
            /\ UNCHANGED <<deletes, wiped, job, attempt, attempts>>
            /\ rows' = rows \cup {new}
        BY <1>15, <2>2 DEF InsertFile, At
      <3>2. /\ \A v \in Workers : v # w => pc'[v] = pc[v]
            /\ pc'[w] = "finish"
            /\ \A v \in Workers : Run(v)' = Run(v)
        BY <3>1 DEF TypeOK, Run
      <3>3. /\ Run(w)[2] <= attempts[Run(w)[1]]
            /\ Run(w) \notin deletes \cup wiped
        BY <3>1 DEF OwnersOK, FreshOK, EitherOK, Run
      <3>4. FreshOK'
        <4>1. \A u, v \in Workers : u # v /\ pc'[u] # "idle" /\ pc'[v] # "idle" => Run(u)' # Run(v)'
          BY <3>1, <3>2 DEF OwnersOK, FreshOK
        <4>2. \A r \in rows' : r.id \in Runs => r.id[2] <= attempts'[r.id[1]]
          BY <3>1, <3>3 DEF OwnersOK, FreshOK
        <4>3. \A v \in Workers : pc'[v] # "idle" => attempt'[v] <= attempts'[job'[v]]
          BY <3>1, <3>2 DEF OwnersOK, FreshOK
        <4>4. \A d \in deletes' \cup wiped' : d[2] <= attempts'[d[1]]
          BY <3>1 DEF OwnersOK, FreshOK
        <4>5. QED
          BY <4>1, <4>2, <4>3, <4>4 DEF FreshOK
      <3>5. EitherOK'
        <4>1. \A v \in Workers : pc'[v] \in Listers => Run(v)' \notin deletes' \cup wiped'
          BY <3>1, <3>2, <3>3 DEF OwnersOK, EitherOK
        <4>2. ASSUME NEW v \in Workers, pc'[v] \in Unlisted, NEW r \in rows' PROVE r.id # Run(v)'
          <5>1. v # w /\ pc[v] \in Unlisted /\ pc[v] # "idle"
            BY <4>2, <3>2
          <5>2. Run(v) # Run(w)
            BY <5>1, <3>1 DEF OwnersOK, FreshOK
          <5>3. QED
            BY <5>1, <5>2, <4>2, <3>1, <3>2 DEF OwnersOK, EitherOK
        <4>3. \A r \in rows' : r.id \notin deletes' \cup wiped'
          BY <3>1, <3>3 DEF OwnersOK, EitherOK
        <4>4. QED
          BY <4>1, <4>2, <4>3 DEF EitherOK
      <3>6. QED
        BY <3>4, <3>5 DEF OwnersOK
    <2>3. QED
      BY <2>1, <2>2
  <1>16. ASSUME NEW w \in Workers, Finish(w) PROVE OwnersOK'
    BY <1>16, OwnersFrame DEF Finish, At, TypeOK
  <1>17. ASSUME NEW w \in Workers, pc[w] \in RunSteps, Stop(w) PROVE OwnersOK'
    BY <1>17, OwnersFrame DEF Stop, At, TypeOK, RunSteps, MarkedSteps
  <1>18. ASSUME NEW w \in Workers, Settle(w) PROVE OwnersOK'
    BY <1>18, OwnersFrame DEF Settle, At, TypeOK
  <1>19. ASSUME NEW w \in Workers, Ack(w) PROVE OwnersOK'
    BY <1>19, OwnersFrame DEF Ack, Acknowledge, Release, TypeOK
  <1>20. ASSUME NEW w \in Workers, RetryOrCrash(w) PROVE OwnersOK'
    BY <1>20, OwnersFrame DEF RetryOrCrash, Return, Release, TypeOK
  <1>21. ASSUME Tick PROVE OwnersOK'
    BY <1>21, OwnersFrame DEF Tick
  <1>22. ASSUME SweepSelect PROVE OwnersOK'
    BY <1>22, OwnersFrame DEF SweepSelect
  <1>23. ASSUME SweepUpdate PROVE OwnersOK'
    BY <1>23, OwnersFrame DEF SweepUpdate
  <1>24. ASSUME SweepInterrupted PROVE OwnersOK'
    BY <1>24, OwnersFrame DEF SweepInterrupted
  <1>25. QED
    BY StepCases, <1>1, <1>2, <1>3, <1>4, <1>5, <1>6, <1>7, <1>8, <1>9, <1>10, <1>11, <1>12, <1>13, <1>14, <1>15, <1>16, <1>17, <1>18, <1>19, <1>20, <1>21, <1>22, <1>23, <1>24

-----------------------------------------------------------------------------
(* Files.  Only the steps that touch the bucket, book_files or a job's
   result matter; every other step leaves rows, objects, wiped and result
   alone and moves no worker to "insert" or "finish". *)

FilesOK ==
  /\ UploadedOK
  /\ InsertedOK
  /\ DoneJobDelivers
  /\ ListedFileStored
  /\ OneRowPerKey

LEMMA InitFiles == Init => FilesOK
  BY DEF Init, FilesOK, UploadedOK, InsertedOK, DoneJobDelivers, ListedFileStored,
         OneRowPerKey

(* A step that leaves the bucket and book_files alone, starts no insert and
   finishes no job keeps the invariant. *)
LEMMA FilesFrame ==
  ASSUME TypeOK, RunOK, FilesOK,
         UNCHANGED <<rows, objects, wiped>>,
         \A w \in Workers : pc'[w] \in {"insert", "finish"} =>
            pc'[w] = pc[w] /\ job'[w] = job[w] /\ attempt'[w] = attempt[w],
         \A j \in Jobs : status'[j] = "done" =>
            status[j] = "done" /\ result'[j] = result[j]
  PROVE  FilesOK'
  <1> USE DEF FilesOK
  <1>1. UploadedOK'
    BY DEF UploadedOK, Run, Kept
  <1>2. InsertedOK'
    BY DEF InsertedOK, Run
  <1>3. DoneJobDelivers'
    BY DEF DoneJobDelivers
  <1>4. ListedFileStored' /\ OneRowPerKey'
    BY DEF ListedFileStored, OneRowPerKey
  <1>5. QED
    BY <1>1, <1>2, <1>3, <1>4

(* A put takes no object from anyone. *)
LEMMA PutKeeps ==
  ASSUME NEW k, Put(k), NEW l, NEW d, Kept(l, d)
  PROVE  Kept(l, d)'
  BY DEF Put, Kept

(* A put that is not followed by a row leaves the files as they were. *)
LEMMA PutFrame ==
  ASSUME FilesOK, UploadedOK', NEW k, Put(k),
         UNCHANGED <<rows, status, result, job, attempt>>,
         \A v \in Workers : pc'[v] = "finish" => pc[v] = "finish"
  PROVE  FilesOK'
  <1>1. ListedFileStored'
    <2>1. \A r \in rows : Kept(r.r2Key, r.id)
      BY DEF FilesOK, ListedFileStored, Kept
    <2>2. \A r \in rows : Kept(r.r2Key, r.id)'
      BY <2>1, PutKeeps
    <2>3. QED
      BY <2>2 DEF ListedFileStored, Kept
  <1>2. InsertedOK' /\ DoneJobDelivers' /\ OneRowPerKey'
    BY DEF FilesOK, InsertedOK, DoneJobDelivers, OneRowPerKey, Run
  <1>3. QED
    BY <1>1, <1>2 DEF FilesOK

LEMMA NextFiles ==
  ASSUME TypeOK, RunOK, OwnersOK, FilesOK, Next
  PROVE  FilesOK'
  <1>1. ASSUME NEW j \in Jobs, TriggerConversion(j) PROVE FilesOK'
    BY <1>1, FilesFrame, ConstantFacts DEF TypeOK, TriggerConversion, InsertJob, jobVars, queueVars, storeVars, runVars
  <1>2. ASSUME NEW j \in Jobs, Send(j) PROVE FilesOK'
    BY <1>2, FilesFrame, ConstantFacts DEF TypeOK, Send, Enqueue, jobVars, queueVars, storeVars, runVars
  <1>3. ASSUME NEW j \in Jobs, MarkAsRead(j) PROVE FilesOK'
    BY <1>3, FilesFrame, ConstantFacts DEF TypeOK, MarkAsRead, jobVars, queueVars, storeVars, runVars
  <1>4. ASSUME NEW j \in KoboJobs, KoboScan(j) PROVE FilesOK'
    BY <1>4, FilesFrame, ConstantFacts DEF TypeOK, KoboScan, jobVars, queueVars, storeVars, runVars
  <1>5. ASSUME NEW j \in KoboJobs, KoboCheck(j) PROVE FilesOK'
    BY <1>5, FilesFrame, ConstantFacts DEF TypeOK, KoboCheck, jobVars, queueVars, storeVars, runVars
  <1>6. ASSUME NEW j \in KoboJobs, KoboInsert(j) PROVE FilesOK'
    BY <1>6, FilesFrame, ConstantFacts DEF TypeOK, KoboInsert, InsertJob, jobVars, queueVars, storeVars, runVars
  <1>7. ASSUME NEW w \in Workers, NEW j \in Jobs, Deliver(w, j) PROVE FilesOK'
    BY <1>7, FilesFrame, ConstantFacts DEF TypeOK, Deliver, Hand, jobVars, queueVars, storeVars, runVars
  <1>8. ASSUME NEW w \in Workers, MarkProcessing(w) PROVE FilesOK'
    BY <1>8, FilesFrame, ConstantFacts DEF TypeOK, MarkProcessing, At, SetStatus, jobVars, queueVars, storeVars, runVars
  <1>9. ASSUME NEW w \in Workers, ReadSource(w) PROVE FilesOK'
    BY <1>9, FilesFrame, ConstantFacts DEF TypeOK, ReadSource, At, jobVars, queueVars, storeVars, runVars
  <1>10. ASSUME NEW w \in Workers, Upload(w) PROVE FilesOK'
    <2>1. /\ Put(Target[job[w]])
          /\ UNCHANGED <<rows, status, result, job, attempt>>
          /\ \A v \in Workers : pc'[v] = "finish" => pc[v] = "finish"
          /\ \A v \in Workers : pc'[v] = "insert" => v = w \/ pc[v] = "insert"
      BY <1>10 DEF Upload, At, jobVars, TypeOK
    <2>2. Target[job[w]] \in objects'
      BY <2>1 DEF Put
    <2>3. UploadedOK'
      <3>1. ASSUME NEW v \in Workers, v # w, pc'[v] = "insert"
            PROVE  Kept(Target[job[v]], Run(v))'
        BY <2>1, <3>1 DEF Put, FilesOK, UploadedOK, Run, Kept
      <3>2. Kept(Target[job[w]], Run(w))'
        BY <2>1, <2>2 DEF Kept
      <3>3. QED
        BY <3>1, <3>2 DEF UploadedOK
    <2>4. QED
      BY <2>1, <2>3, PutFrame
  <1>11. ASSUME NEW w \in Workers, UploadMismatch(w) PROVE FilesOK'
    <2>1. Put(Target[job[w]]) /\ UNCHANGED <<rows, status, result, job, attempt>>
          /\ \A v \in Workers : pc'[v] \in {"insert", "finish"} => pc'[v] = pc[v]
      BY <1>11 DEF UploadMismatch, At, jobVars, TypeOK
    <2>2. UploadedOK'
      BY <2>1 DEF Put, FilesOK, UploadedOK, Run, Kept
    <2>3. QED
      BY <2>1, <2>2, PutFrame
  <1>12. ASSUME NEW d \in deletes, DeleteLands(d) PROVE FilesOK'
    <2>1. UNCHANGED <<rows, status, result, pc, job, attempt>>
      BY <1>12 DEF DeleteLands, jobVars, runVars
    <2>2. /\ objects' = objects \ {Target[d[1]]}
          /\ wiped' = wiped \cup {e \in {d} : Target[e[1]] \in objects}
      BY <1>12 DEF DeleteLands
    <2>3. UploadedOK'
      <3>1. ASSUME NEW w \in Workers, pc[w] = "insert" PROVE Run(w) # d
        BY <3>1 DEF OwnersOK, EitherOK, Listers
      <3>2. QED
        BY <2>1, <2>2, <3>1 DEF FilesOK, UploadedOK, Run, Kept
    <2>4. ListedFileStored'
      <3>1. ASSUME NEW r \in rows PROVE Kept(r.r2Key, r.id) /\ r.id # d
        BY <3>1 DEF FilesOK, ListedFileStored, Kept, OwnersOK, EitherOK
      <3>2. QED
        BY <2>1, <2>2, <3>1 DEF ListedFileStored, Kept
    <2>5. InsertedOK' /\ DoneJobDelivers' /\ OneRowPerKey'
      BY <2>1 DEF FilesOK, InsertedOK, DoneJobDelivers, OneRowPerKey, Run
    <2>6. QED
      BY <2>3, <2>4, <2>5 DEF FilesOK
  <1>13. ASSUME NEW d \in deletes, DeleteFails(d) PROVE FilesOK'
    BY <1>13, FilesFrame DEF DeleteFails, jobVars, runVars
  <1>14. ASSUME NEW w \in Workers, DeleteAnswered(w) PROVE FilesOK'
    BY <1>14, FilesFrame DEF TypeOK, DeleteAnswered, At, jobVars, storeVars
  <1>15. ASSUME NEW w \in Workers, InsertFile(w) PROVE FilesOK'
    <2> DEFINE k == Target[job[w]]
               new == [r2Key |-> k, id |-> Run(w)]
    <2>1. CASE Listed(k)
      BY <1>15, <2>1, FilesFrame DEF InsertFile, At, jobVars, storeVars, TypeOK
    <2>2. CASE ~Listed(k)
      <3>1. rows' = rows \cup {new} /\ UNCHANGED <<objects, wiped, status, result, job, attempt>>
            /\ pc' = [pc EXCEPT ![w] = "finish"] /\ pc[w] = "insert"
        BY <1>15, <2>2 DEF InsertFile, At, jobVars
      <3>2. Kept(k, Run(w))
        BY <3>1 DEF FilesOK, UploadedOK
      <3>3. UploadedOK' /\ ListedFileStored'
        <4>1. UploadedOK'
          BY <3>1 DEF FilesOK, UploadedOK, TypeOK, Run, Kept
        <4>2. ASSUME NEW r \in rows' PROVE Kept(r.r2Key, r.id)'
          <5>1. Kept(r.r2Key, r.id)
            <6>1. CASE r = new
              BY <3>2, <6>1
            <6>2. CASE r \in rows
              BY <6>2 DEF FilesOK, ListedFileStored, Kept
            <6>3. QED
              BY <3>1, <4>2, <6>1, <6>2
          <5>2. QED
            BY <3>1, <5>1 DEF Kept
        <4>3. QED
          BY <4>1, <4>2 DEF ListedFileStored, Kept
      <3>4. InsertedOK' /\ DoneJobDelivers'
        <4>1. DoneJobDelivers'
          BY <3>1 DEF FilesOK, DoneJobDelivers
        <4>2. ASSUME NEW v \in Workers, pc'[v] = "finish"
              PROVE  \E r \in rows' : r.id = Run(v)' /\ r.r2Key = Target[job'[v]]
          <5>1. CASE v = w
            <6>1. new \in rows' /\ new.id = Run(v)' /\ new.r2Key = Target[job'[v]]
              BY <3>1, <5>1 DEF Run
            <6>2. QED
              BY <6>1
          <5>2. CASE v # w
            BY <3>1, <4>2, <5>2 DEF FilesOK, InsertedOK, TypeOK, Run
          <5>3. QED
            BY <5>1, <5>2
        <4>3. QED
          BY <4>1, <4>2 DEF InsertedOK
      <3>5. OneRowPerKey'
        BY <3>1, <2>2 DEF FilesOK, OneRowPerKey, Listed
      <3>6. QED
        BY <3>3, <3>4, <3>5 DEF FilesOK
    <2>3. QED
      BY <2>1, <2>2
  <1>16. ASSUME NEW w \in Workers, Finish(w) PROVE FilesOK'
    <2>1. /\ UNCHANGED <<rows, objects, wiped, job, attempt>>
          /\ pc[w] = "finish"
          /\ \A v \in Workers : pc'[v] \in {"insert", "finish"} => pc'[v] = pc[v]
          /\ status' = [status EXCEPT ![job[w]] = "done"]
          /\ result' = [result EXCEPT ![job[w]] = Run(w)]
      BY <1>16 DEF Finish, At, SetStatus, storeVars, TypeOK
    <2>2. UploadedOK' /\ InsertedOK' /\ ListedFileStored' /\ OneRowPerKey'
      BY <2>1 DEF FilesOK, UploadedOK, InsertedOK, ListedFileStored, OneRowPerKey, Run, Kept
    <2>3. ASSUME NEW j \in Jobs, status'[j] = "done"
          PROVE  \E r \in rows' : r.id = result'[j] /\ r.r2Key = Target[j]
      <3>1. CASE j = job[w]
        <4>1. result'[j] = Run(w)
          BY <2>1, <3>1 DEF TypeOK
        <4>2. QED
          BY <2>1, <3>1, <4>1 DEF FilesOK, InsertedOK
      <3>2. CASE j # job[w]
        BY <2>1, <2>3, <3>2 DEF FilesOK, DoneJobDelivers, TypeOK
      <3>3. QED
        BY <3>1, <3>2
    <2>4. QED
      BY <2>2, <2>3 DEF FilesOK, DoneJobDelivers
  <1>17. ASSUME NEW w \in Workers, pc[w] \in RunSteps, Stop(w) PROVE FilesOK'
    BY <1>17, FilesFrame, ConstantFacts DEF TypeOK, Stop, At, jobVars, queueVars, storeVars, runVars
  <1>18. ASSUME NEW w \in Workers, Settle(w) PROVE FilesOK'
    BY <1>18, FilesFrame, ConstantFacts DEF TypeOK, Settle, At, SetStatus, jobVars, queueVars, storeVars, runVars
  <1>19. ASSUME NEW w \in Workers, Ack(w) PROVE FilesOK'
    BY <1>19, FilesFrame, ConstantFacts DEF TypeOK, Ack, Acknowledge, Release, jobVars, queueVars, storeVars, runVars
  <1>20. ASSUME NEW w \in Workers, RetryOrCrash(w) PROVE FilesOK'
    BY <1>20, FilesFrame, ConstantFacts DEF TypeOK, RetryOrCrash, Return, Release, jobVars, queueVars, storeVars, runVars
  <1>21. ASSUME Tick PROVE FilesOK'
    BY <1>21, FilesFrame, ConstantFacts DEF TypeOK, Tick, jobVars, queueVars, storeVars, runVars
  <1>22. ASSUME SweepSelect PROVE FilesOK'
    BY <1>22, FilesFrame, ConstantFacts DEF TypeOK, SweepSelect, jobVars, queueVars, storeVars, runVars
  <1>23. ASSUME SweepUpdate PROVE FilesOK'
    BY <1>23, FilesFrame, ConstantFacts DEF TypeOK, SweepUpdate, jobVars, queueVars, storeVars, runVars
  <1>24. ASSUME SweepInterrupted PROVE FilesOK'
    BY <1>24, FilesFrame, ConstantFacts DEF TypeOK, SweepInterrupted, jobVars, queueVars, storeVars, runVars
  <1>25. QED
    BY StepCases, <1>1, <1>2, <1>3, <1>4, <1>5, <1>6, <1>7, <1>8, <1>9, <1>10, <1>11, <1>12, <1>13, <1>14, <1>15, <1>16, <1>17, <1>18, <1>19, <1>20, <1>21, <1>22, <1>23, <1>24

-----------------------------------------------------------------------------
(* Ages.  A run cannot use more ticks than its timeout, and its job's row is
   never older than the run. *)

LEMMA InitAge == Init => AgeOK
  BY DEF Init, AgeOK, MarkedSteps

LEMMA NextAge ==
  ASSUME TypeOK, RunOK, AgeOK, Next
  PROVE  AgeOK'
  <1> USE ConstantFacts DEF TypeOK, RunOK, AgeOK, MarkedSteps
  <1>1. ASSUME NEW j \in Jobs, TriggerConversion(j) PROVE AgeOK'
    BY <1>1 DEF TriggerConversion, InsertJob, jobVars, queueVars, storeVars, runVars
  <1>2. ASSUME NEW j \in Jobs, Send(j) PROVE AgeOK'
    BY <1>2 DEF Send, Enqueue, jobVars, queueVars, storeVars, runVars
  <1>3. ASSUME NEW j \in Jobs, MarkAsRead(j) PROVE AgeOK'
    BY <1>3 DEF MarkAsRead, jobVars, queueVars, storeVars, runVars
  <1>4. ASSUME NEW j \in KoboJobs, KoboScan(j) PROVE AgeOK'
    BY <1>4 DEF KoboScan, jobVars, queueVars, storeVars, runVars
  <1>5. ASSUME NEW j \in KoboJobs, KoboCheck(j) PROVE AgeOK'
    BY <1>5 DEF KoboCheck, jobVars, queueVars, storeVars, runVars
  <1>6. ASSUME NEW j \in KoboJobs, KoboInsert(j) PROVE AgeOK'
    BY <1>6 DEF KoboInsert, InsertJob, jobVars, queueVars, storeVars, runVars
  <1>7. ASSUME NEW w \in Workers, NEW j \in Jobs, Deliver(w, j) PROVE AgeOK'
    BY <1>7 DEF Deliver, Hand, Deliverable, jobVars, queueVars, storeVars, runVars
  <1>8. ASSUME NEW w \in Workers, MarkProcessing(w) PROVE AgeOK'
    BY <1>8 DEF MarkProcessing, At, SetStatus, jobVars, queueVars, storeVars, runVars
  <1>9. ASSUME NEW w \in Workers, ReadSource(w) PROVE AgeOK'
    BY <1>9 DEF ReadSource, At, jobVars, queueVars, storeVars, runVars
  <1>10. ASSUME NEW w \in Workers, Upload(w) PROVE AgeOK'
    BY <1>10 DEF Upload, Put, At, jobVars, queueVars, storeVars, runVars
  <1>11. ASSUME NEW w \in Workers, UploadMismatch(w) PROVE AgeOK'
    BY <1>11 DEF UploadMismatch, Put, At, jobVars, queueVars, storeVars, runVars
  <1>12. ASSUME NEW d \in deletes, DeleteLands(d) PROVE AgeOK'
    BY <1>12 DEF DeleteLands, At, jobVars, queueVars, storeVars, runVars
  <1>13. ASSUME NEW d \in deletes, DeleteFails(d) PROVE AgeOK'
    BY <1>13 DEF DeleteFails, At, jobVars, queueVars, storeVars, runVars
  <1>14. ASSUME NEW w \in Workers, DeleteAnswered(w) PROVE AgeOK'
    BY <1>14 DEF DeleteAnswered, At, jobVars, queueVars, storeVars, runVars
  <1>15. ASSUME NEW w \in Workers, InsertFile(w) PROVE AgeOK'
    BY <1>15 DEF InsertFile, At, jobVars, queueVars, storeVars, runVars
  <1>16. ASSUME NEW w \in Workers, Finish(w) PROVE AgeOK'
    BY <1>16 DEF Finish, At, SetStatus, jobVars, queueVars, storeVars, runVars
  <1>17. ASSUME NEW w \in Workers, pc[w] \in RunSteps, Stop(w) PROVE AgeOK'
    BY <1>17 DEF Stop, At, RunSteps, jobVars, queueVars, storeVars, runVars
  <1>18. ASSUME NEW w \in Workers, Settle(w) PROVE AgeOK'
    BY <1>18 DEF Settle, At, SetStatus, jobVars, queueVars, storeVars, runVars
  <1>19. ASSUME NEW w \in Workers, Ack(w) PROVE AgeOK'
    BY <1>19 DEF Ack, Acknowledge, Release, jobVars, queueVars, storeVars, runVars
  <1>20. ASSUME NEW w \in Workers, RetryOrCrash(w) PROVE AgeOK'
    BY <1>20 DEF RetryOrCrash, Release, Return, jobVars, queueVars, storeVars, runVars
  <1>21. ASSUME Tick PROVE AgeOK'
    BY <1>21 DEF Tick, RunSteps, jobVars, queueVars, storeVars, runVars
  <1>22. ASSUME SweepSelect PROVE AgeOK'
    BY <1>22 DEF SweepSelect, Stale, Active, Unsettled, jobVars, queueVars, storeVars, runVars
  <1>23. ASSUME SweepUpdate PROVE AgeOK'
    BY <1>23 DEF SweepUpdate, jobVars, queueVars, storeVars, runVars
  <1>24. ASSUME SweepInterrupted PROVE AgeOK'
    BY <1>24 DEF SweepInterrupted, jobVars, queueVars, storeVars, runVars
  <1>25. QED
    BY StepCases, <1>1, <1>2, <1>3, <1>4, <1>5, <1>6, <1>7, <1>8, <1>9, <1>10, <1>11, <1>12, <1>13, <1>14, <1>15, <1>16, <1>17, <1>18, <1>19, <1>20, <1>21, <1>22, <1>23, <1>24

-----------------------------------------------------------------------------
(* Statuses. *)

LEMMA InitCreated == Init => CreatedOK
  BY DEF Init, QueueInit, CreatedOK, MarkedSteps

LEMMA NextCreated ==
  ASSUME TypeOK, RunOK, CreatedOK, Next
  PROVE  CreatedOK'
  <1> USE ConstantFacts DEF TypeOK, QueueTypeOK, RunOK, CreatedOK, MarkedSteps
  <1>1. ASSUME NEW j \in Jobs, TriggerConversion(j) PROVE CreatedOK'
    BY <1>1 DEF TriggerConversion, InsertJob, jobVars, queueVars, storeVars, runVars
  <1>2. ASSUME NEW j \in Jobs, Send(j) PROVE CreatedOK'
    BY <1>2 DEF Send, Enqueue, jobVars, queueVars, storeVars, runVars
  <1>3. ASSUME NEW j \in Jobs, MarkAsRead(j) PROVE CreatedOK'
    BY <1>3 DEF MarkAsRead, jobVars, queueVars, storeVars, runVars
  <1>4. ASSUME NEW j \in KoboJobs, KoboScan(j) PROVE CreatedOK'
    BY <1>4 DEF KoboScan, jobVars, queueVars, storeVars, runVars
  <1>5. ASSUME NEW j \in KoboJobs, KoboCheck(j) PROVE CreatedOK'
    BY <1>5 DEF KoboCheck, jobVars, queueVars, storeVars, runVars
  <1>6. ASSUME NEW j \in KoboJobs, KoboInsert(j) PROVE CreatedOK'
    BY <1>6 DEF KoboInsert, InsertJob, jobVars, queueVars, storeVars, runVars
  <1>7. ASSUME NEW w \in Workers, NEW j \in Jobs, Deliver(w, j) PROVE CreatedOK'
    BY <1>7 DEF Deliver, Hand, Deliverable, jobVars, queueVars, storeVars, runVars
  <1>8. ASSUME NEW w \in Workers, MarkProcessing(w) PROVE CreatedOK'
    BY <1>8 DEF MarkProcessing, At, SetStatus, jobVars, queueVars, storeVars, runVars
  <1>9. ASSUME NEW w \in Workers, ReadSource(w) PROVE CreatedOK'
    BY <1>9 DEF ReadSource, At, jobVars, queueVars, storeVars, runVars
  <1>10. ASSUME NEW w \in Workers, Upload(w) PROVE CreatedOK'
    BY <1>10 DEF Upload, Put, At, jobVars, queueVars, storeVars, runVars
  <1>11. ASSUME NEW w \in Workers, UploadMismatch(w) PROVE CreatedOK'
    BY <1>11 DEF UploadMismatch, Put, At, jobVars, queueVars, storeVars, runVars
  <1>12. ASSUME NEW d \in deletes, DeleteLands(d) PROVE CreatedOK'
    BY <1>12 DEF DeleteLands, At, jobVars, queueVars, storeVars, runVars
  <1>13. ASSUME NEW d \in deletes, DeleteFails(d) PROVE CreatedOK'
    BY <1>13 DEF DeleteFails, At, jobVars, queueVars, storeVars, runVars
  <1>14. ASSUME NEW w \in Workers, DeleteAnswered(w) PROVE CreatedOK'
    BY <1>14 DEF DeleteAnswered, At, jobVars, queueVars, storeVars, runVars
  <1>15. ASSUME NEW w \in Workers, InsertFile(w) PROVE CreatedOK'
    BY <1>15 DEF InsertFile, At, jobVars, queueVars, storeVars, runVars
  <1>16. ASSUME NEW w \in Workers, Finish(w) PROVE CreatedOK'
    BY <1>16 DEF Finish, At, SetStatus, jobVars, queueVars, storeVars, runVars
  <1>17. ASSUME NEW w \in Workers, pc[w] \in RunSteps, Stop(w) PROVE CreatedOK'
    BY <1>17 DEF Stop, At, RunSteps, jobVars, queueVars, storeVars, runVars
  <1>18. ASSUME NEW w \in Workers, Settle(w) PROVE CreatedOK'
    BY <1>18 DEF Settle, At, SetStatus, jobVars, queueVars, storeVars, runVars
  <1>19. ASSUME NEW w \in Workers, Ack(w) PROVE CreatedOK'
    BY <1>19 DEF Ack, Acknowledge, Release, jobVars, queueVars, storeVars, runVars
  <1>20. ASSUME NEW w \in Workers, RetryOrCrash(w) PROVE CreatedOK'
    BY <1>20 DEF RetryOrCrash, Release, Return, jobVars, queueVars, storeVars, runVars
  <1>21. ASSUME Tick PROVE CreatedOK'
    BY <1>21 DEF Tick, RunSteps, jobVars, queueVars, storeVars, runVars
  <1>22. ASSUME SweepSelect PROVE CreatedOK'
    BY <1>22 DEF SweepSelect, Stale, Active, Unsettled, jobVars, queueVars, storeVars, runVars
  <1>23. ASSUME SweepUpdate PROVE CreatedOK'
    BY <1>23 DEF SweepUpdate, jobVars, queueVars, storeVars, runVars
  <1>24. ASSUME SweepInterrupted PROVE CreatedOK'
    BY <1>24 DEF SweepInterrupted, jobVars, queueVars, storeVars, runVars
  <1>25. QED
    BY StepCases, <1>1, <1>2, <1>3, <1>4, <1>5, <1>6, <1>7, <1>8, <1>9, <1>10, <1>11, <1>12, <1>13, <1>14, <1>15, <1>16, <1>17, <1>18, <1>19, <1>20, <1>21, <1>22, <1>23, <1>24

(* Every step does to the statuses what the abstract lifecycle allows. *)
LEMMA NextLifecycle ==
  ASSUME TypeOK, RunOK, CreatedOK, Next
  PROVE  [Lifecycle!Next]_status
  <1> USE ConstantFacts DEF TypeOK, QueueTypeOK, RunOK, CreatedOK, MarkedSteps
  <1> USE DEF Lifecycle!Next, Lifecycle!Create, Lifecycle!Start, Lifecycle!Complete
  <1>1. ASSUME NEW j \in Jobs, TriggerConversion(j) PROVE [Lifecycle!Next]_status
    BY <1>1 DEF TriggerConversion, InsertJob, jobVars, queueVars, storeVars, runVars
  <1>2. ASSUME NEW j \in Jobs, Send(j) PROVE [Lifecycle!Next]_status
    BY <1>2 DEF Send, Enqueue, jobVars, queueVars, storeVars, runVars
  <1>3. ASSUME NEW j \in Jobs, MarkAsRead(j) PROVE [Lifecycle!Next]_status
    BY <1>3 DEF MarkAsRead, jobVars, queueVars, storeVars, runVars
  <1>4. ASSUME NEW j \in KoboJobs, KoboScan(j) PROVE [Lifecycle!Next]_status
    BY <1>4 DEF KoboScan, jobVars, queueVars, storeVars, runVars
  <1>5. ASSUME NEW j \in KoboJobs, KoboCheck(j) PROVE [Lifecycle!Next]_status
    BY <1>5 DEF KoboCheck, jobVars, queueVars, storeVars, runVars
  <1>6. ASSUME NEW j \in KoboJobs, KoboInsert(j) PROVE [Lifecycle!Next]_status
    BY <1>6 DEF KoboInsert, InsertJob, jobVars, queueVars, storeVars, runVars
  <1>7. ASSUME NEW w \in Workers, NEW j \in Jobs, Deliver(w, j) PROVE [Lifecycle!Next]_status
    BY <1>7 DEF Deliver, Hand, Deliverable, jobVars, queueVars, storeVars, runVars
  <1>8. ASSUME NEW w \in Workers, MarkProcessing(w) PROVE [Lifecycle!Next]_status
    BY <1>8 DEF MarkProcessing, At, SetStatus, jobVars, queueVars, storeVars, runVars
  <1>9. ASSUME NEW w \in Workers, ReadSource(w) PROVE [Lifecycle!Next]_status
    BY <1>9 DEF ReadSource, At, jobVars, queueVars, storeVars, runVars
  <1>10. ASSUME NEW w \in Workers, Upload(w) PROVE [Lifecycle!Next]_status
    BY <1>10 DEF Upload, Put, At, jobVars, queueVars, storeVars, runVars
  <1>11. ASSUME NEW w \in Workers, UploadMismatch(w) PROVE [Lifecycle!Next]_status
    BY <1>11 DEF UploadMismatch, Put, At, jobVars, queueVars, storeVars, runVars
  <1>12. ASSUME NEW d \in deletes, DeleteLands(d) PROVE [Lifecycle!Next]_status
    BY <1>12 DEF DeleteLands, At, jobVars, queueVars, storeVars, runVars
  <1>13. ASSUME NEW d \in deletes, DeleteFails(d) PROVE [Lifecycle!Next]_status
    BY <1>13 DEF DeleteFails, At, jobVars, queueVars, storeVars, runVars
  <1>14. ASSUME NEW w \in Workers, DeleteAnswered(w) PROVE [Lifecycle!Next]_status
    BY <1>14 DEF DeleteAnswered, At, jobVars, queueVars, storeVars, runVars
  <1>15. ASSUME NEW w \in Workers, InsertFile(w) PROVE [Lifecycle!Next]_status
    BY <1>15 DEF InsertFile, At, jobVars, queueVars, storeVars, runVars
  <1>16. ASSUME NEW w \in Workers, Finish(w) PROVE [Lifecycle!Next]_status
    <2>1. status[job[w]] \in {"processing", "failed", "done"}
      BY <1>16 DEF Finish, At, Statuses
    <2>2. Lifecycle!Complete(job[w])
      BY <1>16, <2>1 DEF Finish, SetStatus
    <2>3. QED
      BY <1>16, <2>2 DEF Finish, At
  <1>17. ASSUME NEW w \in Workers, pc[w] \in RunSteps, Stop(w) PROVE [Lifecycle!Next]_status
    BY <1>17 DEF Stop, At, RunSteps, jobVars, queueVars, storeVars, runVars
  <1>18. ASSUME NEW w \in Workers, Settle(w) PROVE [Lifecycle!Next]_status
    <2>1. CASE SetStatus(job[w], "failed", NoFile)
      <3>1. {job[w]} \in SUBSET Jobs /\ status[job[w]] # "none"
        BY <1>18 DEF Settle, At
      <3>2. Lifecycle!Fail({job[w]})
        BY <2>1, <3>1 DEF SetStatus, Lifecycle!Fail
      <3>3. QED
        BY <3>1, <3>2
    <2>2. CASE UNCHANGED jobVars
      BY <2>2 DEF jobVars
    <2>3. QED
      BY <1>18, <2>1, <2>2 DEF Settle
  <1>19. ASSUME NEW w \in Workers, Ack(w) PROVE [Lifecycle!Next]_status
    BY <1>19 DEF Ack, Acknowledge, Release, jobVars, queueVars, storeVars, runVars
  <1>20. ASSUME NEW w \in Workers, RetryOrCrash(w) PROVE [Lifecycle!Next]_status
    BY <1>20 DEF RetryOrCrash, Release, Return, jobVars, queueVars, storeVars, runVars
  <1>21. ASSUME Tick PROVE [Lifecycle!Next]_status
    BY <1>21 DEF Tick, RunSteps, jobVars, queueVars, storeVars, runVars
  <1>22. ASSUME SweepSelect PROVE [Lifecycle!Next]_status
    BY <1>22 DEF SweepSelect, Stale, Active, Unsettled, jobVars, queueVars, storeVars, runVars
  <1>23. ASSUME SweepUpdate PROVE [Lifecycle!Next]_status
    <2>1. Lifecycle!Fail(sweeping)
      BY <1>23 DEF SweepUpdate, Lifecycle!Fail
    <2>2. QED
      BY <2>1
  <1>24. ASSUME SweepInterrupted PROVE [Lifecycle!Next]_status
    BY <1>24 DEF SweepInterrupted, jobVars, queueVars, storeVars, runVars
  <1>25. QED
    BY StepCases, <1>1, <1>2, <1>3, <1>4, <1>5, <1>6, <1>7, <1>8, <1>9, <1>10, <1>11, <1>12, <1>13, <1>14, <1>15, <1>16, <1>17, <1>18, <1>19, <1>20, <1>21, <1>22, <1>23, <1>24

-----------------------------------------------------------------------------
(* The inductive invariant, and what follows from it. *)

LEMMA Stuttering ==
  ASSUME Inv, UNCHANGED vars
  PROVE  Inv'
  <1> USE DEF vars, jobVars, queueVars, storeVars, runVars
  <1>1. TypeOK' /\ RunOK'
    BY DEF Inv, TypeOK, QueueTypeOK, RunOK
  <1>2. UploadedOK' /\ InsertedOK' /\ DoneJobDelivers' /\ ListedFileStored' /\ OneRowPerKey'
    BY DEF Inv, UploadedOK, InsertedOK, DoneJobDelivers, ListedFileStored, OneRowPerKey, Run, Kept
  <1>3. AgeOK' /\ CreatedOK'
    BY DEF Inv, AgeOK, CreatedOK
  <1>4. FreshOK' /\ EitherOK'
    BY DEF Inv, FreshOK, EitherOK, Run
  <1>5. QED
    BY <1>1, <1>2, <1>3, <1>4 DEF Inv

THEOREM Invariance == SafeSpec => []Inv
  <1>1. Init => Inv
    BY InitTypes, InitOwners, InitFiles, InitAge, InitCreated DEF Inv, OwnersOK, FilesOK
  <1>2. Inv /\ [Next]_vars => Inv'
    <2>1. ASSUME Inv, Next PROVE Inv'
      BY <2>1, NextTypes, NextOwners, NextFiles, NextAge, NextCreated DEF Inv, OwnersOK, FilesOK
    <2>2. QED
      BY <2>1, Stuttering
  <1>3. QED
    BY <1>1, <1>2, PTL DEF SafeSpec

(* Every variable keeps its type. *)
THEOREM TypeCorrect == SafeSpec => []TypeOK
  <1>1. Inv => TypeOK
    BY DEF Inv
  <1>2. QED
    BY <1>1, Invariance, PTL

(* A done job always names a listed file stored under its target's key. *)
THEOREM DoneJobsDeliver == SafeSpec => []DoneJobDelivers
  <1>1. Inv => DoneJobDelivers
    BY DEF Inv
  <1>2. QED
    BY <1>1, Invariance, PTL

(* A listed file has its object unless the delete that followed another run's
   size mismatch came last, and no object is listed twice. *)
THEOREM ListedFilesStored == SafeSpec => [](ListedFileStored /\ OneRowPerKey)
  <1>1. Inv => ListedFileStored /\ OneRowPerKey
    BY DEF Inv
  <1>2. QED
    BY <1>1, Invariance, PTL

(* Because a run's timeout is shorter than the sweeper's window, the sweeper
   never selects a job a run is working on. *)
THEOREM SweeperSparesLiveRuns == SafeSpec => []SweepSparesLiveRuns
  <1>1. Inv => SweepSparesLiveRuns
    BY ConstantFacts DEF Inv, TypeOK, RunOK, AgeOK, SweepSparesLiveRuns, Stale,
       RunSteps, MarkedSteps
  <1>2. QED
    BY <1>1, Invariance, PTL

(* The conversion pipeline implements the safety half of a job's lifecycle. *)
THEOREM ImplementsLifecycle == SafeSpec => LifecycleSafe
  <1>1. Init => Lifecycle!Init
    BY DEF Init, Lifecycle!Init
  <1>2. Inv /\ [Next]_vars => [Lifecycle!Next]_status
    <2>1. ASSUME Inv, Next PROVE [Lifecycle!Next]_status
      BY <2>1, NextLifecycle DEF Inv
    <2>2. ASSUME UNCHANGED vars PROVE [Lifecycle!Next]_status
      BY <2>2 DEF vars, jobVars
    <2>3. QED
      BY <2>1, <2>2
  <1>3. QED
    BY <1>1, <1>2, Invariance, PTL DEF SafeSpec, LifecycleSafe, Lifecycle!Safe
=============================================================================
