---------------------------- MODULE UploadClient ----------------------------
(***************************************************************************)
(* The upload queue of the web client: files wait their turn, the parts of one  *)
(* are sent by a pool of workers that try each several times, then the upload    *)
(* is completed, or aborted.  Each upload is a mutation of the page of           *)
(* TaskToasts, which watches its task.                                        *)
(*                                                                         *)
(* A file is named after its upload task.  The server's handlers, which          *)
(* UploadSession models statement by statement, are one step here, but for a      *)
(* part's: it looks at the task first and marks it as processing in the end.     *)
(***************************************************************************)
EXTENDS TaskToasts

CONSTANTS
  Parts,         \* the parts of each file
  Concurrency,   \* workers of an upload
  MaxAttempts    \* how often a part is tried

ASSUME ClientAssumption ==
  /\ Parts \in [Uploads -> Nat \ {0}]
  /\ Concurrency \in Nat \ {0} /\ MaxAttempts \in Nat \ {0}

VARIABLES
  picked,   \* files the user has still to pick
  queue,    \* the store's queue
  ticks,    \* timeouts of 0 ms that will call processNext
  up,       \* uploadBookWithMultipart of each file
  got       \* the parts R2 has of each

clientVars == <<picked, queue, ticks, up, got>>
vars == <<toastVars, clientVars>>

Size(f) == IF Parts[f] < Concurrency THEN Parts[f] ELSE Concurrency
Worker == [at |-> "done", part |-> 0, tries |-> 0]
NoUpload == [at |-> "none", next |-> 1, fatal |-> FALSE, sent |-> {}, worker |-> <<>>]

(* What a table lists when the page comes up. *)
Orders(rows, k) ==
  LET old == {t \in Of(k) : rows[t].status \in Finished} IN
  {seq \in [1..Cardinality(old) -> old] : {seq[i] : i \in DOMAIN seq} = old}

InitWith(rows, files, spent) ==
  /\ task = rows
  /\ ToastInit(spent)
  /\ news = [t \in Tasks |-> [s \in Finished |->
               IF rows[t].recent /\ rows[t].status = s THEN 1 ELSE 0]]
  /\ \E u \in Orders(rows, "upload"), c \in Orders(rows, "conversion"), m \in Orders(rows, "metadata") :
       order = [k \in Kinds |-> CASE k = "upload" -> u [] k = "conversion" -> c [] OTHER -> m]
  /\ picked = files
  /\ queue = <<>> /\ ticks = 0
  /\ up  = [f \in Uploads |-> NoUpload]
  /\ got = [f \in Uploads |-> {}]

(* Some tasks have finished, others are to come, or never will; of the troubles there  *)
(* may be some are spent.                                                     *)
Init ==
  \E rows \in [Tasks -> [status : {"none", "never"} \cup Finished, read : BOOLEAN, recent : BOOLEAN]] :
  \E files \in SUBSET {f \in Uploads \ Others : rows[f].status = "none"} :
  \E spent \in 0..MaxFaults :
    InitWith(rows, files, spent)

-----------------------------------------------------------------------------
(* The store *)
Item(f, s) == [file |-> f, status |-> s]
Uploading == {queue[i].file : i \in {j \in DOMAIN queue : queue[j].status = "uploading"}}
Queued    == {i \in DOMAIN queue : queue[i].status = "queued"}

(* Files are picked on a page that is up. *)
AddFiles ==
  /\ listener.ready
  /\ \E n \in 1..Cardinality(picked) : \E files \in [1..n -> picked] :
       /\ Cardinality({files[i] : i \in 1..n}) = n
       /\ picked' = picked \ {files[i] : i \in 1..n}
       /\ queue' = queue \o [i \in 1..n |-> Item(files[i], "queued")]
  /\ ticks' = ticks + 1
  /\ UNCHANGED <<toastVars, up, got>>

ProcessNext ==
  /\ ticks > 0
  /\ ticks' = ticks - 1
  /\ IF Uploading # {} \/ Queued = {} THEN UNCHANGED <<queue, mutating, up>>
     ELSE LET i == CHOOSE j \in Queued : \A h \in Queued : j <= h
              f == queue[i].file
          IN /\ queue' = [queue EXCEPT ![i].status = "uploading"]
             /\ mutating' = mutating \cup {f}
             /\ up' = [up EXCEPT ![f].at = "session"]
  /\ UNCHANGED <<rowVars, list, listener, told, misses, picked, got, faults>>

MutantNoTick == ticks
(* remove, which takes the item from the queue and sees to the next. *)
TickAfterRemoval == ticks + 1

MutantNotRefreshed == list
(* onSuccess and onError *)
Refreshed == Invalidated({"upload"})

Settle(f) ==
  /\ up[f].at \in {"resolved", "rejected"}
  /\ up' = [up EXCEPT ![f].at = "ended"]
  /\ mutating' = mutating \ {f}
  /\ list' = Refreshed
  /\ queue' = LET other(item) == item.file # f IN SelectSeq(queue, other)
  /\ ticks' = TickAfterRemoval
  /\ UNCHANGED <<rowVars, listener, told, misses, picked, got, faults>>

-----------------------------------------------------------------------------
(* A request has an outcome: the server's doing, and whether the client hears of it. *)
Goes(f, p) == up' = [up EXCEPT ![f].at = p]
NoWrite == UNCHANGED rowVars
Rest == UNCHANGED <<pageVars, misses, picked, queue, ticks>>

(* createBookUploadSession: the row is inserted, the multipart upload opened, the    *)
(* row marked as processing.                                                  *)
Started(f) ==
  [at |-> "parts", next |-> Size(f) + 1, fatal |-> FALSE, sent |-> {},
   worker |-> [i \in 1..Size(f) |-> [at |-> "sending", part |-> i, tries |-> 1]]]

InsertSession(f) ==
  /\ up[f].at = "session" /\ task[f].status = "none"
  /\ Write(f, "pending")
  /\ UNCHANGED <<up, got>> /\ NoFault /\ Rest

OpenSession(f) ==
  /\ up[f].at = "session" /\ task[f].status = "pending"
  /\ Write(f, "processing")
  /\ up' = [up EXCEPT ![f] = Started(f)]
  /\ UNCHANGED got /\ NoFault /\ Rest

(* Without a session there is nothing to abort. *)
SessionFails(f) ==
  /\ up[f].at = "session" /\ Fault
  /\ \/ NoWrite
     \/ task[f].status = "pending" /\ \E s \in {"processing", "failed"} : Write(f, s)
  /\ Goes(f, "rejected")
  /\ UNCHANGED got /\ Rest

-----------------------------------------------------------------------------
(* The workers of f.  What follows a worker's await runs up to its next one. *)
Claims(u, f, i) ==
  IF u.fatal \/ u.next > Parts[f] THEN [u EXCEPT !.worker[i] = Worker]
  ELSE [u EXCEPT !.worker[i] = [at |-> "sending", part |-> u.next, tries |-> 1],
                 !.next = @ + 1]

Acknowledged(u, f, i) == Claims([u EXCEPT !.sent = @ \cup {u.worker[i].part}], f, i)

MayRetry(w) == w.tries < MaxAttempts

(* The last attempt's failure rejects Promise.all, if it is the first to: the upload   *)
(* is aborted while other workers are still sending.                            *)
Missed(u, i) ==
  IF MayRetry(u.worker[i])
  THEN [u EXCEPT !.worker[i].at = "sending", !.worker[i].tries = @ + 1]
  ELSE [u EXCEPT !.worker[i] = [Worker EXCEPT !.at = "threw"], !.fatal = TRUE,
                 !.at = IF @ = "parts" THEN "aborting" ELSE @]

Sends(f, i, p) == i \in DOMAIN up[f].worker /\ up[f].worker[i].at = p

BeginPart(f, i) ==
  /\ Sends(f, i, "sending")
  /\ up' = [up EXCEPT ![f] = IF task[f].status \in Running
                            THEN [@ EXCEPT !.worker[i].at = "serving"] ELSE Missed(@, i)]
  /\ UNCHANGED got /\ NoWrite /\ NoFault /\ Rest

(* Settled meanwhile, the task is processing again if R2 had taken the part before.   *)
StorePart(f, i) ==
  /\ Write(f, "processing")
  /\ got' = [got EXCEPT ![f] = @ \cup {up[f].worker[i].part}]

EndPart(f, i) ==
  /\ Sends(f, i, "serving")
  /\ \/ StorePart(f, i) /\ up' = [up EXCEPT ![f] = Acknowledged(@, f, i)]
     \/ /\ task[f].status \in Finished
        /\ up' = [up EXCEPT ![f] = Missed(@, i)]
        /\ UNCHANGED got /\ NoWrite
  /\ NoFault /\ Rest

PartFails(f, i) ==
  /\ \/ Sends(f, i, "sending") /\ NoWrite /\ UNCHANGED got
     \/ Sends(f, i, "serving") /\ NoWrite /\ UNCHANGED got
     \/ Sends(f, i, "serving") /\ StorePart(f, i)
  /\ up' = [up EXCEPT ![f] = Missed(@, i)]
  /\ Fault /\ Rest

-----------------------------------------------------------------------------
MutantAllClaimed(u, f) == u.next > Parts[f]
(* Promise.all, and no chunk is missing. *)
MayComplete(u, f) == (\A i \in DOMAIN u.worker : u.worker[i].at = "done") /\ u.sent = 1..Parts[f]

Gather(f) ==
  /\ up[f].at = "parts" /\ MayComplete(up[f], f)
  /\ Goes(f, "completing")
  /\ UNCHANGED got /\ NoWrite /\ NoFault /\ Rest

(* A task that was completed is as good; one that was failed is not. *)
Complete(f) ==
  /\ up[f].at = "completing"
  /\ \/ task[f].status \in Running /\ Write(f, "success") /\ Goes(f, "resolved")
     \/ task[f].status \in Running /\ Write(f, "failed") /\ Goes(f, "aborting")
     \/ /\ task[f].status \in Finished /\ NoWrite
        /\ Goes(f, IF task[f].status = "success" THEN "resolved" ELSE "aborting")
  /\ UNCHANGED got /\ NoFault /\ Rest

CompleteFails(f) ==
  /\ up[f].at = "completing" /\ Fault
  /\ NoWrite \/ (task[f].status \in Running /\ Write(f, "success"))
  /\ Goes(f, "aborting")
  /\ UNCHANGED got /\ Rest

(* An abort that fails is let pass. *)
Abort(f) ==
  /\ up[f].at = "aborting"
  /\ IF task[f].status \in Running THEN Write(f, "failed") ELSE NoWrite
  /\ Goes(f, "rejected")
  /\ UNCHANGED got /\ NoFault /\ Rest

AbortFails(f) ==
  /\ up[f].at = "aborting" /\ Fault
  /\ Goes(f, "rejected")
  /\ UNCHANGED got /\ NoWrite /\ Rest

(* failStaleUploadTasks, long after the last request. *)
Sweep(f) ==
  /\ up[f].at = "ended" /\ task[f].status \in Running
  /\ \A i \in DOMAIN up[f].worker : up[f].worker[i].at \in {"done", "threw"}
  /\ Write(f, "failed")
  /\ UNCHANGED <<up, got>> /\ NoFault /\ Rest

-----------------------------------------------------------------------------
(* All of these take finitely many steps, so that fairness of one is fairness of all. *)
Work ==
  \/ ProcessNext
  \/ \E f \in Uploads :
       \/ InsertSession(f) \/ OpenSession(f) \/ Gather(f) \/ Complete(f) \/ Abort(f)
       \/ Settle(f) \/ Sweep(f)
       \/ \E i \in 1..Size(f) : BeginPart(f, i) \/ EndPart(f, i)
  \/ ServerSteps /\ UNCHANGED clientVars

Faults == \E f \in Uploads :
  \/ SessionFails(f) \/ CompleteFails(f) \/ AbortFails(f)
  \/ \E i \in 1..Size(f) : PartFails(f, i)

Watch(k) == Fetches(k) /\ UNCHANGED clientVars

Next ==
  \/ AddFiles \/ Work \/ Faults
  \/ Anytime /\ UNCHANGED clientVars
  \/ \E k \in Kinds : Watch(k)

(* Requests are answered or fail, timeouts fire, jobs end or are swept, and a page    *)
(* that is looked at polls.                                                   *)
Steps == [][Next]_vars /\ WF_vars(Work) /\ \A k \in Kinds : WF_vars(Watch(k))

Spec == Init /\ Steps

-----------------------------------------------------------------------------
(* Type invariant: one file is uploaded at a time, no part is tried more often than    *)
(* it may be, and no list has a task twice.                                    *)
TypeOK ==
  /\ Cardinality(Uploading) <= 1 /\ ticks \in Nat /\ faults \in 0..MaxFaults
  /\ \A t \in Tasks : task[t].status \in Running \cup Finished \cup {"none", "never", "gone"}
  /\ \A k \in Kinds : Cardinality(Listed(k)) = Len(order[k]) /\ Listed(k) \subseteq Of(k)
  /\ \A k \in Kinds : list[k].fetch \in {"idle", "asked", "answered"}
  /\ mutating \subseteq Tasks /\ listener.known \subseteq Tasks
  /\ \A f \in Uploads :
       /\ up[f].at \in {"none", "session", "parts", "completing", "aborting", "resolved",
                        "rejected", "ended"}
       /\ up[f].sent \subseteq got[f] /\ got[f] \subseteq 1..Parts[f]
       /\ \A i \in DOMAIN up[f].worker :
            /\ up[f].worker[i].at \in {"sending", "serving", "done", "threw"}
            /\ up[f].worker[i].tries \in 0..MaxAttempts

(* An upload is completed when the server has all of its parts and no worker is       *)
(* sending one any more, whatever was tried again, lost or late on the way            *)
(* (uploadBookWithMultipart).                                                 *)
CompleteSendsAll ==
  \A f \in Uploads : up[f].at = "completing" =>
    /\ got[f] = 1..Parts[f]
    /\ \A i \in DOMAIN up[f].worker : up[f].worker[i].at = "done"

(* There are no more toasts about a task than it had news: nothing is announced twice,  *)
(* nor what had finished more than thirty seconds before the page came up, however     *)
(* lists overtake, lose and regain tasks (TaskToastListener).                    *)
ToastsAreNews == \A t \in Tasks : \A s \in Finished : told[t][s] <= news[t][s]

(* The end of an upload is announced on the page that made it, unless the task was      *)
(* marked as read, its list could not be fetched, or so many uploads of the user's       *)
(* were begun after it, on this page or another, that the list no longer has it        *)
(* (TaskToastListener; the limit of getUploadTasksServerFn).                      *)
UploadsAreTold ==
  \A f \in Uploads \ Others :
    (up[f].at # "none" /\ task[f].status \in Finished)
      ~> \/ task[f].read \/ misses > 0 \/ f \notin DOMAIN List("upload")
         \/ \E s \in Finished : told[f][s] > 0

(* The page comes to rest: no file that failed keeps the others from their turn, and   *)
(* no list shows work, which has the page ask before it is left, for ever            *)
(* (useUploadQueue, useHasActiveNotificationTasks).                              *)
Busy ==
  \/ mutating \cap Uploads # {}
  \/ LET rows == Unread(list) IN \E t \in DOMAIN rows : rows[t].status \in Running
ComesToRest == []<>(queue = <<>> /\ ~Busy)
=============================================================================
