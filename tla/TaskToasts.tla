----------------------------- MODULE TaskToasts -----------------------------
(***************************************************************************)
(* A page of the web client that watches tasks: three lists of tasks, each     *)
(* polled while it shows work or a mutation runs, and the listener that turns  *)
(* what changed between two lists into toasts.                                *)
(*                                                                         *)
(* The rows of the three tables are written by the components that own them;    *)
(* here a row is its status, whether it was read, and whether it was written   *)
(* within the last thirty seconds.                                           *)
(* A definition named Mutant... is a plausible slip in the definition that     *)
(* follows it; no specification uses it.                                      *)
(***************************************************************************)
EXTENDS Naturals, Sequences, FiniteSets

CONSTANTS
  Uploads, Conversions, Metadata,   \* the tasks of a behaviour
  Others,                           \* those that are not begun on this page: anybody's
                                    \* conversions, and what the user does on other pages
  Limit,                            \* of each table, the tasks in its list
  MaxFaults                         \* bound: requests that fail, answers that are lost, and
                                    \* jobs delivered once more

ASSUME TasksAssumption ==
  /\ Uploads \cap Conversions = {} /\ Uploads \cap Metadata = {}
  /\ Conversions \cap Metadata = {} /\ Others \subseteq Uploads \cup Conversions \cup Metadata
  /\ Limit \in [{"upload", "conversion", "metadata"} -> Nat \ {0}] /\ MaxFaults \in Nat

VARIABLES
  task,      \* the rows
  order,     \* of each table, the tasks as its list would give them
  list,      \* the page's query of each table
  mutating,  \* the tasks whose mutation is running on this page
  listener,  \* the refs of TaskToastListener
  told,      \* history: the toasts there were about each task
  news,      \* history: what there was to tell
  misses,    \* history: fetches that failed
  faults     \* all that went wrong

rowVars  == <<task, order, news>>
pageVars == <<list, mutating, listener, told>>
toastVars == <<rowVars, pageVars, misses, faults>>

Tasks == Uploads \cup Conversions \cup Metadata
Kinds == {"upload", "conversion", "metadata"}
Of(k) == CASE k = "upload" -> Uploads [] k = "conversion" -> Conversions [] OTHER -> Metadata
Kind(t) == CHOOSE k \in Kinds : t \in Of(k)

Running  == {"pending", "processing"}
Finished == {"success", "failed"}
NoTally  == [s \in Finished |-> 0]

NotAsked == [status |-> "none", read |-> FALSE, recent |-> FALSE]
NoRows   == [t \in {} |-> NotAsked]

(* Every list is fetched when the page comes up.  Of a table nothing is ever put in,  *)
(* the list is empty already, and stays so.                                    *)
Used(rows) == {k \in Kinds : \E t \in Of(k) : rows[t].status # "never"}
NewQuery   == [loaded |-> FALSE, data |-> NoRows, fetch |-> "asked", answer |-> NoRows]
EmptyQuery == [loaded |-> TRUE, data |-> NoRows, fetch |-> "idle", answer |-> NoRows]

ToastInit(spent) ==
  /\ list     = [k \in Kinds |-> IF k \in Used(task) THEN NewQuery ELSE EmptyQuery]
  /\ mutating = {}
  /\ listener = [ready |-> FALSE, prev |-> NoRows, known |-> {}]
  /\ told     = [t \in Tasks |-> NoTally]
  /\ misses   = 0
  /\ faults   = spent

Fault   == faults < MaxFaults /\ faults' = faults + 1
NoFault == UNCHANGED faults

-----------------------------------------------------------------------------
(* The rows.  Uploads are listed as they were created, jobs as they were updated,   *)
(* and marking a job as read updates it.                                        *)
Without(seq, T) == LET other(t) == t \notin T IN SelectSeq(seq, other)
Within(seq, T)  == LET one(t) == t \in T IN SelectSeq(seq, one)

Exists(t) == task[t].status \notin {"none", "never", "gone"}
Listed(k) == {order[k][i] : i \in DOMAIN order[k]}

Touched(T) ==
  [k \in Kinds |-> IF k = "upload" THEN order[k] ELSE Within(order[k], T) \o Without(order[k], T)]

Write(t, s) ==
  /\ task' = [task EXCEPT ![t] = [@ EXCEPT !.status = s, !.recent = TRUE]]
  /\ order' = IF t \in Listed(Kind(t)) THEN Touched({t})
              ELSE [order EXCEPT ![Kind(t)] = <<t>> \o @]
  /\ news' = IF s \in Finished /\ task[t].status # s
             THEN [news EXCEPT ![t][s] = @ + 1] ELSE news

(* A job's run, its sweeper, and the queue that may deliver it once more; an upload      *)
(* from another page, its sweeper, and a part of it that comes late.             *)
Jobs == Conversions \cup Metadata \cup (Uploads \cap Others)

JobStep(t) ==
  /\ t \in Jobs
  /\ \/ task[t].status = "pending" /\ Write(t, "processing")
     \/ task[t].status = "processing" /\ Write(t, "success")
     \/ task[t].status \in Running /\ Write(t, "failed")
  /\ UNCHANGED <<pageVars, misses, faults>>

JobAgain(t) ==
  /\ t \in Jobs
  /\ task[t].status \in Finished
  /\ Write(t, "processing")
  /\ Fault
  /\ UNCHANGED <<pageVars, misses>>

(* Deleting a book takes its jobs along. *)
DeleteBook(t) ==
  /\ t \in Conversions \cup Metadata /\ Exists(t)
  /\ task' = [task EXCEPT ![t] = [NotAsked EXCEPT !.status = "gone"]]
  /\ order' = [order EXCEPT ![Kind(t)] = Without(@, {t})]
  /\ UNCHANGED <<news, pageVars, misses, faults>>

-----------------------------------------------------------------------------
(* The queries *)
List(k) ==
  LET shown == {t \in Of(k) : \E i \in DOMAIN order[k] : i <= Limit[k] /\ order[k][i] = t} IN
  [t \in shown |-> task[t]]

(* A fetch in flight is cancelled and begun again, unless it is the first one. *)
Invalidated(K) ==
  [k \in Kinds |->
     IF k \notin K \cap Used(task) \/ (list[k].fetch # "idle" /\ ~list[k].loaded) THEN list[k]
     ELSE [list[k] EXCEPT !.fetch = "asked", !.answer = NoRows]]

Ask(k) ==
  /\ list[k].fetch = "idle"
  /\ list' = [list EXCEPT ![k].fetch = "asked"]
  /\ UNCHANGED <<rowVars, mutating, listener, told, misses, faults>>

Shows(k) == \E t \in DOMAIN list[k].data : list[k].data[t].status \in Running

(* refetchInterval *)
Polls(k) == Shows(k) \/ (k # "metadata" /\ mutating \cap Of(k) # {})

Answer(k) ==
  /\ list[k].fetch = "asked"
  /\ list' = [list EXCEPT ![k].fetch = "answered", ![k].answer = List(k)]
  /\ UNCHANGED <<rowVars, mutating, listener, told, misses, faults>>

-----------------------------------------------------------------------------
(* The listener, an effect that runs whenever the lists l have changed. *)
Loading(l) == \E k \in Kinds : ~l[k].loaded /\ l[k].fetch # "idle"

Unread(l) ==
  LET shown == UNION {DOMAIN l[k].data : k \in Kinds}
      unread == {t \in shown : ~l[Kind(t)].data[t].read}
  IN [t \in unread |-> l[Kind(t)].data[t]]

MutantAnyAge(row) == TRUE
IsRecent(row) == row.recent

Announces(t, row) ==
  /\ row.status \in Finished
  /\ IF t \in listener.known
     THEN t \in DOMAIN listener.prev /\ listener.prev[t].status # row.status
     ELSE IsRecent(row)

Listen(l) ==
  LET rows == Unread(l) IN
  IF Loading(l) THEN UNCHANGED <<listener, told>>
  ELSE /\ listener' = [ready |-> TRUE, prev |-> rows,
                       known |-> DOMAIN rows \cup listener.known]
       /\ told' = IF ~listener.ready THEN told
                  ELSE [t \in Tasks |-> [s \in Finished |->
                         IF t \in DOMAIN rows /\ rows[t].status = s /\ Announces(t, rows[t])
                         THEN told[t][s] + 1 ELSE told[t][s]]]

Deliver(k) ==
  /\ list[k].fetch = "answered"
  /\ list' = [list EXCEPT ![k] = [loaded |-> TRUE, data |-> @.answer, fetch |-> "idle",
                                  answer |-> NoRows]]
  /\ Listen(list')
  /\ UNCHANGED <<rowVars, mutating, misses, faults>>

(* Three retries included.  What was there before stays. *)
FetchFails(k) ==
  /\ list[k].fetch # "idle" /\ Fault
  /\ list' = [list EXCEPT ![k].fetch = "idle", ![k].answer = NoRows]
  /\ misses' = misses + 1
  /\ Listen(list')
  /\ UNCHANGED <<rowVars, mutating>>

-----------------------------------------------------------------------------
(* What the user does on this page *)

(* Asking for a conversion, or saving a book: a mutation that inserts a job, and   *)
(* whose success invalidates the list of such jobs.                             *)
Trigger(t) ==
  /\ t \in (Conversions \cup Metadata) \ Others
  /\ task[t].status = "none" /\ t \notin mutating
  /\ mutating' = mutating \cup {t}
  /\ UNCHANGED <<rowVars, list, listener, told, misses, faults>>

JobInserted(t) ==
  /\ task[t].status = "none" /\ t \in (mutating \ Uploads) \cup Others
  /\ Write(t, "pending")
  /\ UNCHANGED <<pageVars, misses, faults>>

TriggerAnswered(t) ==
  /\ t \in mutating \ Uploads /\ task[t].status # "none"
  /\ mutating' = mutating \ {t}
  /\ list' = Invalidated({Kind(t)})
  /\ UNCHANGED <<rowVars, listener, told, misses, faults>>

(* The X of a task that is not processing, or clearing all that is finished: the    *)
(* rows are updated, if they still exist, then everything is invalidated.  Of a list    *)
(* that is stale the user does not mark the same task again and again.              *)
Marked(T) ==
  /\ task' = [t \in Tasks |-> IF t \in T THEN [task[t] EXCEPT !.read = TRUE, !.recent = @ \/ Exists(t)]
                              ELSE task[t]]
  /\ order' = Touched(T)
  /\ UNCHANGED news

MarkAsRead ==
  /\ LET rows == Unread(list)
         finished == {t \in DOMAIN rows : rows[t].status \in Finished}
     IN \/ \E t \in DOMAIN rows :
             rows[t].status # "processing" /\ ~task[t].read /\ Marked({t})
        \/ (\E t \in finished : ~task[t].read) /\ Marked(finished)
  /\ list' = Invalidated(Kinds)
  /\ UNCHANGED <<mutating, listener, told, misses, faults>>

(* On another page of the user's; of anybody's, if it is a conversion. *)
ReadElsewhere(t) ==
  /\ task[t].status \in Finished /\ ~task[t].read
  /\ Marked({t})
  /\ UNCHANGED <<pageVars, misses, faults>>

(* Thirty seconds are over.  That is longer than it takes a list that is polled, or   *)
(* asked for, to come.                                                       *)
Aged(rows, t) == [u \in DOMAIN rows |-> IF u = t THEN [rows[u] EXCEPT !.recent = FALSE] ELSE rows[u]]

Age(t) ==
  LET k == Kind(t) IN
  /\ task[t].recent
  /\ list[k].fetch = "idle" /\ ~Polls(k)
  /\ task' = Aged(task, t)
  /\ list' = [list EXCEPT ![k].data = Aged(@, t)]
  /\ UNCHANGED <<order, news, mutating, listener, told, misses, faults>>

Fetches(k) == (Polls(k) /\ Ask(k)) \/ Answer(k) \/ Deliver(k)

ServerSteps == \E t \in Jobs :
  JobStep(t) \/ (t \in mutating /\ JobInserted(t)) \/ TriggerAnswered(t)

(* A window that gets the focus asks again. *)
Refocus(k) == k \in Used(task) /\ Ask(k)

Anytime ==
  \/ \E k \in Kinds : Refocus(k) \/ FetchFails(k)
  \/ \E t \in Tasks : \/ Trigger(t) \/ JobInserted(t) \/ JobAgain(t) \/ DeleteBook(t)
                      \/ ReadElsewhere(t) \/ Age(t)
  \/ MarkAsRead
=============================================================================
