------------------------- MODULE UploadClientProofs -------------------------
(***************************************************************************)
(* Proofs about UploadClient and the page of TaskToasts it works on, for     *)
(* any number of files, parts, workers, attempts, tasks and faults.          *)
(***************************************************************************)
EXTENDS UploadClient, TLAPS

(* The rows a page can be shown, and what a query holds of them. *)
Statuses == Running \cup Finished \cup {"none", "never", "gone"}
Row      == [status : Statuses, read : BOOLEAN, recent : BOOLEAN]
Views(k) == UNION {[T -> Row] : T \in SUBSET Of(k)}
Query(k) == [loaded : BOOLEAN, data : Views(k), fetch : {"idle", "asked", "answered"},
             answer : Views(k)]

PageTypes ==
  /\ task \in [Tasks -> Row]
  /\ DOMAIN list = Kinds /\ \A k \in Kinds : list[k] \in Query(k)
  /\ told \in [Tasks -> [Finished -> Nat]]
  /\ news \in [Tasks -> [Finished -> Nat]]

(* The listener knows what it was shown last. *)
ListenerOK == DOMAIN listener.prev \subseteq listener.known

(* A task goes from its row through an answer in flight and the page's list to what
   the listener was shown last; each of these is older than the one before.  From
   one to the next its status may turn to s, once at most. *)
Turn(x, y, s) == IF y = s /\ x # s THEN 1 ELSE 0

(* A row is news by itself while the listener has never been shown its task. *)
Surprise(t, row, s) ==
  IF t \notin listener.known /\ ~row.read /\ row.recent /\ row.status = s THEN 1 ELSE 0

(* The turns there are from status x to the answer of l, and on to the row; and the
   same by way of the list. *)
After(l, t, x, s) ==
  LET a == l[Kind(t)].answer IN
  IF t \in DOMAIN a THEN Turn(x, a[t].status, s) + Turn(a[t].status, task[t].status, s)
  ELSE Turn(x, task[t].status, s)

Through(l, t, x, s) ==
  LET d == l[Kind(t)].data IN
  IF t \in DOMAIN d THEN Turn(x, d[t].status, s) + After(l, t, d[t].status, s)
  ELSE After(l, t, x, s)

(* Whatever of the way the listener is still to be shown, with the toasts about it
   there will not be more than there was news. *)
Owes(l, t, s) ==
  LET d == l[Kind(t)].data
      a == l[Kind(t)].answer
  IN
  /\ t \in DOMAIN listener.prev =>
       told[t][s] + Through(l, t, listener.prev[t].status, s) <= news[t][s]
  /\ t \in DOMAIN d =>
       told[t][s] + Surprise(t, d[t], s) + After(l, t, d[t].status, s) <= news[t][s]
  /\ t \in DOMAIN a =>
       told[t][s] + Surprise(t, a[t], s) + Turn(a[t].status, task[t].status, s) <= news[t][s]
  /\ told[t][s] + Surprise(t, task[t], s) <= news[t][s]

OwesOK(l) == \A t \in Tasks, s \in Finished : Owes(l, t, s)

(* An upload and its workers: what was acknowledged is in R2, a worker that sends has
   a part to send, and while the upload is completed no worker sends. *)
WorkerSteps == {"sending", "serving", "done", "threw"}
UploadSteps == {"none", "session", "parts", "completing", "aborting", "resolved", "rejected",
                "ended"}
PartWorker(f) == [at : WorkerSteps, part : 0..Parts[f], tries : 0..MaxAttempts]
Upload(f) == [at : UploadSteps, next : Nat \ {0}, fatal : BOOLEAN, sent : SUBSET (1..Parts[f]),
              worker : Seq(PartWorker(f))]

AtWork(w) == w.at \in {"sending", "serving"}

UploadOK(f, u, parts) ==
  /\ u \in Upload(f) /\ parts \subseteq 1..Parts[f] /\ u.sent \subseteq parts
  /\ \A i \in DOMAIN u.worker : AtWork(u.worker[i]) => u.worker[i].part > 0
  /\ u.at = "completing" =>
       u.sent = 1..Parts[f] /\ \A i \in DOMAIN u.worker : u.worker[i].at = "done"

UploadsOK ==
  /\ DOMAIN up = Uploads /\ DOMAIN got = Uploads
  /\ \A f \in Uploads : UploadOK(f, up[f], got[f])

Inv ==
  /\ PageTypes
  /\ ListenerOK
  /\ OwesOK(list)
  /\ UploadsOK

-----------------------------------------------------------------------------
(* The page *)

LEMMA KindOf ==
  ASSUME NEW t \in Tasks
  PROVE  Kind(t) \in Kinds /\ t \in Of(Kind(t))
  <1>1. \E k \in Kinds : t \in Of(k)
    BY DEF Tasks, Kinds, Of
  <1> QED
    BY <1>1 DEF Kind

LEMMA ViewRows ==
  ASSUME NEW k, NEW v \in Views(k)
  PROVE  DOMAIN v \subseteq Of(k) /\ \A t \in DOMAIN v : v[t] \in Row
  BY DEF Views

LEMMA NoRowsIsView ==
  ASSUME NEW k
  PROVE  NoRows \in Views(k) /\ DOMAIN NoRows = {}
  <1>1. NoRows \in [{} -> Row] /\ DOMAIN NoRows = {}
    BY DEF NoRows
  <1> QED
    BY <1>1 DEF Views

LEMMA OfTasks ==
  ASSUME NEW k \in Kinds
  PROVE  Of(k) \subseteq Tasks
  BY DEF Of, Kinds, Tasks

LEMMA ListIsView ==
  ASSUME NEW k \in Kinds, task \in [Tasks -> Row]
  PROVE  List(k) \in Views(k) /\ \A t \in DOMAIN List(k) : List(k)[t] = task[t]
  <1> DEFINE shown == {t \in Of(k) : \E i \in DOMAIN order[k] : i <= Limit[k] /\ order[k][i] = t}
  <1>1. List(k) = [t \in shown |-> task[t]]
    BY DEF List
  <1>2. shown \subseteq Of(k) /\ \A t \in shown : task[t] \in Row
    BY OfTasks
  <1> HIDE DEF shown
  <1>3. List(k) \in [shown -> Row]
    BY <1>1, <1>2
  <1> QED
    BY <1>1, <1>2, <1>3 DEF Views

LEMMA AgedIsView ==
  ASSUME NEW k, NEW v \in Views(k), NEW t
  PROVE  /\ Aged(v, t) \in Views(k) /\ DOMAIN Aged(v, t) = DOMAIN v
         /\ \A u \in DOMAIN v : /\ Aged(v, t)[u].status = v[u].status
                                /\ Aged(v, t)[u].read = v[u].read
                                /\ (Aged(v, t)[u].recent => v[u].recent)
  <1>1. \A u \in DOMAIN v : [v[u] EXCEPT !.recent = FALSE] \in Row
    BY ViewRows DEF Row
  <1>2. Aged(v, t) \in [DOMAIN v -> Row]
    BY <1>1, ViewRows DEF Aged
  <1>3. \A u \in DOMAIN v : v[u] \in Row
    BY ViewRows
  <1> QED
    BY <1>2, <1>3, ViewRows DEF Views, Aged, Row

LEMMA QueryParts ==
  ASSUME NEW k \in Kinds, PageTypes
  PROVE  /\ list[k] \in Query(k) /\ list[k].data \in Views(k) /\ list[k].answer \in Views(k)
         /\ list[k].fetch \in {"idle", "asked", "answered"} /\ list[k].loaded \in BOOLEAN
  BY DEF PageTypes, Query

(* A query keeps its list, and keeps or forgets its answer. *)
Quieter ==
  /\ DOMAIN list' = Kinds
  /\ \A k \in Kinds :
       /\ list'[k] \in Query(k)
       /\ list'[k].data = list[k].data
       /\ list'[k].answer = list[k].answer \/ list'[k].answer = NoRows

LEMMA SameListIsQuieter ==
  ASSUME PageTypes, UNCHANGED list
  PROVE  Quieter
  BY DEF PageTypes, Quieter

LEMMA InvalidatedIsQuieter ==
  ASSUME PageTypes, NEW K, list' = Invalidated(K)
  PROVE  Quieter
  <1>1. DOMAIN list' = Kinds
    BY DEF Invalidated
  <1>2. ASSUME NEW k \in Kinds
        PROVE  /\ list'[k] \in Query(k)
               /\ list'[k].data = list[k].data
               /\ list'[k].answer = list[k].answer \/ list'[k].answer = NoRows
    <2>1. CASE list'[k] = list[k]
      BY <2>1, QueryParts
    <2>2. CASE list'[k] = [list[k] EXCEPT !.fetch = "asked", !.answer = NoRows]
      <3>1. list[k] \in Query(k) /\ NoRows \in Views(k)
        BY QueryParts, NoRowsIsView
      <3> QED
        BY <2>2, <3>1 DEF Query
    <2> QED
      BY <1>1, <2>1, <2>2 DEF Invalidated
  <1> QED
    BY <1>1, <1>2 DEF Quieter

(* Rows that keep their statuses are no news, unless they become unread or recent. *)
SameNews ==
  /\ task' \in [Tasks -> Row]
  /\ \A t \in Tasks :
       /\ task'[t].status = task[t].status
       /\ \/ task'[t].read
          \/ ~task'[t].recent
          \/ task'[t].read = task[t].read /\ task'[t].recent = task[t].recent
  /\ UNCHANGED news

LEMMA SameRowsAreSameNews ==
  ASSUME PageTypes, UNCHANGED rowVars
  PROVE  SameNews
  BY DEF PageTypes, SameNews, rowVars

LEMMA MarkedIsSameNews ==
  ASSUME PageTypes, NEW T, Marked(T)
  PROVE  SameNews
  <1>1. \A t \in Tasks : task[t] \in Row
    BY DEF PageTypes
  <1>2. \A t \in Tasks : Exists(t) \in BOOLEAN
    BY DEF Exists
  <1>3. ASSUME NEW t \in Tasks
        PROVE  /\ task'[t] \in Row /\ task'[t].status = task[t].status
               /\ task'[t].read \/ (task'[t].read = task[t].read /\ task'[t].recent = task[t].recent)
    <2>1. CASE t \in T
      <3>1. task'[t] = [task[t] EXCEPT !.read = TRUE, !.recent = @ \/ Exists(t)]
        BY <2>1 DEF Marked
      <3> QED
        BY <3>1, <1>1, <1>2 DEF Row
    <2>2. CASE t \notin T
      BY <2>2, <1>1 DEF Marked
    <2> QED
      BY <2>1, <2>2
  <1>4. task' \in [Tasks -> Row]
    BY <1>3 DEF Marked
  <1> QED
    BY <1>3, <1>4 DEF SameNews, Marked

(* Steps that neither tell nor have anything to tell. *)
LEMMA QuietSteps ==
  ASSUME PageTypes, ListenerOK, OwesOK(list), Quieter, SameNews, UNCHANGED <<listener, told>>
  PROVE  PageTypes' /\ ListenerOK' /\ OwesOK(list)'
  <1>1. PageTypes' /\ ListenerOK'
    BY DEF PageTypes, ListenerOK, Quieter, SameNews
  <1>2. ASSUME NEW t \in Tasks, NEW s \in Finished
        PROVE  Owes(list, t, s)'
    <2> DEFINE k == Kind(t)
    <2>1. k \in Kinds
      BY KindOf
    <2>2. Owes(list, t, s) /\ told[t][s] \in Nat /\ news[t][s] \in Nat
      BY DEF OwesOK, PageTypes
    <2>3. /\ list'[k].data = list[k].data
          /\ list'[k].answer = list[k].answer \/ DOMAIN list'[k].answer = {}
      BY <2>1, NoRowsIsView DEF Quieter
    <2>4. /\ task'[t].status = task[t].status
          /\ Surprise(t, task[t], s)' =< Surprise(t, task[t], s)
          /\ news' = news
      BY DEF SameNews, Surprise
    <2>7. /\ list'[Kind(t)].data = list[Kind(t)].data
          /\ UNCHANGED <<listener, told, news>>
      BY <2>3, <2>4
    <2> HIDE DEF k
    <2>8. CASE list'[k].answer = list[k].answer
      <3>1. list'[Kind(t)].answer = list[Kind(t)].answer
        BY <2>8 DEF k
      <3> QED
        BY <2>2, <2>4, <2>7, <3>1 DEF Owes, Through, After, Turn, Surprise
    <2>9. CASE DOMAIN list'[k].answer = {}
      <3>1. DOMAIN list'[Kind(t)].answer = {}
        BY <2>9 DEF k
      <3> QED
        BY <2>2, <2>4, <2>7, <3>1 DEF Owes, Through, After, Turn, Surprise
    <2> QED
      BY <2>3, <2>8, <2>9
  <1> QED
    BY <1>1, <1>2 DEF OwesOK

(* A row is written: what turns is news. *)
LEMMA WriteSteps ==
  ASSUME PageTypes, ListenerOK, OwesOK(list), NEW u \in Tasks, NEW st \in Statuses, Write(u, st),
         st \in Finished => task[u].status # st, UNCHANGED pageVars
  PROVE  PageTypes' /\ ListenerOK' /\ OwesOK(list)'
  <1>1. \A t \in Tasks : task[t] \in Row
    BY DEF PageTypes
  <1>2. /\ task' \in [Tasks -> Row]
        /\ task'[u].status = st /\ task'[u].read = task[u].read
        /\ \A t \in Tasks \ {u} : task'[t] = task[t]
    <2>1. [task[u] EXCEPT !.status = st, !.recent = TRUE] \in Row
      BY <1>1 DEF Row
    <2> QED
      BY <2>1, <1>1 DEF Write, PageTypes, Row
  <1>3. /\ news' \in [Tasks -> [Finished -> Nat]]
        /\ \A t \in Tasks, s \in Finished :
             news'[t][s] = IF t = u /\ s = st THEN news[t][s] + 1 ELSE news[t][s]
    <2>1. \A t \in Tasks, s \in Finished : news[t] \in [Finished -> Nat] /\ news[t][s] \in Nat
      BY DEF PageTypes
    <2>2. CASE st \in Finished
      <3>1. news' = [news EXCEPT ![u][st] = @ + 1]
        BY <2>2 DEF Write
      <3>2. [news[u] EXCEPT ![st] = @ + 1] \in [Finished -> Nat]
        BY <2>1, <2>2
      <3> QED
        BY <2>1, <2>2, <3>1, <3>2 DEF PageTypes
    <2>3. CASE st \notin Finished
      BY <2>3 DEF Write, PageTypes
    <2> QED
      BY <2>2, <2>3
  <1>4. UNCHANGED <<list, listener, told>>
    BY DEF pageVars
  <1>5. PageTypes' /\ ListenerOK'
    BY <1>2, <1>3, <1>4 DEF PageTypes, ListenerOK
  <1>6. ASSUME NEW t \in Tasks, NEW s \in Finished
        PROVE  Owes(list, t, s)'
    <2>1. Owes(list, t, s) /\ told[t][s] \in Nat /\ news[t][s] \in Nat
      BY DEF OwesOK, PageTypes
    <2>2. CASE t # u
      BY <2>1, <2>2, <1>2, <1>3, <1>4 DEF Owes, Through, After, Turn, Surprise
    <2>3. CASE t = u /\ s # st
      BY <2>1, <2>3, <1>2, <1>3, <1>4 DEF Owes, Through, After, Turn, Surprise
    <2>4. CASE t = u /\ s = st
      <3>1. task[t].status # s /\ task'[t].status = s /\ news'[t][s] = news[t][s] + 1
        BY <2>4, <1>2, <1>3
      <3> QED
        BY <2>1, <3>1, <1>4 DEF Owes, Through, After, Turn, Surprise
    <2> QED
      BY <2>2, <2>3, <2>4
  <1> QED
    BY <1>5, <1>6 DEF OwesOK

(* The server answers with the rows as they are. *)
LEMMA AnswerSteps ==
  ASSUME PageTypes, ListenerOK, OwesOK(list), NEW k \in Kinds, Answer(k)
  PROVE  PageTypes' /\ ListenerOK' /\ OwesOK(list)'
  <1>1. UNCHANGED <<task, news, listener, told>>
    BY DEF Answer, rowVars
  <1>2. /\ DOMAIN list' = Kinds
        /\ list'[k].data = list[k].data /\ list'[k].answer = List(k) /\ list'[k] \in Query(k)
        /\ \A j \in Kinds \ {k} : list'[j] = list[j]
    <2>1. List(k) \in Views(k)
      BY ListIsView DEF PageTypes
    <2>2. list[k] \in Query(k) /\ DOMAIN list = Kinds
      BY DEF PageTypes
    <2>3. list'[k] = [list[k] EXCEPT !.fetch = "answered", !.answer = List(k)]
      BY <2>2 DEF Answer
    <2> QED
      BY <2>1, <2>2, <2>3 DEF Answer, Query
  <1>3. PageTypes' /\ ListenerOK'
    BY <1>1, <1>2 DEF PageTypes, ListenerOK
  <1>4. ASSUME NEW t \in Tasks, NEW s \in Finished
        PROVE  Owes(list, t, s)'
    <2>1. Owes(list, t, s) /\ told[t][s] \in Nat /\ news[t][s] \in Nat
      BY DEF OwesOK, PageTypes
    <2>2. CASE Kind(t) # k
      <3>1. list'[Kind(t)] = list[Kind(t)]
        BY <2>2, <1>2, KindOf
      <3> QED
        BY <2>1, <3>1, <1>1 DEF Owes, Through, After, Turn, Surprise
    <2>3. CASE Kind(t) = k
      <3>1. \A u \in DOMAIN List(k) : List(k)[u] = task[u]
        BY ListIsView DEF PageTypes
      <3>2. /\ list'[Kind(t)].data = list[Kind(t)].data
            /\ t \in DOMAIN list'[Kind(t)].answer => list'[Kind(t)].answer[t] = task[t]
        BY <2>3, <1>2, <3>1
      <3> QED
        BY <2>1, <3>2, <1>1 DEF Owes, Through, After, Turn, Surprise
    <2> QED
      BY <2>2, <2>3
  <1> QED
    BY <1>3, <1>4 DEF OwesOK

(* The listener tells what has turned since it looked last, and of tasks that are new
   to it, what is recent. *)
LEMMA ListenSteps ==
  ASSUME PageTypes, ListenerOK, DOMAIN list' = Kinds, \A k \in Kinds : list'[k] \in Query(k),
         \A t \in Tasks, s \in Finished : Owes(list', t, s),
         Listen(list'), UNCHANGED rowVars
  PROVE  PageTypes' /\ ListenerOK' /\ OwesOK(list)'
  <1>1. UNCHANGED <<task, news>>
    BY DEF rowVars
  <1>2. CASE Loading(list')
    <2>1. UNCHANGED <<listener, told>>
      BY <1>2 DEF Listen
    <2>2. PageTypes' /\ ListenerOK'
      BY <1>1, <2>1 DEF PageTypes, ListenerOK
    <2>3. ASSUME NEW t \in Tasks, NEW s \in Finished
          PROVE  Owes(list, t, s)'
      <3>1. Owes(list', t, s)
        OBVIOUS
      <3> QED
        BY <3>1, <1>1, <2>1 DEF Owes, Through, After, Turn, Surprise
    <2> QED
      BY <2>2, <2>3 DEF OwesOK
  <1>3. CASE ~Loading(list')
    <2> DEFINE rows == Unread(list')
    <2>1. /\ listener' = [ready |-> TRUE, prev |-> rows, known |-> DOMAIN rows \cup listener.known]
          /\ told' = IF ~listener.ready THEN told
                     ELSE [t \in Tasks |-> [s \in Finished |->
                            IF t \in DOMAIN rows /\ rows[t].status = s /\ Announces(t, rows[t])
                            THEN told[t][s] + 1 ELSE told[t][s]]]
      BY <1>3 DEF Listen
    <2>2. \A t \in Tasks : t \in DOMAIN rows =>
            /\ t \in DOMAIN list'[Kind(t)].data
            /\ rows[t] = list'[Kind(t)].data[t] /\ ~rows[t].read
      <3> SUFFICES ASSUME NEW t \in Tasks, t \in DOMAIN rows
                   PROVE  /\ t \in DOMAIN list'[Kind(t)].data
                          /\ rows[t] = list'[Kind(t)].data[t] /\ ~rows[t].read
        OBVIOUS
      <3>1. \A k \in Kinds : DOMAIN list'[k].data \subseteq Of(k)
        BY ViewRows DEF Query
      <3>2. PICK k \in Kinds : t \in DOMAIN list'[k].data
        BY DEF Unread
      <3>3. Kind(t) = k
        BY <3>1, <3>2, KindOf, TasksAssumption DEF Of, Kinds
      <3> QED
        BY <3>2, <3>3 DEF Unread
    <2>3. \A t \in Tasks, s \in Finished :
            told'[t][s] = IF /\ listener.ready /\ t \in DOMAIN rows /\ rows[t].status = s
                             /\ Announces(t, rows[t])
                          THEN told[t][s] + 1 ELSE told[t][s]
      BY <2>1
    <2> HIDE DEF rows
    <2>4. \A t \in Tasks, s \in Finished : told[t][s] \in Nat /\ told'[t][s] \in Nat
      BY <2>3 DEF PageTypes
    <2>5. told' \in [Tasks -> [Finished -> Nat]]
      <3>1. CASE ~listener.ready
        BY <2>1, <3>1 DEF PageTypes
      <3>2. CASE listener.ready
        BY <2>1, <2>4, <3>2
      <3> QED
        BY <3>1, <3>2
    <2>6. PageTypes' /\ ListenerOK'
      BY <1>1, <2>1, <2>5 DEF PageTypes, ListenerOK
    <2>7. ASSUME NEW t \in Tasks, NEW s \in Finished
          PROVE  Owes(list, t, s)'
      <3>1. Owes(list', t, s) /\ told[t][s] \in Nat /\ news[t][s] \in Nat
        BY DEF PageTypes
      <3>2. /\ listener'.prev = rows /\ listener'.known = DOMAIN rows \cup listener.known
        BY <2>1
      <3>3. CASE t \notin DOMAIN rows
        BY <3>1, <3>2, <3>3, <1>1, <2>3 DEF Owes, Through, After, Turn, Surprise
      <3>4. CASE t \in DOMAIN rows
        <4>1. /\ t \in DOMAIN list'[Kind(t)].data
              /\ rows[t] = list'[Kind(t)].data[t] /\ ~rows[t].read
          BY <2>2, <3>4
        <4>2. CASE told'[t][s] = told[t][s]
          BY <3>1, <3>2, <3>4, <4>1, <4>2, <1>1 DEF Owes, Through, After, Turn, Surprise
        <4>3. CASE told'[t][s] # told[t][s]
          <5>1. told'[t][s] = told[t][s] + 1 /\ rows[t].status = s /\ Announces(t, rows[t])
            BY <2>3, <4>3
          <5>2. CASE t \in listener.known
            BY <5>1, <5>2, <3>1, <3>2, <3>4, <4>1, <1>1
            DEF Announces, Owes, Through, After, Turn, Surprise
          <5>3. CASE t \notin listener.known
            BY <5>1, <5>3, <3>1, <3>2, <3>4, <4>1, <1>1
            DEF Announces, IsRecent, Owes, Through, After, Turn, Surprise
          <5> QED
            BY <5>2, <5>3
        <4> QED
          BY <4>2, <4>3
      <3> QED
        BY <3>3, <3>4
    <2> QED
      BY <2>6, <2>7 DEF OwesOK
  <1> QED
    BY <1>2, <1>3

LEMMA DeliverSteps ==
  ASSUME PageTypes, ListenerOK, OwesOK(list), NEW k \in Kinds, Deliver(k)
  PROVE  PageTypes' /\ ListenerOK' /\ OwesOK(list)'
  <1>1. /\ DOMAIN list' = Kinds
        /\ list'[k].data = list[k].answer /\ DOMAIN list'[k].answer = {} /\ list'[k] \in Query(k)
        /\ \A j \in Kinds \ {k} : list'[j] = list[j]
    <2>1. list[k] \in Query(k) /\ DOMAIN list = Kinds /\ list[k].answer \in Views(k)
      BY QueryParts DEF PageTypes
    <2>2. list'[k] = [loaded |-> TRUE, data |-> list[k].answer, fetch |-> "idle", answer |-> NoRows]
      BY <2>1 DEF Deliver
    <2> QED
      BY <2>1, <2>2, NoRowsIsView DEF Deliver, Query
  <1>2. \A j \in Kinds : list'[j] \in Query(j)
    BY <1>1 DEF PageTypes
  <1>3. ASSUME NEW t \in Tasks, NEW s \in Finished
        PROVE  Owes(list', t, s)
    <2>1. Owes(list, t, s) /\ told[t][s] \in Nat /\ news[t][s] \in Nat
      BY DEF OwesOK, PageTypes
    <2>2. CASE Kind(t) # k
      <3>1. list'[Kind(t)] = list[Kind(t)]
        BY <2>2, <1>1, KindOf
      <3> QED
        BY <2>1, <3>1 DEF Owes, Through, After, Turn, Surprise
    <2>3. CASE Kind(t) = k
      <3>1. list'[Kind(t)].data = list[Kind(t)].answer /\ DOMAIN list'[Kind(t)].answer = {}
        BY <2>3, <1>1
      <3> QED
        BY <2>1, <3>1 DEF Owes, Through, After, Turn, Surprise
    <2> QED
      BY <2>2, <2>3
  <1> QED
    BY <1>1, <1>2, <1>3, ListenSteps DEF Deliver

LEMMA FetchFailSteps ==
  ASSUME PageTypes, ListenerOK, OwesOK(list), NEW k \in Kinds, FetchFails(k)
  PROVE  PageTypes' /\ ListenerOK' /\ OwesOK(list)'
  <1>1. /\ DOMAIN list' = Kinds
        /\ list'[k].data = list[k].data /\ DOMAIN list'[k].answer = {} /\ list'[k] \in Query(k)
        /\ \A j \in Kinds \ {k} : list'[j] = list[j]
    <2>1. list[k] \in Query(k) /\ DOMAIN list = Kinds /\ NoRows \in Views(k)
      BY QueryParts, NoRowsIsView DEF PageTypes
    <2>2. list'[k] = [list[k] EXCEPT !.fetch = "idle", !.answer = NoRows]
      BY <2>1 DEF FetchFails
    <2> QED
      BY <2>1, <2>2, NoRowsIsView DEF FetchFails, Query
  <1>2. \A j \in Kinds : list'[j] \in Query(j)
    BY <1>1 DEF PageTypes
  <1>3. ASSUME NEW t \in Tasks, NEW s \in Finished
        PROVE  Owes(list', t, s)
    <2>1. Owes(list, t, s) /\ told[t][s] \in Nat /\ news[t][s] \in Nat
      BY DEF OwesOK, PageTypes
    <2>2. CASE Kind(t) # k
      <3>1. list'[Kind(t)] = list[Kind(t)]
        BY <2>2, <1>1, KindOf
      <3> QED
        BY <2>1, <3>1 DEF Owes, Through, After, Turn, Surprise
    <2>3. CASE Kind(t) = k
      <3>1. list'[Kind(t)].data = list[Kind(t)].data /\ DOMAIN list'[Kind(t)].answer = {}
        BY <2>3, <1>1
      <3> QED
        BY <2>1, <3>1 DEF Owes, Through, After, Turn, Surprise
    <2> QED
      BY <2>2, <2>3
  <1> QED
    BY <1>1, <1>2, <1>3, ListenSteps DEF FetchFails

(* Rows and lists grow old; a deleted job's row turns to nothing that is told. *)
LEMMA AgeSteps ==
  ASSUME PageTypes, ListenerOK, OwesOK(list), NEW u \in Tasks, Age(u)
  PROVE  PageTypes' /\ ListenerOK' /\ OwesOK(list)'
  <1> DEFINE k == Kind(u)
  <1>1. UNCHANGED <<news, listener, told>>
    BY DEF Age
  <1>2. k \in Kinds
    BY KindOf
  <1>3. /\ task' \in [Tasks -> Row]
        /\ \A t \in Tasks : /\ task'[t].status = task[t].status
                            /\ task'[t].read = task[t].read
                            /\ (task'[t].recent => task[t].recent)
    <2>1. \A t \in Tasks : task[t] \in Row /\ [task[t] EXCEPT !.recent = FALSE] \in Row
      BY DEF PageTypes, Row
    <2> QED
      BY <2>1 DEF Age, Aged, PageTypes, Row
  <1>4. list[k] \in Query(k) /\ DOMAIN list = Kinds /\ list[k].data \in Views(k)
    BY <1>2, QueryParts DEF PageTypes
  <1>5. list' = [list EXCEPT ![k].data = Aged(@, u)]
    BY DEF Age
  <1> HIDE DEF k
  <1>6. /\ DOMAIN list' = Kinds
        /\ \A j \in Kinds :
             /\ list'[j] \in Query(j) /\ list'[j].answer = list[j].answer
             /\ DOMAIN list'[j].data = DOMAIN list[j].data
             /\ \A t \in DOMAIN list[j].data :
                  /\ list'[j].data[t].status = list[j].data[t].status
                  /\ list'[j].data[t].read = list[j].data[t].read
                  /\ (list'[j].data[t].recent => list[j].data[t].recent)
    <2>1. list'[k] = [list[k] EXCEPT !.data = Aged(list[k].data, u)]
      BY <1>2, <1>4, <1>5
    <2>2. list'[k].data = Aged(list[k].data, u) /\ list'[k].answer = list[k].answer
      BY <1>4, <2>1 DEF Query
    <2>3. Aged(list[k].data, u) \in Views(k)
      BY <1>4, AgedIsView
    <2>4. list'[k] \in Query(k)
      BY <1>4, <2>1, <2>3 DEF Query
    <2>5. ASSUME NEW j \in Kinds, j # k
          PROVE  list'[j] = list[j] /\ list[j] \in Query(j) /\ list[j].data \in Views(j)
      BY <2>5, <1>4, <1>5, QueryParts
    <2>6. DOMAIN list' = Kinds
      BY <1>4, <1>5
    <2>7. ASSUME NEW j \in Kinds
          PROVE  /\ list'[j] \in Query(j) /\ list'[j].answer = list[j].answer
                 /\ DOMAIN list'[j].data = DOMAIN list[j].data
                 /\ \A t \in DOMAIN list[j].data :
                      /\ list'[j].data[t].status = list[j].data[t].status
                      /\ list'[j].data[t].read = list[j].data[t].read
                      /\ (list'[j].data[t].recent => list[j].data[t].recent)
      <3>1. CASE j = k
        <4>1. /\ DOMAIN Aged(list[k].data, u) = DOMAIN list[k].data
              /\ \A t \in DOMAIN list[k].data :
                   /\ Aged(list[k].data, u)[t].status = list[k].data[t].status
                   /\ Aged(list[k].data, u)[t].read = list[k].data[t].read
                   /\ (Aged(list[k].data, u)[t].recent => list[k].data[t].recent)
          BY <1>4, AgedIsView
        <4> QED
          BY <4>1, <3>1, <2>2, <2>4
      <3>2. CASE j # k
        BY <3>2, <2>5
      <3> QED
        BY <3>1, <3>2
    <2> QED
      BY <2>6, <2>7
  <1>7. PageTypes' /\ ListenerOK'
    BY <1>1, <1>3, <1>6 DEF PageTypes, ListenerOK
  <1>8. ASSUME NEW t \in Tasks, NEW s \in Finished
        PROVE  Owes(list, t, s)'
    <2>1. Owes(list, t, s) /\ told[t][s] \in Nat /\ news[t][s] \in Nat
      BY DEF OwesOK, PageTypes
    <2>2. /\ list'[Kind(t)].answer = list[Kind(t)].answer
          /\ DOMAIN list'[Kind(t)].data = DOMAIN list[Kind(t)].data
          /\ t \in DOMAIN list[Kind(t)].data =>
                  /\ list'[Kind(t)].data[t].status = list[Kind(t)].data[t].status
                  /\ list'[Kind(t)].data[t].read = list[Kind(t)].data[t].read
                  /\ (list'[Kind(t)].data[t].recent => list[Kind(t)].data[t].recent)
      BY <1>6, KindOf
    <2>3. /\ task'[t].status = task[t].status
          /\ task'[t].read = task[t].read
          /\ (task'[t].recent => task[t].recent)
      BY <1>3
    <2>4. CASE t \notin DOMAIN list[Kind(t)].data
      BY <2>1, <2>2, <2>3, <2>4, <1>1 DEF Owes, Through, After, Turn, Surprise
    <2>5. CASE t \in DOMAIN list[Kind(t)].data
      <3> DEFINE d == list[Kind(t)].data[t]
                 e == list'[Kind(t)].data[t]
      <3>1. /\ e.status = d.status /\ e.read = d.read /\ (e.recent => d.recent)
        BY <2>2, <2>5
      <3> QED
        BY <2>1, <2>2, <2>3, <2>5, <3>1, <1>1 DEF Owes, Through, After, Turn, Surprise
    <2> QED
      BY <2>4, <2>5
  <1> QED
    BY <1>7, <1>8 DEF OwesOK

LEMMA DeleteSteps ==
  ASSUME PageTypes, ListenerOK, OwesOK(list), NEW u \in Tasks, DeleteBook(u)
  PROVE  PageTypes' /\ ListenerOK' /\ OwesOK(list)'
  <1>1. UNCHANGED <<news, list, listener, told>>
    BY DEF DeleteBook, pageVars
  <1>2. /\ task' \in [Tasks -> Row]
        /\ task'[u].status = "gone"
        /\ \A t \in Tasks \ {u} : task'[t] = task[t]
    BY DEF DeleteBook, PageTypes, Row, NotAsked, Statuses
  <1>3. PageTypes' /\ ListenerOK'
    BY <1>1, <1>2 DEF PageTypes, ListenerOK
  <1>4. ASSUME NEW t \in Tasks, NEW s \in Finished
        PROVE  Owes(list, t, s)'
    <2>1. Owes(list, t, s) /\ told[t][s] \in Nat /\ news[t][s] \in Nat
      BY DEF OwesOK, PageTypes
    <2>2. task'[t] = task[t] \/ task'[t].status # s
      BY <1>2 DEF Finished
    <2> QED
      BY <2>1, <2>2, <1>1 DEF Owes, Through, After, Turn, Surprise
  <1> QED
    BY <1>3, <1>4 DEF OwesOK

-----------------------------------------------------------------------------
(* The uploads *)

LEMMA WorkerSet ==
  ASSUME NEW f \in Uploads, NEW u \in Upload(f), NEW i \in DOMAIN u.worker,
         NEW w \in PartWorker(f)
  PROVE  LET v == [u EXCEPT !.worker[i] = w] IN
         /\ v \in Upload(f)
         /\ v.at = u.at /\ v.next = u.next /\ v.fatal = u.fatal /\ v.sent = u.sent
         /\ DOMAIN v.worker = DOMAIN u.worker /\ v.worker[i] = w
         /\ \A j \in DOMAIN u.worker : j # i => v.worker[j] = u.worker[j]
  <1> DEFINE v == [u EXCEPT !.worker[i] = w]
             q == [u.worker EXCEPT ![i] = w]
  <1>1. u.worker \in Seq(PartWorker(f))
    BY DEF Upload
  <1>2. /\ q \in Seq(PartWorker(f)) /\ DOMAIN q = DOMAIN u.worker /\ q[i] = w
        /\ \A j \in DOMAIN u.worker : j # i => q[j] = u.worker[j]
    BY <1>1
  <1>3. v = [u EXCEPT !.worker = q]
    BY DEF Upload
  <1> HIDE DEF q
  <1>4. v \in Upload(f) /\ v.worker = q /\ v.at = u.at /\ v.next = u.next /\ v.fatal = u.fatal
        /\ v.sent = u.sent
    BY <1>2, <1>3 DEF Upload
  <1> QED
    BY <1>2, <1>4

LEMMA WorkerParts ==
  ASSUME NEW f \in Uploads, NEW u \in Upload(f), NEW i \in DOMAIN u.worker
  PROVE  /\ u.worker[i] \in PartWorker(f)
         /\ u.worker[i].at \in WorkerSteps /\ u.worker[i].part \in 0..Parts[f]
         /\ u.worker[i].tries \in 0..MaxAttempts
  <1>1. u.worker \in Seq(PartWorker(f))
    BY DEF Upload
  <1>2. u.worker[i] \in PartWorker(f)
    BY <1>1
  <1> QED
    BY <1>2 DEF PartWorker

LEMMA NewWorker ==
  ASSUME NEW f \in Uploads
  PROVE  /\ Worker \in PartWorker(f) /\ Worker.at = "done"
         /\ [Worker EXCEPT !.at = "threw"] \in PartWorker(f)
         /\ ~AtWork([Worker EXCEPT !.at = "threw"]) /\ ~AtWork(Worker)
         /\ \A p \in 1..Parts[f] : [at |-> "sending", part |-> p, tries |-> 1] \in PartWorker(f)
  BY ClientAssumption DEF Worker, PartWorker, WorkerSteps, AtWork

(* One worker of an upload that is not being completed goes on. *)
LEMMA WorkerMoves ==
  ASSUME NEW f \in Uploads, NEW u, NEW parts, UploadOK(f, u, parts), u.at # "completing",
         NEW i \in DOMAIN u.worker, NEW w \in PartWorker(f), AtWork(w) => w.part > 0
  PROVE  LET v == [u EXCEPT !.worker[i] = w] IN
         UploadOK(f, v, parts) /\ v.at = u.at /\ v.next = u.next /\ v.fatal = u.fatal
  <1> DEFINE v == [u EXCEPT !.worker[i] = w]
  <1>1. u \in Upload(f)
    BY DEF UploadOK
  <1>2. /\ v \in Upload(f)
        /\ v.at = u.at /\ v.next = u.next /\ v.fatal = u.fatal /\ v.sent = u.sent
        /\ DOMAIN v.worker = DOMAIN u.worker /\ v.worker[i] = w
        /\ \A j \in DOMAIN u.worker : j # i => v.worker[j] = u.worker[j]
    BY <1>1, WorkerSet
  <1> HIDE DEF v
  <1>3. UploadOK(f, v, parts)
    BY <1>2 DEF UploadOK
  <1> QED
    BY <1>2, <1>3 DEF v

LEMMA UploadGoes ==
  ASSUME NEW f \in Uploads, NEW u, NEW parts, UploadOK(f, u, parts),
         NEW p \in UploadSteps, p = "completing" => MayComplete(u, f)
  PROVE  UploadOK(f, [u EXCEPT !.at = p], parts)
  <1> DEFINE v == [u EXCEPT !.at = p]
  <1>1. v \in Upload(f) /\ v.at = p /\ v.worker = u.worker /\ v.sent = u.sent
    BY DEF UploadOK, Upload
  <1> HIDE DEF v
  <1>2. UploadOK(f, v, parts)
    BY <1>1 DEF UploadOK, MayComplete
  <1> QED
    BY <1>2 DEF v

LEMMA MissedOK ==
  ASSUME NEW f \in Uploads, NEW u, NEW parts, UploadOK(f, u, parts),
         NEW i \in DOMAIN u.worker, AtWork(u.worker[i])
  PROVE  UploadOK(f, Missed(u, i), parts)
  <1>1. u \in Upload(f) /\ u.at # "completing" /\ u.worker[i].part > 0
    BY DEF UploadOK, AtWork
  <1>2. CASE MayRetry(u.worker[i])
    <2> DEFINE w == [u.worker[i] EXCEPT !.at = "sending", !.tries = @ + 1]
    <2>1. w \in PartWorker(f) /\ w.part > 0
      <3>1. u.worker[i] \in PartWorker(f) /\ u.worker[i].tries \in 0..MaxAttempts
        BY <1>1, WorkerParts
      <3>2. u.worker[i].tries + 1 \in 0..MaxAttempts
        BY <1>2, <3>1, ClientAssumption DEF MayRetry
      <3>3. w \in PartWorker(f) /\ w.part = u.worker[i].part
        BY <3>1, <3>2 DEF PartWorker, WorkerSteps
      <3> QED
        BY <1>1, <3>3
    <2>2. Missed(u, i) = [u EXCEPT !.worker[i] = w]
      <3>1. u.worker \in Seq(PartWorker(f))
        BY <1>1 DEF Upload
      <3>2. u.worker[i] \in PartWorker(f)
        BY <1>1, WorkerParts
      <3>3. Missed(u, i) = [u EXCEPT !.worker[i].at = "sending", !.worker[i].tries = @ + 1]
        BY <1>2 DEF Missed
      <3>4. [u.worker EXCEPT ![i].at = "sending", ![i].tries = @ + 1] = [u.worker EXCEPT ![i] = w]
        BY <3>1, <3>2 DEF PartWorker
      <3>5. Missed(u, i) = [u EXCEPT !.worker = [u.worker EXCEPT ![i].at = "sending", ![i].tries = @ + 1]]
        BY <1>1, <3>1, <3>2, <3>3 DEF Upload, PartWorker
      <3> QED
        BY <1>1, <3>4, <3>5 DEF Upload
    <2> HIDE DEF w
    <2> QED
      BY <1>1, <2>1, <2>2, WorkerMoves
  <1>3. CASE ~MayRetry(u.worker[i])
    <2> DEFINE w == [Worker EXCEPT !.at = "threw"]
               v == [u EXCEPT !.worker[i] = w]
    <2>1. w \in PartWorker(f) /\ ~AtWork(w)
      BY NewWorker
    <2> HIDE DEF w
    <2>2. UploadOK(f, v, parts) /\ v.at = u.at
      BY <1>1, <2>1, WorkerMoves
    <2> HIDE DEF v
    <2>3. Missed(u, i) = [v EXCEPT !.fatal = TRUE, !.at = IF v.at = "parts" THEN "aborting" ELSE v.at]
      BY <1>1, <1>3, <2>2 DEF Missed, v, w, Upload
    <2>4. [v EXCEPT !.fatal = TRUE] \in Upload(f)
      BY <2>2 DEF UploadOK, Upload
    <2> DEFINE x == [v EXCEPT !.fatal = TRUE]
    <2>5. UploadOK(f, x, parts)
      BY <2>2, <2>4 DEF UploadOK, Upload
    <2>6. CASE v.at = "parts"
      <3>1. Missed(u, i) = [x EXCEPT !.at = "aborting"]
        BY <2>2, <2>3, <2>6 DEF UploadOK, Upload
      <3>2. "aborting" \in UploadSteps /\ "aborting" # "completing"
        BY DEF UploadSteps
      <3> HIDE DEF x
      <3>3. UploadOK(f, [x EXCEPT !.at = "aborting"], parts)
        BY <2>5, <3>2, UploadGoes
      <3> QED
        BY <3>1, <3>3
    <2>7. CASE v.at # "parts"
      <3>1. Missed(u, i) = x
        BY <2>2, <2>3, <2>7 DEF UploadOK, Upload
      <3> QED
        BY <2>5, <3>1
    <2> QED
      BY <2>6, <2>7
  <1> QED
    BY <1>2, <1>3

LEMMA ClaimsOK ==
  ASSUME NEW f \in Uploads, NEW u, NEW parts, UploadOK(f, u, parts), u.at # "completing",
         NEW i \in DOMAIN u.worker
  PROVE  UploadOK(f, Claims(u, f, i), parts)
  <1>1. u \in Upload(f) /\ u.next \in Nat \ {0} /\ Parts[f] \in Nat
    BY ClientAssumption DEF UploadOK, Upload
  <1>2. CASE u.fatal \/ u.next > Parts[f]
    <2>1. Claims(u, f, i) = [u EXCEPT !.worker[i] = Worker]
      BY <1>2 DEF Claims
    <2>2. Worker \in PartWorker(f) /\ ~AtWork(Worker)
      BY NewWorker
    <2> QED
      BY <1>1, <2>1, <2>2, WorkerMoves
  <1>3. CASE ~(u.fatal \/ u.next > Parts[f])
    <2> DEFINE w == [at |-> "sending", part |-> u.next, tries |-> 1]
               v == [u EXCEPT !.worker[i] = w]
    <2>1. u.next \in 1..Parts[f]
      BY <1>1, <1>3
    <2>2. w \in PartWorker(f) /\ w.part > 0
      BY <1>1, <2>1, NewWorker
    <2> HIDE DEF w
    <2>3. UploadOK(f, v, parts) /\ v.at = u.at /\ v.next = u.next
      BY <1>1, <2>2, WorkerMoves
    <2>4. Claims(u, f, i) = [u EXCEPT !.worker[i] = w, !.next = @ + 1]
      BY <1>3 DEF Claims, w
    <2>5. Claims(u, f, i) = [v EXCEPT !.next = v.next + 1]
      BY <1>1, <2>3, <2>4 DEF Upload
    <2> HIDE DEF v
    <2>6. [v EXCEPT !.next = v.next + 1] \in Upload(f)
      <3>1. v \in Upload(f) /\ v.next + 1 \in Nat \ {0}
        BY <1>1, <2>3 DEF UploadOK
      <3> QED
        BY <3>1 DEF Upload
    <2> QED
      BY <2>3, <2>5, <2>6 DEF UploadOK, Upload
  <1> QED
    BY <1>2, <1>3

LEMMA AcknowledgedOK ==
  ASSUME NEW f \in Uploads, NEW u, NEW parts, UploadOK(f, u, parts),
         NEW i \in DOMAIN u.worker, AtWork(u.worker[i])
  PROVE  UploadOK(f, Acknowledged(u, f, i), parts \cup {u.worker[i].part})
  <1> DEFINE p == u.worker[i].part
             v == [u EXCEPT !.sent = @ \cup {p}]
  <1>1. u \in Upload(f) /\ u.at # "completing" /\ u.worker[i].part > 0
    BY DEF UploadOK, AtWork
  <1>2. p \in 1..Parts[f]
    BY <1>1, WorkerParts, ClientAssumption
  <1> HIDE DEF p
  <1>3. v \in Upload(f) /\ v.at = u.at /\ v.worker = u.worker /\ v.sent = u.sent \cup {p}
    BY <1>1, <1>2 DEF Upload
  <1>4. Acknowledged(u, f, i) = Claims(v, f, i)
    BY DEF Acknowledged, p
  <1> HIDE DEF v
  <1>5. UploadOK(f, v, parts \cup {p})
    BY <1>1, <1>2, <1>3 DEF UploadOK
  <1>6. UploadOK(f, Claims(v, f, i), parts \cup {p})
    BY <1>1, <1>3, <1>5, ClaimsOK
  <1> QED
    BY <1>4, <1>6 DEF p

LEMMA MorePartsOK ==
  ASSUME NEW f \in Uploads, NEW u, NEW parts, UploadOK(f, u, parts), NEW p \in 1..Parts[f]
  PROVE  UploadOK(f, u, parts \cup {p})
  BY DEF UploadOK

LEMMA StartedOK ==
  ASSUME NEW f \in Uploads, NEW parts, parts \subseteq 1..Parts[f]
  PROVE  UploadOK(f, Started(f), parts)
  <1>1. Parts[f] \in Nat \ {0} /\ Size(f) \in Nat /\ Size(f) <= Parts[f]
    BY ClientAssumption DEF Size
  <1> DEFINE ws == [i \in 1..Size(f) |-> [at |-> "sending", part |-> i, tries |-> 1]]
  <1>2. \A i \in 1..Size(f) : [at |-> "sending", part |-> i, tries |-> 1] \in PartWorker(f)
    <2>1. \A i \in 1..Size(f) : i \in 1..Parts[f]
      BY <1>1
    <2> QED
      BY <2>1, NewWorker
  <1>3. /\ ws \in Seq(PartWorker(f))
        /\ \A i \in DOMAIN ws : ws[i].part > 0
    BY <1>1, <1>2
  <1>4. Started(f) = [at |-> "parts", next |-> Size(f) + 1, fatal |-> FALSE, sent |-> {},
                      worker |-> ws]
    BY DEF Started
  <1> HIDE DEF ws
  <1>5. Started(f) \in Upload(f)
    BY <1>1, <1>3, <1>4 DEF Upload, UploadSteps
  <1> QED
    BY <1>3, <1>4, <1>5 DEF UploadOK

(* Steps that replace one upload, and that add a part at most. *)
LEMMA UploadSteps1 ==
  ASSUME UploadsOK, NEW f \in Uploads, NEW v, up' = [up EXCEPT ![f] = v],
         UploadOK(f, v, got'[f]), DOMAIN got' = Uploads, \A g \in Uploads \ {f} : got'[g] = got[g]
  PROVE  UploadsOK'
  <1>1. /\ DOMAIN up' = Uploads /\ up'[f] = v
        /\ \A g \in Uploads \ {f} : up'[g] = up[g]
    BY DEF UploadsOK
  <1> QED
    BY <1>1 DEF UploadsOK

LEMMA SameUploads ==
  ASSUME UploadsOK, UNCHANGED <<up, got>>
  PROVE  UploadsOK'
  BY DEF UploadsOK

LEMMA GoesOK ==
  ASSUME UploadsOK, NEW f \in Uploads, NEW p \in UploadSteps, Goes(f, p), UNCHANGED got,
         p = "completing" => MayComplete(up[f], f)
  PROVE  UploadsOK'
  <1>1. UploadOK(f, up[f], got[f]) /\ DOMAIN up = Uploads /\ DOMAIN got = Uploads
    BY DEF UploadsOK
  <1>2. UploadOK(f, [up[f] EXCEPT !.at = p], got[f])
    BY <1>1, UploadGoes
  <1>3. up' = [up EXCEPT ![f] = [up[f] EXCEPT !.at = p]]
    BY <1>1 DEF Goes
  <1> QED
    BY <1>1, <1>2, <1>3, UploadSteps1

(* Every step of the client is one of these for the page... *)
RowWritten ==
  /\ \E t \in Tasks, s \in Statuses : Write(t, s) /\ (s \in Finished => task[t].status # s)
  /\ UNCHANGED pageVars

OtherPage == Quieter /\ SameNews /\ UNCHANGED <<listener, told>>

LEMMA UploadIsTask == Uploads \subseteq Tasks
  BY DEF Tasks

LEMMA WrittenIs ==
  ASSUME NEW t \in Tasks, NEW s \in Statuses, Write(t, s), s \in Finished => task[t].status # s,
         UNCHANGED pageVars
  PROVE  RowWritten
  BY DEF RowWritten

LEMMA UntouchedIs ==
  ASSUME PageTypes, UNCHANGED rowVars, UNCHANGED pageVars
  PROVE  OtherPage
  BY SameListIsQuieter, SameRowsAreSameNews DEF OtherPage, pageVars

(* ... and keeps the uploads as they should be. *)
LEMMA ClientSteps ==
  ASSUME Inv, NEW f \in Uploads,
         \/ InsertSession(f) \/ OpenSession(f) \/ Gather(f) \/ Complete(f) \/ Abort(f)
         \/ Settle(f) \/ Sweep(f) \/ SessionFails(f) \/ CompleteFails(f) \/ AbortFails(f)
  PROVE  (RowWritten \/ OtherPage) /\ UploadsOK'
  <1> USE UploadIsTask DEF Inv, Rest, NoWrite, Statuses, Running, Finished
  <1>1. UploadOK(f, up[f], got[f]) /\ DOMAIN up = Uploads /\ DOMAIN got = Uploads
    BY DEF UploadsOK
  <1>2. \A p \in {"completing", "aborting", "resolved", "rejected", "ended"} : p \in UploadSteps
    BY DEF UploadSteps
  <1>3. CASE InsertSession(f)
    <2>1. RowWritten
      BY <1>3, WrittenIs DEF InsertSession
    <2> QED
      BY <1>3, <2>1, SameUploads DEF InsertSession
  <1>4. CASE OpenSession(f)
    <2>1. RowWritten
      BY <1>4, WrittenIs DEF OpenSession
    <2>2. UploadOK(f, Started(f), got[f])
      BY <1>1, StartedOK DEF UploadOK
    <2>3. up' = [up EXCEPT ![f] = Started(f)] /\ got' = got
      BY <1>4 DEF OpenSession
    <2> QED
      BY <1>1, <2>1, <2>2, <2>3, UploadSteps1
  <1>5. CASE Gather(f)
    <2>1. OtherPage
      BY <1>5, UntouchedIs DEF Gather
    <2>2. UploadsOK'
      BY <1>2, <1>5, GoesOK DEF Gather
    <2> QED
      BY <2>1, <2>2
  <1>6. CASE Complete(f)
    <2>1. RowWritten \/ OtherPage
      BY <1>6, WrittenIs, UntouchedIs DEF Complete
    <2>2. \E p \in {"resolved", "aborting"} : Goes(f, p)
      BY <1>6 DEF Complete
    <2>3. UploadsOK'
      BY <1>2, <1>6, <2>2, GoesOK DEF Complete
    <2> QED
      BY <2>1, <2>3
  <1>7. CASE Abort(f)
    <2>1. RowWritten \/ OtherPage
      BY <1>7, WrittenIs, UntouchedIs DEF Abort
    <2>2. UploadsOK'
      BY <1>2, <1>7, GoesOK DEF Abort
    <2> QED
      BY <2>1, <2>2
  <1>8. CASE Settle(f)
    <2>1. OtherPage
      BY <1>8, InvalidatedIsQuieter, SameRowsAreSameNews DEF Settle, Refreshed, OtherPage
    <2>2. UploadsOK'
      BY <1>2, <1>8, GoesOK DEF Settle, Goes
    <2> QED
      BY <2>1, <2>2
  <1>9. CASE Sweep(f)
    <2>1. RowWritten
      BY <1>9, WrittenIs DEF Sweep
    <2> QED
      BY <1>9, <2>1, SameUploads DEF Sweep
  <1>10. CASE SessionFails(f)
    <2>1. RowWritten \/ OtherPage
      BY <1>10, WrittenIs, UntouchedIs DEF SessionFails
    <2>2. UploadsOK'
      BY <1>2, <1>10, GoesOK DEF SessionFails
    <2> QED
      BY <2>1, <2>2
  <1>11. CASE CompleteFails(f)
    <2>1. RowWritten \/ OtherPage
      BY <1>11, WrittenIs, UntouchedIs DEF CompleteFails
    <2>2. UploadsOK'
      BY <1>2, <1>11, GoesOK DEF CompleteFails
    <2> QED
      BY <2>1, <2>2
  <1>12. CASE AbortFails(f)
    <2>1. OtherPage
      BY <1>12, UntouchedIs DEF AbortFails
    <2>2. UploadsOK'
      BY <1>2, <1>12, GoesOK DEF AbortFails
    <2> QED
      BY <2>1, <2>2
  <1> QED
    BY <1>3, <1>4, <1>5, <1>6, <1>7, <1>8, <1>9, <1>10, <1>11, <1>12

LEMMA PartStored ==
  ASSUME UploadsOK, NEW f \in Uploads, NEW i \in DOMAIN up[f].worker, AtWork(up[f].worker[i]),
         StorePart(f, i)
  PROVE  /\ up[f].worker[i].part \in 1..Parts[f]
         /\ got'[f] = got[f] \cup {up[f].worker[i].part}
         /\ DOMAIN got' = Uploads /\ \A g \in Uploads \ {f} : got'[g] = got[g]
  <1>1. up[f] \in Upload(f) /\ up[f].worker[i].part > 0
    BY DEF UploadsOK, UploadOK
  <1>2. up[f].worker[i].part \in 0..Parts[f] /\ Parts[f] \in Nat
    BY <1>1, WorkerParts, ClientAssumption
  <1> QED
    BY <1>1, <1>2 DEF StorePart, UploadsOK

LEMMA WorkerStepsOK ==
  ASSUME Inv, NEW f \in Uploads, NEW i, BeginPart(f, i) \/ EndPart(f, i) \/ PartFails(f, i)
  PROVE  (RowWritten \/ OtherPage) /\ UploadsOK'
  <1> USE UploadIsTask DEF Inv, Rest, NoWrite, Statuses, Running, Finished
  <1>1. UploadOK(f, up[f], got[f]) /\ DOMAIN up = Uploads /\ DOMAIN got = Uploads
    BY DEF UploadsOK
  <1>2. i \in DOMAIN up[f].worker /\ AtWork(up[f].worker[i])
    BY DEF BeginPart, EndPart, PartFails, Sends, AtWork
  <1>3. UploadOK(f, Missed(up[f], i), got[f])
    BY <1>1, <1>2, MissedOK
  <1>4. CASE BeginPart(f, i)
    <2>1. OtherPage
      BY <1>4, UntouchedIs DEF BeginPart
    <2>2. got' = got
      BY <1>4 DEF BeginPart
    <2>3. CASE up' = [up EXCEPT ![f] = Missed(up[f], i)]
      BY <1>1, <1>3, <2>1, <2>2, <2>3, UploadSteps1
    <2>4. CASE up' = [up EXCEPT ![f] = [up[f] EXCEPT !.worker[i].at = "serving"]]
      <3> DEFINE w == [up[f].worker[i] EXCEPT !.at = "serving"]
      <3>1. up[f] \in Upload(f) /\ up[f].at # "completing" /\ up[f].worker[i].part > 0
        BY <1>1, <1>2 DEF UploadOK, AtWork
      <3>2. up[f].worker[i] \in PartWorker(f)
        BY <1>2, <3>1, WorkerParts
      <3>3. w \in PartWorker(f) /\ w.part > 0
        BY <3>1, <3>2 DEF PartWorker, WorkerSteps
      <3>4. [up[f] EXCEPT !.worker[i].at = "serving"] = [up[f] EXCEPT !.worker[i] = w]
        BY <3>1, <1>2 DEF Upload
      <3> HIDE DEF w
      <3>5. UploadOK(f, [up[f] EXCEPT !.worker[i] = w], got[f])
        BY <1>1, <1>2, <3>1, <3>3, WorkerMoves
      <3> QED
        BY <1>1, <2>1, <2>2, <2>4, <3>4, <3>5, UploadSteps1
    <2> QED
      BY <1>1, <1>4, <2>3, <2>4 DEF BeginPart
  <1>5. CASE EndPart(f, i)
    <2>1. CASE StorePart(f, i) /\ up' = [up EXCEPT ![f] = Acknowledged(up[f], f, i)] /\ Rest
      <3>1. RowWritten
        BY <2>1, WrittenIs DEF StorePart
      <3>2. /\ got'[f] = got[f] \cup {up[f].worker[i].part}
            /\ DOMAIN got' = Uploads /\ \A g \in Uploads \ {f} : got'[g] = got[g]
        BY <1>2, <2>1, PartStored
      <3>3. UploadOK(f, Acknowledged(up[f], f, i), got'[f])
        BY <1>1, <1>2, <3>2, AcknowledgedOK
      <3> QED
        BY <2>1, <3>1, <3>2, <3>3, UploadSteps1
    <2>2. CASE up' = [up EXCEPT ![f] = Missed(up[f], i)] /\ got' = got /\ NoWrite /\ Rest
      <3>1. OtherPage
        BY <2>2, UntouchedIs
      <3> QED
        BY <1>1, <1>3, <2>2, <3>1, UploadSteps1
    <2> QED
      BY <1>1, <1>5, <2>1, <2>2 DEF EndPart
  <1>6. CASE PartFails(f, i)
    <2>1. up' = [up EXCEPT ![f] = Missed(up[f], i)]
      BY <1>1, <1>6 DEF PartFails
    <2>2. CASE NoWrite /\ got' = got
      <3>1. OtherPage
        BY <1>6, <2>2, UntouchedIs DEF PartFails
      <3> QED
        BY <1>1, <1>3, <2>1, <2>2, <3>1, UploadSteps1
    <2>3. CASE StorePart(f, i)
      <3>1. RowWritten
        BY <1>6, <2>3, WrittenIs DEF StorePart, PartFails
      <3>2. /\ up[f].worker[i].part \in 1..Parts[f]
            /\ got'[f] = got[f] \cup {up[f].worker[i].part}
            /\ DOMAIN got' = Uploads /\ \A g \in Uploads \ {f} : got'[g] = got[g]
        BY <1>2, <2>3, PartStored
      <3>3. UploadOK(f, Missed(up[f], i), got'[f])
        BY <1>3, <3>2, MorePartsOK
      <3> QED
        BY <2>1, <3>1, <3>2, <3>3, UploadSteps1
    <2> QED
      BY <1>6, <2>2, <2>3 DEF PartFails
  <1> QED
    BY <1>4, <1>5, <1>6

(* An upload that begins, whatever file the queue names. *)
LEMMA ProcessNextOK ==
  ASSUME Inv, ProcessNext
  PROVE  OtherPage /\ UploadsOK'
  <1>1. OtherPage
    BY SameListIsQuieter, SameRowsAreSameNews DEF Inv, ProcessNext, OtherPage
  <1>2. got' = got
    BY DEF ProcessNext
  <1>3. CASE UNCHANGED up
    BY <1>1, <1>2, <1>3, SameUploads DEF Inv
  <1>4. ASSUME NEW f, up' = [up EXCEPT ![f].at = "session"]
        PROVE  UploadsOK'
    <2>1. CASE f \in Uploads
      BY <1>2, <1>4, <2>1, GoesOK DEF Inv, Goes, UploadSteps
    <2>2. CASE f \notin Uploads
      BY <1>2, <1>4, <2>2 DEF Inv, UploadsOK
    <2> QED
      BY <2>1, <2>2
  <1>5. UNCHANGED up \/ \E f : up' = [up EXCEPT ![f].at = "session"]
    BY DEF ProcessNext
  <1> QED
    BY <1>1, <1>3, <1>4, <1>5

-----------------------------------------------------------------------------
(* What happens on the server and to the page without the client. *)

LEMMA ServerStepsOK ==
  ASSUME Inv, ServerSteps
  PROVE  RowWritten \/ OtherPage
  <1> USE DEF Inv, Statuses, Running, Finished
  <1> SUFFICES ASSUME NEW t \in Jobs,
                      JobStep(t) \/ JobInserted(t) \/ TriggerAnswered(t)
               PROVE  RowWritten \/ OtherPage
    BY DEF ServerSteps
  <1>1. t \in Tasks
    BY DEF Tasks, Jobs
  <1>2. CASE JobStep(t)
    BY <1>1, <1>2, WrittenIs DEF JobStep
  <1>3. CASE JobInserted(t)
    BY <1>1, <1>3, WrittenIs DEF JobInserted
  <1>4. CASE TriggerAnswered(t)
    BY <1>4, InvalidatedIsQuieter, SameRowsAreSameNews DEF TriggerAnswered, OtherPage
  <1> QED
    BY <1>2, <1>3, <1>4

LEMMA AnytimeOK ==
  ASSUME Inv, Anytime
  PROVE  \/ RowWritten \/ OtherPage
         \/ \E k \in Kinds : FetchFails(k)
         \/ \E t \in Tasks : DeleteBook(t) \/ Age(t)
  <1> USE DEF Inv, Statuses, Running, Finished
  <1>1. ASSUME NEW k \in Kinds, Ask(k)
        PROVE  OtherPage
    <2>1. DOMAIN list = Kinds /\ \A j \in Kinds : list[j] \in Query(j)
      BY DEF PageTypes
    <2>2. list'[k] = [list[k] EXCEPT !.fetch = "asked"] /\ DOMAIN list' = Kinds
          /\ \A j \in Kinds \ {k} : list'[j] = list[j]
      BY <1>1, <2>1 DEF Ask
    <2>3. list'[k] \in Query(k) /\ list'[k].data = list[k].data /\ list'[k].answer = list[k].answer
      BY <2>1, <2>2 DEF Query
    <2>4. Quieter
      BY <2>1, <2>2, <2>3 DEF Quieter
    <2> QED
      BY <1>1, <2>4, SameRowsAreSameNews DEF Ask, OtherPage
  <1>2. ASSUME NEW t \in Tasks, Trigger(t)
        PROVE  OtherPage
    BY <1>2, SameListIsQuieter, SameRowsAreSameNews DEF Trigger, OtherPage
  <1>3. ASSUME NEW t \in Tasks, JobInserted(t) \/ JobAgain(t)
        PROVE  RowWritten
    BY <1>3, WrittenIs DEF JobInserted, JobAgain, pageVars
  <1>4. ASSUME NEW t \in Tasks, ReadElsewhere(t)
        PROVE  OtherPage
    BY <1>4, SameListIsQuieter, MarkedIsSameNews DEF ReadElsewhere, OtherPage, pageVars
  <1>5. ASSUME MarkAsRead
        PROVE  OtherPage
    <2>1. \E T : Marked(T)
      BY <1>5 DEF MarkAsRead
    <2> QED
      BY <1>5, <2>1, InvalidatedIsQuieter, MarkedIsSameNews DEF MarkAsRead, OtherPage
  <1> QED
    BY <1>1, <1>2, <1>3, <1>4, <1>5 DEF Anytime, Refocus

LEMMA WatchOK ==
  ASSUME Inv, NEW k \in Kinds, Fetches(k)
  PROVE  OtherPage \/ Answer(k) \/ Deliver(k)
  <1>1. ASSUME Ask(k)
        PROVE  OtherPage
    <2>1. DOMAIN list = Kinds /\ \A j \in Kinds : list[j] \in Query(j)
      BY DEF Inv, PageTypes
    <2>2. list'[k] = [list[k] EXCEPT !.fetch = "asked"] /\ DOMAIN list' = Kinds
          /\ \A j \in Kinds \ {k} : list'[j] = list[j]
      BY <1>1, <2>1 DEF Ask
    <2>3. list'[k] \in Query(k) /\ list'[k].data = list[k].data /\ list'[k].answer = list[k].answer
      BY <2>1, <2>2 DEF Query
    <2>4. Quieter
      BY <2>1, <2>2, <2>3 DEF Quieter
    <2> QED
      BY <1>1, <2>4, SameRowsAreSameNews DEF Inv, Ask, OtherPage
  <1> QED
    BY <1>1 DEF Fetches

LEMMA PageStep ==
  ASSUME Inv, RowWritten \/ OtherPage
  PROVE  PageTypes' /\ ListenerOK' /\ OwesOK(list)'
  <1>1. CASE RowWritten
    <2>1. PICK t \in Tasks, s \in Statuses : Write(t, s) /\ (s \in Finished => task[t].status # s)
      BY <1>1 DEF RowWritten
    <2> QED
      BY <1>1, <2>1, WriteSteps DEF Inv, RowWritten
  <1>2. CASE OtherPage
    BY <1>2, QuietSteps DEF Inv, OtherPage
  <1> QED
    BY <1>1, <1>2

LEMMA StepInv ==
  ASSUME Inv, [Next]_vars
  PROVE  Inv'
  <1>1. CASE UNCHANGED clientVars /\ (RowWritten \/ OtherPage)
    BY <1>1, PageStep, SameUploads DEF Inv, clientVars
  <1>2. CASE UNCHANGED vars
    BY <1>1, <1>2, UntouchedIs DEF vars, toastVars, Inv
  <1>3. CASE AddFiles
    <2>1. OtherPage /\ UNCHANGED <<up, got>>
      BY <1>3, UntouchedIs DEF AddFiles, toastVars, Inv
    <2> QED
      BY <2>1, PageStep, SameUploads DEF Inv
  <1>4. CASE Work
    <2>1. CASE ProcessNext
      BY <2>1, ProcessNextOK, PageStep DEF Inv
    <2>2. ASSUME NEW f \in Uploads, NEW i, BeginPart(f, i) \/ EndPart(f, i)
          PROVE  Inv'
      BY <2>2, WorkerStepsOK, PageStep DEF Inv
    <2>3. ASSUME NEW f \in Uploads,
                 \/ InsertSession(f) \/ OpenSession(f) \/ Gather(f) \/ Complete(f) \/ Abort(f)
                 \/ Settle(f) \/ Sweep(f)
          PROVE  Inv'
      BY <2>3, ClientSteps, PageStep DEF Inv
    <2>4. CASE ServerSteps /\ UNCHANGED clientVars
      BY <1>1, <2>4, ServerStepsOK
    <2> QED
      BY <1>4, <2>1, <2>2, <2>3, <2>4 DEF Work
  <1>5. CASE Faults
    <2>1. ASSUME NEW f \in Uploads, NEW i, PartFails(f, i)
          PROVE  Inv'
      BY <2>1, WorkerStepsOK, PageStep DEF Inv
    <2>2. ASSUME NEW f \in Uploads, SessionFails(f) \/ CompleteFails(f) \/ AbortFails(f)
          PROVE  Inv'
      BY <2>2, ClientSteps, PageStep DEF Inv
    <2> QED
      BY <1>5, <2>1, <2>2 DEF Faults
  <1>6. CASE Anytime /\ UNCHANGED clientVars
    <2>1. ASSUME NEW k \in Kinds, FetchFails(k)
          PROVE  Inv'
      BY <1>6, <2>1, FetchFailSteps, SameUploads DEF Inv, clientVars
    <2>2. ASSUME NEW t \in Tasks, DeleteBook(t) \/ Age(t)
          PROVE  Inv'
      BY <1>6, <2>2, DeleteSteps, AgeSteps, SameUploads DEF Inv, clientVars
    <2> QED
      BY <1>1, <1>6, <2>1, <2>2, AnytimeOK
  <1>7. ASSUME NEW k \in Kinds, Watch(k)
        PROVE  Inv'
    <2>1. UNCHANGED clientVars /\ (OtherPage \/ Answer(k) \/ Deliver(k))
      BY <1>7, WatchOK DEF Watch
    <2>2. CASE Answer(k) \/ Deliver(k)
      BY <2>1, <2>2, AnswerSteps, DeliverSteps, SameUploads DEF Inv, clientVars
    <2> QED
      BY <1>1, <2>1, <2>2
  <1> QED
    BY <1>2, <1>3, <1>4, <1>5, <1>6, <1>7 DEF Next

LEMMA InitInv == Init => Inv
  <1> SUFFICES ASSUME Init PROVE Inv
    OBVIOUS
  <1>1. PICK rows \in [Tasks -> [status : {"none", "never"} \cup Finished, read : BOOLEAN,
                                 recent : BOOLEAN]] :
        \E files, spent : InitWith(rows, files, spent)
    BY DEF Init
  <1>2. PICK files, spent : InitWith(rows, files, spent)
    BY <1>1
  <1> USE <1>2 DEF InitWith, ToastInit
  <1>3. task \in [Tasks -> Row]
    BY DEF Row, Statuses
  <1>4. /\ \A k \in Kinds : /\ list[k] \in Query(k)
                            /\ DOMAIN list[k].data = {} /\ DOMAIN list[k].answer = {}
        /\ DOMAIN list = Kinds
    BY NoRowsIsView DEF Query, NewQuery, EmptyQuery
  <1>5. told \in [Tasks -> [Finished -> Nat]] /\ news \in [Tasks -> [Finished -> Nat]]
    BY DEF NoTally
  <1>6. PageTypes /\ ListenerOK
    BY <1>3, <1>4, <1>5, NoRowsIsView DEF PageTypes, ListenerOK
  <1>7. ASSUME NEW t \in Tasks, NEW s \in Finished
        PROVE  Owes(list, t, s)
    <2>1. told[t][s] = 0 /\ DOMAIN listener.prev = {}
      BY NoRowsIsView DEF NoTally
    <2>2. Surprise(t, task[t], s) <= news[t][s]
      BY DEF Surprise
    <2> QED
      BY <1>4, <1>5, <2>1, <2>2, KindOf DEF Owes, Surprise
  <1>8. ASSUME NEW f \in Uploads
        PROVE  UploadOK(f, up[f], got[f])
    <2>1. NoUpload \in Upload(f) /\ DOMAIN NoUpload.worker = {} /\ NoUpload.sent = {}
          /\ NoUpload.at = "none"
      BY DEF NoUpload, Upload, UploadSteps
    <2> QED
      BY <2>1 DEF UploadOK
  <1>9. UploadsOK
    BY <1>8 DEF UploadsOK
  <1> QED
    BY <1>6, <1>7, <1>9 DEF Inv, OwesOK

THEOREM Invariance == Spec => []Inv
  <1>1. Init => Inv
    BY InitInv
  <1>2. Inv /\ [Next]_vars => Inv'
    BY StepInv
  <1> QED
    BY <1>1, <1>2, PTL DEF Spec, Steps

(* An upload is completed only when R2 has every part of it and no worker is
   sending any more, whatever was tried again, given up or late
   (uploadBookWithMultipart). *)
THEOREM OnlyCompleteFilesAreCompleted == Spec => []CompleteSendsAll
  <1>1. Inv => CompleteSendsAll
    BY DEF Inv, UploadsOK, UploadOK, CompleteSendsAll
  <1> QED
    BY <1>1, Invariance, PTL

(* No page announces the end of a task more often than it ended, nor what had ended
   thirty seconds before the page came up, however its lists are asked for, fail,
   overtake each other and are cut (TaskToastListener). *)
THEOREM NothingIsToldTwice == Spec => []ToastsAreNews
  <1>1. Inv => ToastsAreNews
    <2> SUFFICES ASSUME Inv, NEW t \in Tasks, NEW s \in Finished
                 PROVE  told[t][s] <= news[t][s]
      BY DEF ToastsAreNews
    <2>1. Owes(list, t, s) /\ told[t][s] \in Nat /\ news[t][s] \in Nat
      BY DEF Inv, OwesOK, PageTypes
    <2> QED
      BY <2>1 DEF Owes, Surprise
  <1> QED
    BY <1>1, Invariance, PTL
=============================================================================
