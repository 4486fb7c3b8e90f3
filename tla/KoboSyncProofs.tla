---------------------------- MODULE KoboSyncProofs ----------------------------
(***************************************************************************)
(* Proofs about KoboSync and the ShelfLibrary it extends, for any number of  *)
(* books, shelves, requests and synchronisations: first what holds however   *)
(* they interleave, then what holds while they take turns.                  *)
(***************************************************************************)
EXTENDS KoboSync, SequenceTheorems, WellFoundedInduction, TLAPS

(***************************************************************************)
(* Types, with no time in any row, token or answer ahead of the clock.       *)
(***************************************************************************)
BookRow(c)    == [born : 0..c, modified : 0..c]
ShelfRow(c)   == [created : 0..c, updated : 0..c, deleted : 0..c, enabled : BOOLEAN,
                  disabled : 0..c]
ArchiveRow(c) == [is : BOOLEAN, at : 0..c]
Token(c)      == [modified : 0..c, created : 0..c, archive : 0..c, tags : 0..c]
Tag           == [on : BOOLEAN, books : SUBSET Books]

BookTable(c)    == [Books -> BookRow(c)]
ShelfTable(c)   == [Shelves -> ShelfRow(c)]
ArchiveTable(c) == [Books -> Seq(ArchiveRow(c))]
Places(c)       == [Books -> 0..c]
SomeShelves(c)  == UNION {[S -> ShelfRow(c)] : S \in SUBSET Shelves}
SomePlaces(c)   == UNION {[S -> Places(c)] : S \in SUBSET Shelves}
SomeTags        == UNION {[S -> SUBSET Books] : S \in SUBSET Shelves}

Statements == {"links", "insert", "member", "archived", "unarchive", "touch", "delete", "drop",
               "toggle", "row", "found", "enable", "removable", "spare", "discard", "modify",
               "upload"}

(* The order of a request's statements: which come first, and which have the one
   after them for certain. *)
Ordered(t) == \A i \in 1..Len(t) :
  /\ t[i] = "archived" => i < Len(t) /\ t[i + 1] = "unarchive"
  /\ t[i] = "delete" => i < Len(t) /\ t[i + 1] = "touch"
  /\ t[i] = "row" => i = 1 /\ 1 < Len(t) /\ t[2] = "found"
  /\ t[i] = "found" => i = 1 \/ (i = 2 /\ t[1] = "row")
  /\ t[i] = "enable" => i = 1
  /\ t[i] \in {"toggle", "discard", "modify", "upload"} => Len(t) = 1

Todos   == {t \in Seq(Statements) : Ordered(t)}
Task(c) == [todo : Todos, op : AllOps \cup {"none"}, shelf : SUBSET Shelves, books : SUBSET Books,
            fresh : SUBSET Books, was : BOOLEAN, at : 0..c]

ReadRec(c) == [shelf : SomeShelves(c) \cup {<<>>}, listed : SomePlaces(c) \cup {<<>>},
               synced : SUBSET Books, book : BookTable(c) \cup {<<>>},
               archive : ArchiveTable(c) \cup {<<>>}]
SyncRec(c) == [step : Steps, token : Token(c), read : ReadRec(c), next : Token(c),
               live : SUBSET Books, gone : SUBSET Books, fresh : SUBSET Books,
               tagged : SomeTags \cup {<<>>}, dropped : SUBSET Shelves,
               orphans : SUBSET Books, rows : SUBSET Books, now : 0..c,
               more : BOOLEAN, wanted : BOOLEAN, clean : BOOLEAN]
Seen == [enabled : SUBSET Shelves, on : SUBSET (Shelves \X Books), free : SUBSET Books]

LibraryTypes(c) ==
  /\ book \in BookTable(c)
  /\ shelf \in ShelfTable(c)
  /\ listed \in [Shelves -> Places(c)]
  /\ archive \in ArchiveTable(c)
  /\ task \in [Editors -> Task(c)]

DeviceTypes(c) ==
  /\ synced \in SUBSET Books
  /\ token \in Token(c)
  /\ has \in [Books -> {"unknown", "live", "archived"}]
  /\ tags \in [Shelves -> Tag]

SyncTypes(c) == sync \in [Syncs -> SyncRec(c)]

(* Counters, and what TypeOK says besides. *)
OtherTypes ==
  /\ clock \in Nat
  /\ edits \in 0..MaxEdits /\ deaths \in 0..MaxDeaths /\ losses \in 0..MaxLosses
  /\ quiet \in BOOLEAN
  /\ seen \in [Syncs -> Seen]
  /\ \A f \in DOMAIN token : token[f] % Second = 0
  /\ \A q \in Syncs :
       /\ sync[q].live \cup sync[q].gone \cup sync[q].fresh \cup sync[q].orphans \subseteq Readable
       /\ sync[q].rows \subseteq sync[q].orphans

(* What a synchronisation has read so far. *)
HasShelves  == {"listed", "synced", "books", "archived", "compute"}
HasListed   == {"synced", "books", "archived", "compute"}
HasBooks    == {"archived", "compute"}

ReadShape(q) ==
  LET r == sync[q].read IN
  /\ sync[q].step \in HasShelves => r.shelf \in SomeShelves(clock)
  /\ sync[q].step \in HasListed => r.listed \in SomePlaces(clock) /\ DOMAIN r.listed = DOMAIN r.shelf
  /\ sync[q].step \in HasBooks => r.book \in BookTable(clock)
  /\ sync[q].step = "compute" => r.archive \in ArchiveTable(clock)
  /\ sync[q].step \in {"shelves"} \cup HasShelves => sync[q].orphans = {}

(* It is contained in what there was to be seen meanwhile. *)
SeenOK(q) ==
  LET r == sync[q].read IN
  /\ sync[q].step \in HasShelves => DOMAIN r.shelf \subseteq seen[q].enabled
  /\ sync[q].step \in HasListed =>
       \A s \in DOMAIN r.shelf, b \in Books : r.listed[s][b] # 0 => <<s, b>> \in seen[q].on
  /\ sync[q].step = "compute" =>
       \A b \in Books : ~IsArchived(r.archive[b]) => b \in seen[q].free
  /\ sync[q].step = "idle" => sync[q] = NoSync
  /\ \A b \in sync[q].live :
       b \in seen[q].free /\ \E s \in seen[q].enabled : <<s, b>> \in seen[q].on

ReadsOK == \A q \in Syncs : ReadShape(q) /\ SeenOK(q)

SyncInvariant ==
  /\ OtherTypes
  /\ LibraryTypes(clock)
  /\ DeviceTypes(clock)
  /\ SyncTypes(clock)
  /\ ReadsOK

(***************************************************************************)
(* What holds while requests and synchronisations take turns                *)
(***************************************************************************)
Due1(e) == Head(task[e].todo)

(* A request that is under way has found what it is about to change as it is. *)
TaskOK(e) ==
  LET k == task[e] IN
  /\ k.todo # <<>> =>
       CASE Due1(e) = "discard" -> \E b \in Books : k.books = {b} /\ k.was = (archive[b] # <<>>)
         [] Due1(e) \in {"modify", "upload"} -> TRUE
         [] OTHER -> \E s \in Shelves :
              /\ k.shelf = {s}
              /\ shelf[s].created = 0 <=> Due1(e) \in {"row", "found"}
              /\ Due1(e) = "found" => k.at > 0
              /\ Due1(e) = "toggle" => k.was = shelf[s].enabled
              /\ Due1(e) \in {"toggle", "enable"} => shelf[s].deleted = 0
  /\ k.op # "upload" => k.books \cup k.fresh \subseteq Uploaded
  /\ k.op = "upload" => k.todo = <<"upload">>

(* The rows *)
RowOK(s) ==
  /\ On(s) \subseteq Uploaded
  /\ shelf[s].created = 0 => shelf[s].deleted = 0 /\ ~shelf[s].enabled /\ shelf[s].disabled = 0

OneArchiveRow == \A b \in Books : Len(archive[b]) =< 1

LibraryOK ==
  /\ \A e \in Editors : TaskOK(e)
  /\ \A s \in Shelves : RowOK(s)
  /\ OneArchiveRow

Given == Readable \cap Uploaded

(* What a synchronisation has read is what there is. *)
CurrentShelves == [s \in {u \in Shelves : Enabled(u)} |-> shelf[s]]
CurrentOK(q) ==
  LET r == sync[q].read IN
  /\ sync[q].step \in HasShelves => r.shelf = CurrentShelves
  /\ sync[q].step \in HasListed => r.listed = [s \in DOMAIN r.shelf |-> listed[s]]
  /\ sync[q].step \in {"books", "archived", "compute"} => r.synced = synced
  /\ sync[q].step \in HasBooks => r.book = book
  /\ sync[q].step = "compute" => r.archive = archive

Answering == {"dropped", "disabled", "orphans", "update", "insert", "mark", "answer"}
Writing   == {"orphans", "update", "insert", "mark", "answer"}

(* The orphans it has still to archive *)
Waiting(q) ==
  IF sync[q].step \in {"dropped", "disabled", "orphans", "update"} THEN sync[q].orphans
  ELSE IF sync[q].step = "insert" THEN sync[q].orphans \ sync[q].rows ELSE {}

(* The shelf has changed since the device's token. *)
TagNews(s, t) == shelf[s].updated > t \/ \E b \in Uploaded : listed[s][b] > t

AnswerOK(q) ==
  LET a == sync[q] IN
  a.step \in Answering =>
    /\ a.live \cup a.gone \subseteq Given /\ a.live \cap a.gone = {}
    /\ a.fresh \subseteq a.live \cup a.gone /\ a.orphans \subseteq a.gone
    /\ a.live \cup a.gone \subseteq synced \cup a.fresh
    /\ a.step = "answer" => a.fresh \subseteq synced
    /\ \A b \in a.live : b \in Offered /\ ~Archived(b)
    /\ \A b \in a.gone : Archived(b) \/ b \in Waiting(q)
    /\ a.step = "update" => a.rows = {b \in a.orphans : archive[b] # <<>>}
    /\ a.step = "insert" => a.rows = {b \in a.orphans : archive[b] # <<>>}
    /\ a.orphans # {} => a.now > token.archive
    /\ ~a.more => \A b \in Given \cap (Offered \cup synced) :
         \/ b \in a.live \cup a.gone
         \/ /\ b \in synced /\ (b \in Offered \/ Archived(b))
            /\ ArchivedAt(archive[b]) <= token.archive
    /\ DOMAIN a.tagged \subseteq Shelves
    /\ \A s \in DOMAIN a.tagged : Enabled(s) /\ a.tagged[s] = On(s) \cap Uploaded
    /\ \A s \in Shelves : Enabled(s) /\ TagNews(s, token.tags) => s \in DOMAIN a.tagged
    /\ a.step # "dropped" =>
         \A s \in Shelves : shelf[s].deleted > token.tags => s \in a.dropped
    /\ a.step \in Writing =>
         \A s \in Shelves : ~shelf[s].enabled /\ shelf[s].disabled > token.tags => s \in a.dropped

RunOK(q) == Running(q) =>
  /\ sync[q].token = token
  /\ losses = 0 => sync[q].wanted
  /\ CurrentOK(q)
  /\ AnswerOK(q)

InFlight(q, b) == sync[q].step = "answer" /\ b \in sync[q].live \cup sync[q].gone

Touches(e, s) == Busy(e) /\ Due1(e) = "touch" /\ task[e].shelf = {s}

(* A collection of the device is as the shelf is, or there is news of the shelf. *)
TagOK(s) ==
  tags[s].on =>
    /\ \/ tags[s].books = On(s) \cap Uploaded
       \/ TagNews(s, token.tags)
       \/ \E e \in Editors : Touches(e, s)
    /\ Enabled(s) \/ shelf[s].deleted > token.tags
         \/ (~shelf[s].enabled /\ shelf[s].disabled > token.tags)

(* The device *)
DeviceOK ==
  /\ synced \subseteq Given
  /\ \A b \in Books : has[b] # "unknown" => b \in synced
  /\ \A b \in Books : has[b] = "archived" => archive[b] # <<>>
  /\ losses = 0 => \A b \in synced : has[b] # "unknown" \/ \E q \in Syncs : InFlight(q, b)
  /\ deaths = 0 => \A s \in Shelves : TagOK(s)

TurnInvariant ==
  /\ LibraryOK
  /\ \A q \in Syncs : RunOK(q)
  /\ DeviceOK
  /\ NewBooksArrive
  /\ TagsAreCurrent

(* What holds of archived books besides: a change that the device has not seen is
   newer than its token, or was overtaken. *)
ArchiveOK ==
  /\ \A b \in Books \ passed :
       has[b] = "live" /\ Archived(b) => ArchivedAt(archive[b]) > token.archive
  /\ \A b \in Books \ passed :
       has[b] = "archived" => Archived(b) \/ ArchivedAt(archive[b]) > token.archive
  /\ RestoresArrive
  /\ RemovedBooksGo

-----------------------------------------------------------------------------
(* Numbers, sets and sequences *)

LEMMA Bounds ==
  /\ Gap \in Nat /\ Gap > 0 /\ Second \in Nat /\ Second > 0
  /\ MaxEdits \in Nat /\ MaxDeaths \in Nat /\ MaxLosses \in Nat
  /\ Readable \subseteq Books
  BY LibraryAssumption, SyncAssumption

(* A bounded set of numbers that is not empty has a greatest one. *)
LEMMA Greatest ==
  ASSUME NEW S, NEW N \in Nat, S \subseteq 0..N, S # {}
  PROVE  \E t \in S : \A u \in S : t >= u
  <1> DEFINE T == {N - x : x \in S}
  <1>1. \A x \in S : x \in Nat /\ x =< N /\ N - x \in Nat /\ N - x \in T
    OBVIOUS
  <1>2. T \subseteq Nat /\ T # {}
    BY <1>1
  <1>3. PICK m \in T : \A y \in T : ~(<<y, m>> \in OpToRel(<, Nat))
    <2> HIDE DEF T
    <2> QED
      BY <1>2, NatLessThanWellFounded, WFMin
  <1>4. \A y \in T : ~(y < m)
    BY <1>2, <1>3 DEF OpToRel
  <1>5. PICK t \in S : m = N - t
    OBVIOUS
  <1>6. ASSUME NEW u \in S PROVE t >= u
    <2>1. ~(N - u < N - t)
      BY <1>1, <1>4, <1>5
    <2> QED
      BY <1>1, <2>1
  <1> QED
    BY <1>6

LEMMA LatterIs ==
  ASSUME NEW N \in Nat, NEW t \in 0..N, NEW T, T \subseteq 0..N
  PROVE  Latter(t, T) \in 0..N /\ Latter(t, T) \in {t} \cup T /\ \A u \in {t} \cup T : u =< Latter(t, T)
  <1> DEFINE S == {t} \cup T
  <1>1. \E x \in S : \A u \in S : x >= u
    BY Greatest
  <1>2. Max(S) \in S /\ \A u \in S : Max(S) >= u
    BY <1>1 DEF Max
  <1>3. \A u \in S : u \in 0..N
    OBVIOUS
  <1> QED
    BY <1>2, <1>3 DEF Latter

LEMMA FloorIs ==
  ASSUME NEW N \in Nat, NEW t \in 0..N
  PROVE  Floor(t) \in 0..N /\ Floor(t) =< t /\ Floor(t) % Second = 0
  <1>1. t % Second \in 0..(Second - 1) /\ t = Second * (t \div Second) + (t % Second)
    BY Bounds
  <1>2. t % Second =< t
    BY Bounds
  <1>3. Floor(t) = Second * (t \div Second)
    BY <1>1, Bounds DEF Floor
  <1>4. (Second * (t \div Second)) % Second = 0
    BY Bounds
  <1> QED
    BY <1>1, <1>2, <1>3, <1>4, Bounds DEF Floor

-----------------------------------------------------------------------------
(* What has a type at one time has it later. *)

LEMMA RowsLater ==
  ASSUME NEW c \in Nat, NEW d \in Nat, c =< d
  PROVE  /\ 0..c \subseteq 0..d
         /\ BookRow(c) \subseteq BookRow(d) /\ ShelfRow(c) \subseteq ShelfRow(d)
         /\ ArchiveRow(c) \subseteq ArchiveRow(d) /\ Token(c) \subseteq Token(d)
         /\ Task(c) \subseteq Task(d)
  <1>1. 0..c \subseteq 0..d
    OBVIOUS
  <1>2. BookRow(c) \subseteq BookRow(d)
    BY <1>1 DEF BookRow
  <1>3. ShelfRow(c) \subseteq ShelfRow(d)
    BY <1>1 DEF ShelfRow
  <1>4. ArchiveRow(c) \subseteq ArchiveRow(d)
    BY <1>1 DEF ArchiveRow
  <1>5. Token(c) \subseteq Token(d)
    BY <1>1 DEF Token
  <1>6. Task(c) \subseteq Task(d)
    BY <1>1 DEF Task
  <1> QED
    BY <1>1, <1>2, <1>3, <1>4, <1>5, <1>6

LEMMA TablesLater ==
  ASSUME NEW c \in Nat, NEW d \in Nat, c =< d
  PROVE  /\ BookTable(c) \subseteq BookTable(d) /\ ShelfTable(c) \subseteq ShelfTable(d)
         /\ ArchiveTable(c) \subseteq ArchiveTable(d) /\ Places(c) \subseteq Places(d)
         /\ SomeShelves(c) \subseteq SomeShelves(d) /\ SomePlaces(c) \subseteq SomePlaces(d)
         /\ [Shelves -> Places(c)] \subseteq [Shelves -> Places(d)]
         /\ [Editors -> Task(c)] \subseteq [Editors -> Task(d)]
  <1> USE RowsLater
  <1>1. BookTable(c) \subseteq BookTable(d)
    BY DEF BookTable
  <1>2. ShelfTable(c) \subseteq ShelfTable(d)
    BY DEF ShelfTable
  <1>3. ArchiveTable(c) \subseteq ArchiveTable(d)
    <2>1. Seq(ArchiveRow(c)) \subseteq Seq(ArchiveRow(d))
      OBVIOUS
    <2> QED
      BY <2>1 DEF ArchiveTable
  <1>4. Places(c) \subseteq Places(d)
    BY DEF Places
  <1>5. SomeShelves(c) \subseteq SomeShelves(d)
    BY DEF SomeShelves
  <1>6. SomePlaces(c) \subseteq SomePlaces(d)
    BY <1>4 DEF SomePlaces
  <1>7. [Shelves -> Places(c)] \subseteq [Shelves -> Places(d)]
    BY <1>4
  <1>8. [Editors -> Task(c)] \subseteq [Editors -> Task(d)]
    OBVIOUS
  <1> QED
    BY <1>1, <1>2, <1>3, <1>4, <1>5, <1>6, <1>7, <1>8

LEMMA RecLater ==
  ASSUME NEW c \in Nat, NEW d \in Nat, c =< d
  PROVE  SyncRec(c) \subseteq SyncRec(d)
  <1>1. ReadRec(c) \subseteq ReadRec(d)
    BY TablesLater DEF ReadRec
  <1> USE <1>1, RowsLater
  <1> SUFFICES ASSUME NEW x \in SyncRec(c) PROVE x \in SyncRec(d)
    OBVIOUS
  <1> QED
    BY DEF SyncRec

LEMMA TypesLater ==
  ASSUME NEW c \in Nat, NEW d \in Nat, c =< d
  PROVE  /\ LibraryTypes(c) => LibraryTypes(d)
         /\ DeviceTypes(c) => DeviceTypes(d)
         /\ SyncTypes(c) => SyncTypes(d)
  <1>1. LibraryTypes(c) => LibraryTypes(d)
    BY TablesLater DEF LibraryTypes
  <1>2. DeviceTypes(c) => DeviceTypes(d)
    BY RowsLater DEF DeviceTypes
  <1>3. SyncTypes(c) => SyncTypes(d)
    BY RecLater DEF SyncTypes
  <1> QED
    BY <1>1, <1>2, <1>3

-----------------------------------------------------------------------------
(* The lists of statements *)

LEMMA NoTodo == <<>> \in Todos
  BY DEF Todos, Ordered

LEMMA OneTodo ==
  /\ <<"touch">> \in Todos /\ <<"drop">> \in Todos /\ <<"toggle">> \in Todos
  /\ <<"discard">> \in Todos /\ <<"modify">> \in Todos /\ <<"upload">> \in Todos
  BY DEF Todos, Ordered, Statements

LEMMA WebTodos ==
  /\ <<"links", "insert", "member", "archived", "unarchive", "touch">> \in Todos
  /\ <<"delete", "touch">> \in Todos /\ <<"row", "found">> \in Todos
  /\ <<"archived", "unarchive">> \in Todos
  BY DEF Todos, Ordered, Statements

LEMMA TagTodos ==
  /\ <<"links", "insert", "touch", "archived", "unarchive">> \in Todos
  /\ <<"removable", "spare", "delete", "touch">> \in Todos
  /\ <<"links", "insert", "touch">> \in Todos
  /\ <<"row", "found", "links", "insert", "touch">> \in Todos
  BY DEF Todos, Ordered, Statements

(* A tag request that has to enable the shelf does that first. *)
LEMMA EnableTodo ==
  ASSUME NEW t \in Todos, \A i \in 1..Len(t) : t[i] \notin {"toggle", "discard", "modify", "upload", "row", "found", "enable"}
  PROVE  <<"enable">> \o t \in Todos
  <1> DEFINE u == <<"enable">> \o t
  <1>1. t \in Seq(Statements) /\ Ordered(t)
    BY DEF Todos
  <1>2. u \in Seq(Statements) /\ Len(u) = Len(t) + 1 /\ u[1] = "enable"
        /\ \A i \in 2..Len(u) : u[i] = t[i - 1]
    BY <1>1 DEF Statements
  <1>3. Ordered(u)
    <2> SUFFICES ASSUME NEW i \in 1..Len(u)
                 PROVE  /\ u[i] = "archived" => i < Len(u) /\ u[i + 1] = "unarchive"
                        /\ u[i] = "delete" => i < Len(u) /\ u[i + 1] = "touch"
                        /\ u[i] = "row" => i = 1 /\ 1 < Len(u) /\ u[2] = "found"
                        /\ u[i] = "found" => i = 1 \/ (i = 2 /\ u[1] = "row")
                        /\ u[i] = "enable" => i = 1
                        /\ u[i] \in {"toggle", "discard", "modify", "upload"} => Len(u) = 1
      BY DEF Ordered
    <2> HIDE DEF u
    <2>1. CASE i = 1
      BY <2>1, <1>2
    <2>2. CASE i # 1
      <3>1. i - 1 \in 1..Len(t) /\ u[i] = t[i - 1] /\ Len(t) \in Nat
        BY <2>2, <1>1, <1>2
      <3>2. i - 1 < Len(t) => u[i + 1] = t[(i - 1) + 1] /\ i < Len(u)
        BY <3>1, <1>2
      <3> QED
        BY <1>1, <3>1, <3>2 DEF Ordered
    <2> QED
      BY <2>1, <2>2
  <1> QED
    BY <1>2, <1>3 DEF Todos

(* What comes after the statement that is due *)
LEMMA TailTodo ==
  ASSUME NEW t \in Todos, t # <<>>
  PROVE  /\ Tail(t) \in Todos /\ Head(t) \in Statements /\ Head(t) = t[1]
         /\ Head(t) = "delete" => Tail(t) # <<>> /\ Head(Tail(t)) = "touch"
         /\ Head(t) = "archived" => Tail(t) # <<>> /\ Head(Tail(t)) = "unarchive"
         /\ Head(t) = "row" => Tail(t) # <<>> /\ Head(Tail(t)) = "found"
         /\ Tail(t) # <<>> =>
              /\ Head(t) \notin {"toggle", "discard", "modify", "upload"}
              /\ Head(Tail(t)) \notin {"toggle", "discard", "modify", "upload", "row", "enable"}
              /\ Head(Tail(t)) = "found" => Head(t) = "row"
  <1> DEFINE u == Tail(t)
  <1>1. t \in Seq(Statements) /\ Ordered(t) /\ Len(t) \in Nat /\ Len(t) > 0
    BY DEF Todos
  <1>2. u \in Seq(Statements) /\ Len(u) = Len(t) - 1 /\ \A i \in 1..Len(u) : u[i] = t[i + 1]
    BY <1>1
  <1>3. Head(t) = t[1] /\ Head(t) \in Statements
    BY <1>1
  <1> HIDE DEF u
  <1>4. u # <<>> => Len(u) > 0 /\ Head(u) = u[1] /\ u[1] = t[2]
    BY <1>2
  <1>5. Len(u) > 0 => u # <<>>
    BY <1>2
  <1>6. Ordered(u)
    <2> SUFFICES ASSUME NEW i \in 1..Len(u)
                 PROVE  /\ u[i] = "archived" => i < Len(u) /\ u[i + 1] = "unarchive"
                        /\ u[i] = "delete" => i < Len(u) /\ u[i + 1] = "touch"
                        /\ u[i] = "row" => i = 1 /\ 1 < Len(u) /\ u[2] = "found"
                        /\ u[i] = "found" => i = 1 \/ (i = 2 /\ u[1] = "row")
                        /\ u[i] = "enable" => i = 1
                        /\ u[i] \in {"toggle", "discard", "modify", "upload"} => Len(u) = 1
      BY DEF Ordered
    <2>1. i + 1 \in 1..Len(t) /\ u[i] = t[i + 1]
      BY <1>1, <1>2
    <2>2. i + 1 < Len(t) => i < Len(u) /\ u[i + 1] = t[(i + 1) + 1]
      BY <1>1, <1>2
    <2>3. t[i + 1] \notin {"row", "enable", "toggle", "discard", "modify", "upload"}
      BY <2>1, <1>1 DEF Ordered
    <2>4. t[i + 1] = "found" => i = 1
      BY <2>1, <1>1 DEF Ordered
    <2> QED
      BY <1>1, <2>1, <2>2, <2>3, <2>4 DEF Ordered
  <1>7. u \in Todos
    BY <1>2, <1>6 DEF Todos
  <1>8. /\ Head(t) = "delete" => u # <<>> /\ Head(u) = "touch"
        /\ Head(t) = "archived" => u # <<>> /\ Head(u) = "unarchive"
        /\ Head(t) = "row" => u # <<>> /\ Head(u) = "found"
    BY <1>1, <1>2, <1>3, <1>4, <1>5 DEF Ordered
  <1>9. ASSUME u # <<>>
        PROVE  /\ Head(t) \notin {"toggle", "discard", "modify", "upload"}
               /\ Head(u) \notin {"toggle", "discard", "modify", "upload", "row", "enable"}
               /\ Head(u) = "found" => Head(t) = "row"
    <2>1. 1 \in 1..Len(t) /\ 2 \in 1..Len(t) /\ Len(t) # 1 /\ Head(u) = t[2]
      BY <1>9, <1>1, <1>2, <1>4
    <2> QED
      BY <2>1, <1>1, <1>3 DEF Ordered
  <1> QED
    BY <1>3, <1>7, <1>8, <1>9 DEF u

-----------------------------------------------------------------------------
(* The requests *)

(* What a request starts with: what it found, and what it will do about it. *)
Plan(op, todo, S, B, was) ==
  /\ op \in AllOps /\ todo \in Todos /\ todo # <<>> /\ S \subseteq Shelves /\ B \subseteq Books
  /\ was \in BOOLEAN
  /\ op # "upload" => B \subseteq Uploaded
  /\ op = "upload" => todo = <<"upload">>
  /\ CASE Head(todo) = "discard" -> \E b \in Books : B = {b} /\ was = (archive[b] # <<>>)
       [] Head(todo) \in {"modify", "upload"} -> TRUE
       [] OTHER -> \E s \in Shelves :
            /\ S = {s} /\ Head(todo) # "found"
            /\ shelf[s].created = 0 <=> Head(todo) = "row"
            /\ Head(todo) = "toggle" => was = shelf[s].enabled
            /\ Head(todo) \in {"toggle", "enable"} => shelf[s].deleted = 0

Starts(e) ==
  \E op, todo, S, B, was : Start(e, op, todo, S, B, was) /\ Plan(op, todo, S, B, was)

LEMMA ShortHeads ==
  /\ \A x \in Statements : <<x>> # <<>> /\ Head(<<x>>) = x
  /\ <<"touch">> # <<>> /\ Head(<<"touch">>) = "touch"
  /\ <<"drop">> # <<>> /\ Head(<<"drop">>) = "drop"
  /\ <<"toggle">> # <<>> /\ Head(<<"toggle">>) = "toggle"
  /\ <<"discard">> # <<>> /\ Head(<<"discard">>) = "discard"
  /\ <<"modify">> # <<>> /\ Head(<<"modify">>) = "modify"
  /\ <<"upload">> # <<>> /\ Head(<<"upload">>) = "upload"
  /\ <<"delete", "touch">> # <<>> /\ Head(<<"delete", "touch">>) = "delete"
  /\ <<"row", "found">> # <<>> /\ Head(<<"row", "found">>) = "row"
  /\ <<"archived", "unarchive">> # <<>>
  /\ Head(<<"archived", "unarchive">>) = "archived"
  OBVIOUS

LEMMA ShelfPlan ==
  ASSUME NEW op \in AllOps, op # "upload", NEW todo \in Todos, todo # <<>>,
         NEW s \in Shelves, NEW B, B \subseteq Uploaded, NEW was \in BOOLEAN,
         shelf[s].created = 0 <=> Head(todo) = "row",
         Head(todo) = "enable" => shelf[s].deleted = 0,
         Head(todo) \notin {"found", "toggle", "discard", "modify", "upload"}
  PROVE  Plan(op, todo, {s}, B, was)
  <1>1. B \subseteq Books
    BY DEF Uploaded
  <1> QED
    BY <1>1 DEF Plan

(* Ensured puts the enabling of the shelf first, if need be. *)
LEMMA EnsuredPlan ==
  ASSUME NEW op \in AllOps, op # "upload", NEW todo \in Todos, todo # <<>>,
         NEW s \in Shelves, NEW B, B \subseteq Uploaded,
         \A i \in 1..Len(todo) : todo[i] \notin {"toggle", "discard", "modify", "upload", "row", "found", "enable"},
         Exists(s)
  PROVE  Plan(op, Ensured(s, todo), {s}, B, FALSE)
  <1>1. todo \in Seq(Statements) /\ Len(todo) > 0 /\ Head(todo) = todo[1] /\ 1 \in 1..Len(todo)
    BY DEF Todos
  <1>2. CASE shelf[s].enabled
    <2>1. Ensured(s, todo) = todo
      BY <1>2 DEF Ensured
    <2>2. Head(todo) \notin {"toggle", "discard", "modify", "upload", "row", "found", "enable"}
      BY <1>1
    <2> QED
      BY <2>1, <2>2, ShelfPlan DEF Exists
  <1>3. CASE ~shelf[s].enabled
    <2> DEFINE u == <<"enable">> \o todo
    <2>1. Ensured(s, todo) = u
      BY <1>3 DEF Ensured
    <2>2. u \in Todos
      BY EnableTodo
    <2>3. u # <<>> /\ Head(u) = "enable"
      <3>1. Len(u) = Len(todo) + 1 /\ u[1] = "enable"
        BY <1>1
      <3> QED
        BY <3>1, <1>1, <2>2 DEF Todos
    <2> HIDE DEF u
    <2> QED
      BY <2>1, <2>2, <2>3, ShelfPlan DEF Exists
  <1> QED
    BY <1>2, <1>3

LEMMA TagLists ==
  LET Free(t) == \A i \in 1..Len(t) :
        t[i] \notin {"toggle", "discard", "modify", "upload", "row", "found", "enable"}
  IN  /\ Free(<<"links", "insert", "touch", "archived", "unarchive">>)
      /\ Free(<<"removable", "spare", "delete", "touch">>)
      /\ Free(<<"links", "insert", "touch">>)
      /\ Free(<<"touch">>) /\ Free(<<"drop">>)
  OBVIOUS

LEMMA ListHeads ==
  /\ <<"links", "insert", "member", "archived", "unarchive", "touch">> # <<>>
  /\ Head(<<"links", "insert", "member", "archived", "unarchive", "touch">>) = "links"
  /\ <<"row", "found", "links", "insert", "touch">> # <<>>
  /\ Head(<<"row", "found", "links", "insert", "touch">>) = "row"
  /\ <<"links", "insert", "touch", "archived", "unarchive">> # <<>>
  /\ <<"removable", "spare", "delete", "touch">> # <<>>
  /\ <<"links", "insert", "touch">> # <<>>
  OBVIOUS

LEMMA RequestStarts ==
  ASSUME NEW e \in Editors, Request(e), LibraryTypes(clock), clock \in Nat
  PROVE  Starts(e)
  <1>1. "add" \in AllOps /\ "remove" \in AllOps /\ "rename" \in AllOps /\ "drop" \in AllOps
        /\ "enable" \in AllOps /\ "disable" \in AllOps /\ "create" \in AllOps
        /\ "tagAdd" \in AllOps /\ "tagRemove" \in AllOps /\ "tagRename" \in AllOps
        /\ "tagDelete" \in AllOps /\ "tagCreate" \in AllOps /\ "discard" \in AllOps
        /\ "edit" \in AllOps /\ "upload" \in AllOps
    BY DEF AllOps
  <1>2. \A s \in Shelves : shelf[s].enabled \in BOOLEAN
    BY DEF LibraryTypes, ShelfTable, ShelfRow
  <1>3. ASSUME NEW s \in Shelves, UpdateShelf(e, s) PROVE Starts(e)
    <2>1. Plan("rename", <<"touch">>, {s}, {}, FALSE)
      BY <1>1, <1>3, OneTodo, ShortHeads, ShelfPlan DEF UpdateShelf, Exists
    <2> QED
      BY <2>1, <1>3 DEF UpdateShelf, Starts
  <1>4. ASSUME NEW s \in Shelves, DeleteShelf(e, s) PROVE Starts(e)
    <2>1. Plan("drop", <<"drop">>, {s}, {}, FALSE)
      BY <1>1, <1>4, OneTodo, ShortHeads, ShelfPlan DEF DeleteShelf, Exists
    <2> QED
      BY <2>1, <1>4 DEF DeleteShelf, Starts
  <1>5. ASSUME NEW s \in Shelves, CreateShelf(e, s) PROVE Starts(e)
    <2>1. Plan("create", <<"row", "found">>, {s}, {}, FALSE)
      BY <1>1, <1>5, WebTodos, ShortHeads, ShelfPlan DEF CreateShelf
    <2> QED
      BY <2>1, <1>5 DEF CreateShelf, Starts
  <1>6. ASSUME NEW s \in Shelves, NEW op \in {"enable", "disable"}, SetKoboSync(e, s, op)
        PROVE  Starts(e)
    <2>1. Plan(op, <<"toggle">>, {s}, {}, shelf[s].enabled)
      BY <1>1, <1>2, <1>6, OneTodo, ShortHeads DEF SetKoboSync, Exists, Plan
    <2> QED
      BY <2>1, <1>6 DEF SetKoboSync, Starts
  <1>7. ASSUME NEW s \in Shelves, TagRename(e, s) PROVE Starts(e)
    <2>1. Plan("tagRename", Ensured(s, <<"touch">>), {s}, {}, FALSE)
      BY <1>1, <1>7, OneTodo, ShortHeads, TagLists, EnsuredPlan DEF TagRename
    <2> QED
      BY <2>1, <1>7 DEF TagRename, Starts
  <1>8. ASSUME NEW s \in Shelves, TagDelete(e, s) PROVE Starts(e)
    <2>1. Plan("tagDelete", Ensured(s, <<"drop">>), {s}, {}, FALSE)
      BY <1>1, <1>8, OneTodo, ShortHeads, TagLists, EnsuredPlan DEF TagDelete
    <2> QED
      BY <2>1, <1>8 DEF TagDelete, Starts
  <1>9. ASSUME NEW s \in Shelves, NEW b \in Uploaded, RemoveBook(e, s, b) PROVE Starts(e)
    <2>1. Plan("remove", <<"delete", "touch">>, {s}, {b}, FALSE)
      BY <1>1, <1>9, WebTodos, ShortHeads, ShelfPlan DEF RemoveBook, Exists
    <2> QED
      BY <2>1, <1>9 DEF RemoveBook, Starts
  <1>10. ASSUME NEW s \in Shelves, NEW B \in Selections, AddBooks(e, s, B) PROVE Starts(e)
    <2>1. Plan("add", <<"links", "insert", "member", "archived", "unarchive", "touch">>, {s}, B, FALSE)
      BY <1>1, <1>10, WebTodos, ListHeads, ShelfPlan DEF AddBooks, Exists, Selections
    <2> QED
      BY <2>1, <1>10 DEF AddBooks, Starts
  <1>11. ASSUME NEW s \in Shelves, NEW B \in Selections, TagAdd(e, s, B) PROVE Starts(e)
    <2>1. Plan("tagAdd", Ensured(s, <<"links", "insert", "touch", "archived", "unarchive">>), {s}, B, FALSE)
      BY <1>1, <1>11, TagTodos, ListHeads, TagLists, EnsuredPlan DEF TagAdd, Selections
    <2> QED
      BY <2>1, <1>11 DEF TagAdd, Starts
  <1>12. ASSUME NEW s \in Shelves, NEW B \in Selections, TagRemove(e, s, B) PROVE Starts(e)
    <2>1. Plan("tagRemove", Ensured(s, <<"removable", "spare", "delete", "touch">>), {s}, B, FALSE)
      BY <1>1, <1>12, TagTodos, ListHeads, TagLists, EnsuredPlan DEF TagRemove, Selections
    <2> QED
      BY <2>1, <1>12 DEF TagRemove, Starts
  <1>13. ASSUME NEW s \in Shelves, NEW B \in SUBSET Uploaded, TagCreate(e, s, B) PROVE Starts(e)
    <2>1. CASE Exists(s) /\ Start(e, "tagCreate", Ensured(s, <<"links", "insert", "touch">>), {s}, B, FALSE)
      <3>1. Plan("tagCreate", Ensured(s, <<"links", "insert", "touch">>), {s}, B, FALSE)
        BY <1>1, <2>1, TagTodos, ListHeads, TagLists, EnsuredPlan
      <3> QED
        BY <3>1, <2>1 DEF Starts
    <2>2. CASE shelf[s].created = 0 /\ Start(e, "tagCreate", <<"row", "found", "links", "insert", "touch">>, {s}, B, TRUE)
      <3>1. Plan("tagCreate", <<"row", "found", "links", "insert", "touch">>, {s}, B, TRUE)
        BY <1>1, <2>2, TagTodos, ListHeads, ShelfPlan
      <3> QED
        BY <3>1, <2>2 DEF Starts
    <2> QED
      BY <1>13, <2>1, <2>2 DEF TagCreate
  <1>14. ASSUME NEW b \in Books, Discard(e, b) PROVE Starts(e)
    <2>1. Plan("discard", <<"discard">>, {}, {b}, archive[b] # <<>>)
      BY <1>1, <1>14, OneTodo, ShortHeads DEF Discard, Plan, Uploaded
    <2> QED
      BY <2>1, <1>14 DEF Discard, Starts
  <1>15. ASSUME NEW b \in Books, EditBook(e, b) PROVE Starts(e)
    <2>1. Plan("edit", <<"modify">>, {}, {b}, FALSE)
      BY <1>1, <1>15, OneTodo, ShortHeads DEF EditBook, Plan, Uploaded
    <2> QED
      BY <2>1, <1>15 DEF EditBook, Starts
  <1>16. ASSUME NEW b \in Books, Upload(e, b) PROVE Starts(e)
    <2>1. Plan("upload", <<"upload">>, {}, {b}, FALSE)
      BY <1>1, <1>16, OneTodo, ShortHeads DEF Upload, Plan, Uploaded
    <2> QED
      BY <2>1, <1>16 DEF Upload, Starts
  <1> QED
    BY <1>3, <1>4, <1>5, <1>6, <1>7, <1>8, <1>9, <1>10, <1>11, <1>12, <1>13, <1>14, <1>15, <1>16
    DEF Request

-----------------------------------------------------------------------------
(* The statements: each changes the types of nothing. *)

Others(e) == \A f \in Editors : f # e => task'[f] = task[f]

LEMMA IdleTask ==
  /\ \A c \in Nat : Idle \in Task(c)
  /\ Idle.todo = <<>> /\ Idle.op = "none" /\ Idle.books = {} /\ Idle.fresh = {}
  BY NoTodo DEF Idle, Task

LEMMA StartTypes ==
  ASSUME NEW c \in Nat, task \in [Editors -> Task(c)], NEW e \in Editors,
         NEW op, NEW todo, NEW S, NEW B, NEW was,
         Start(e, op, todo, S, B, was), Plan(op, todo, S, B, was)
  PROVE  /\ task' \in [Editors -> Task(c)] /\ Others(e)
         /\ task'[e].todo = todo /\ task'[e].op = op /\ task'[e].shelf = S
         /\ task'[e].books = B /\ task'[e].fresh = {} /\ task'[e].was = was
  <1> DEFINE new == [Idle EXCEPT !.todo = todo, !.op = op, !.shelf = S, !.books = B, !.was = was]
  <1>0. op \in AllOps \cup {"none"} /\ todo \in Todos /\ S \in SUBSET Shelves /\ B \in SUBSET Books
        /\ was \in BOOLEAN
    BY DEF Plan
  <1>1. Idle \in Task(c) /\ Idle.fresh = {}
    BY IdleTask
  <1>3. /\ new \in Task(c) /\ new.todo = todo /\ new.op = op /\ new.shelf = S
        /\ new.books = B /\ new.was = was /\ new.fresh = Idle.fresh
    BY <1>0, <1>1 DEF Task
  <1>2. task' = [task EXCEPT ![e] = new]
    BY DEF Start
  <1> HIDE DEF new
  <1> QED
    BY <1>1, <1>2, <1>3 DEF Others

LEMMA FollowTypes ==
  ASSUME NEW c \in Nat, task \in [Editors -> Task(c)], NEW e \in Editors,
         NEW t \in Todos, Follow(e, t)
  PROVE  /\ task' \in [Editors -> Task(c)] /\ Others(e)
         /\ t = <<>> => task'[e] = Idle
         /\ t # <<>> =>
              /\ task'[e].todo = t /\ task'[e].op = task[e].op /\ task'[e].shelf = task[e].shelf
              /\ task'[e].books = task[e].books /\ task'[e].fresh = task[e].fresh
              /\ task'[e].was = task[e].was /\ task'[e].at = task[e].at
  <1> DEFINE new == [task[e] EXCEPT !.todo = t]
  <1>1. task[e] \in Task(c)
    OBVIOUS
  <1>2. /\ new \in Task(c) /\ new.todo = t /\ new.op = task[e].op /\ new.shelf = task[e].shelf
        /\ new.books = task[e].books /\ new.fresh = task[e].fresh
        /\ new.was = task[e].was /\ new.at = task[e].at
    BY <1>1 DEF Task
  <1>3. task' = [task EXCEPT ![e] = IF t = <<>> THEN Idle ELSE new]
    BY DEF Follow
  <1> HIDE DEF new
  <1> QED
    BY <1>2, <1>3, IdleTask DEF Others

LEMMA KeepTypes ==
  ASSUME NEW c \in Nat, task \in [Editors -> Task(c)], NEW e \in Editors,
         NEW field, NEW B \in SUBSET Books, NEW t \in Todos, Keep(e, field, B, t)
  PROVE  /\ task' \in [Editors -> Task(c)] /\ Others(e)
         /\ t = <<>> => task'[e] = Idle
         /\ t # <<>> =>
              /\ task'[e].todo = t /\ task'[e].op = task[e].op /\ task'[e].shelf = task[e].shelf
              /\ task'[e].was = task[e].was /\ task'[e].at = task[e].at
              /\ task'[e].books \cup task'[e].fresh \subseteq task[e].books \cup task[e].fresh \cup B
  <1> DEFINE new1 == [task[e] EXCEPT !.fresh = B, !.todo = t]
             new2 == [task[e] EXCEPT !.books = B, !.todo = t]
             new  == IF field = "fresh" THEN new1 ELSE new2
  <1>1. task[e] \in Task(c)
    OBVIOUS
  <1>2. /\ new1 \in Task(c) /\ new1.todo = t /\ new1.op = task[e].op /\ new1.shelf = task[e].shelf
        /\ new1.books = task[e].books /\ new1.fresh = B
        /\ new1.was = task[e].was /\ new1.at = task[e].at
    BY <1>1 DEF Task
  <1>3. /\ new2 \in Task(c) /\ new2.todo = t /\ new2.op = task[e].op /\ new2.shelf = task[e].shelf
        /\ new2.books = B /\ new2.fresh = task[e].fresh
        /\ new2.was = task[e].was /\ new2.at = task[e].at
    BY <1>1 DEF Task
  <1>4. task' = [task EXCEPT ![e] = IF t = <<>> THEN Idle ELSE new]
    BY DEF Keep
  <1> HIDE DEF new1, new2
  <1>5. /\ new \in Task(c) /\ new.todo = t /\ new.op = task[e].op /\ new.shelf = task[e].shelf
        /\ new.was = task[e].was /\ new.at = task[e].at
        /\ new.books \cup new.fresh \subseteq task[e].books \cup task[e].fresh \cup B
    BY <1>2, <1>3
  <1> HIDE DEF new
  <1> QED
    BY <1>4, <1>5, IdleTask DEF Others

LEMMA DueIs ==
  ASSUME NEW c \in Nat, task \in [Editors -> Task(c)], NEW e \in Editors, Busy(e)
  PROVE  /\ task[e].todo \in Todos /\ task[e].todo # <<>> /\ Tail(task[e].todo) \in Todos
         /\ task[e].books \subseteq Books /\ task[e].fresh \subseteq Books
         /\ task[e].was \in BOOLEAN /\ task[e].at \in 0..c
  <1>1. task[e] \in Task(c)
    OBVIOUS
  <1>2. task[e].todo \in Todos /\ task[e].todo # <<>>
    BY <1>1 DEF Task, Busy
  <1> QED
    BY <1>1, <1>2, TailTodo DEF Task

(* What follows the statement that looks for archived books *)
LEMMA FoundTodo ==
  ASSUME NEW t \in Todos, t # <<>>, Head(t) = "archived"
  PROVE  Tail(Tail(t)) \in Todos /\ Tail(t) \in Todos /\ Tail(t) # <<>>
  BY TailTodo

LEMMA ListedTodos == <<"archived", "unarchive">> \in Todos /\ <<"touch">> \in Todos /\ <<>> \in Todos
  BY NoTodo, OneTodo, WebTodos

(* A list of rows, all of them written anew or kept *)
LEMMA RowsKept ==
  ASSUME NEW S, NEW s \in Seq(S), NEW t, t = [i \in DOMAIN s |-> t[i]],
         \A i \in DOMAIN s : t[i] \in S
  PROVE  t \in Seq(S) /\ Len(t) = Len(s)
  <1>1. Len(s) \in Nat /\ DOMAIN s = 1..Len(s)
    OBVIOUS
  <1>2. t \in [1..Len(s) -> S]
    BY <1>1
  <1> QED
    BY <1>1, <1>2

(* What is written into a row keeps its type. *)
LEMMA RowWritten ==
  ASSUME NEW c \in Nat, NEW t \in 0..c
  PROVE  /\ \A x \in ShelfRow(c) :
              /\ [x EXCEPT !.updated = t] \in ShelfRow(c)
              /\ [x EXCEPT !.deleted = t, !.updated = t] \in ShelfRow(c)
              /\ \A v \in BOOLEAN : [x EXCEPT !.enabled = v, !.disabled = t] \in ShelfRow(c)
         /\ \A v \in BOOLEAN :
              [created |-> t, updated |-> t, deleted |-> 0, enabled |-> v, disabled |-> 0] \in ShelfRow(c)
         /\ \A v \in BOOLEAN : [is |-> v, at |-> t] \in ArchiveRow(c)
         /\ \A x \in BookRow(c) : [x EXCEPT !.modified = t] \in BookRow(c)
         /\ [born |-> t, modified |-> t] \in BookRow(c)
  <1>1. \A x \in ShelfRow(c) :
           /\ [x EXCEPT !.updated = t] \in ShelfRow(c)
           /\ [x EXCEPT !.deleted = t, !.updated = t] \in ShelfRow(c)
           /\ \A v \in BOOLEAN : [x EXCEPT !.enabled = v, !.disabled = t] \in ShelfRow(c)
    BY DEF ShelfRow
  <1>2. \A v \in BOOLEAN :
           [created |-> t, updated |-> t, deleted |-> 0, enabled |-> v, disabled |-> 0] \in ShelfRow(c)
    BY DEF ShelfRow
  <1>3. \A v \in BOOLEAN : [is |-> v, at |-> t] \in ArchiveRow(c)
    BY DEF ArchiveRow
  <1>4. \A x \in BookRow(c) : [x EXCEPT !.modified = t] \in BookRow(c)
    BY DEF BookRow
  <1>5. [born |-> t, modified |-> t] \in BookRow(c)
    BY DEF BookRow
  <1> QED
    BY <1>1, <1>2, <1>3, <1>4, <1>5

LEMMA Put ==
  ASSUME NEW D, NEW T, NEW f \in [D -> T], NEW d, NEW x, d \in D => x \in T
  PROVE  [f EXCEPT ![d] = x] \in [D -> T]
  OBVIOUS

LEMMA StatementTypes ==
  ASSUME NEW e \in Editors, LibraryTypes(clock), clock \in Nat, Statement(e)
  PROVE  /\ clock' \in Nat /\ clock =< clock' /\ LibraryTypes(clock)'
         /\ edits' = edits /\ deaths' = deaths
  <1> USE DEF rowVars
  <1>1. /\ clock' \in {clock, Now}
        /\ edits' = edits /\ deaths' = deaths
    BY DEF Statement, Links, Insert, Member, FindArchived, Unarchive, Touch, Delete, Removable,
       Spare, Enable, Toggle, Drop, InsertShelf, InsertMember, WriteDiscard, Modify, InsertBook, Stamp
  <1>2. PICK c : c = clock'
    OBVIOUS
  <1>3. c \in Nat /\ clock =< c /\ c \in {clock, Now}
    BY <1>1, <1>2, Bounds DEF Now
  <1>4. /\ book \in BookTable(c) /\ shelf \in ShelfTable(c) /\ listed \in [Shelves -> Places(c)]
        /\ archive \in ArchiveTable(c) /\ task \in [Editors -> Task(c)]
    BY <1>3, TypesLater DEF LibraryTypes
  <1>5. clock' = Now => Now \in 0..c
    BY <1>2, <1>3
  <1>6. Busy(e)
    BY DEF Statement, Due, Links, Insert, Member, FindArchived, Unarchive, Touch, Delete, Removable,
       Spare, Enable, Toggle, Drop, InsertShelf, InsertMember, WriteDiscard, Modify, InsertBook
  <1>7. /\ task[e].todo \in Todos /\ task[e].todo # <<>> /\ Tail(task[e].todo) \in Todos
        /\ task[e].books \subseteq Books /\ task[e].fresh \subseteq Books
        /\ task[e].was \in BOOLEAN /\ task[e].at \in 0..c
    BY <1>3, <1>4, <1>6, DueIs
  <1> HIDE DEF rowVars
  <1> DEFINE Goal == book' \in BookTable(c) /\ shelf' \in ShelfTable(c) /\ listed' \in [Shelves -> Places(c)]
                     /\ archive' \in ArchiveTable(c) /\ task' \in [Editors -> Task(c)]
  <1> SUFFICES Goal
    BY <1>1, <1>2, <1>3 DEF LibraryTypes
  <1>8. Proceed(e) => task' \in [Editors -> Task(c)]
    BY <1>3, <1>4, <1>7, FollowTypes DEF Proceed
  <1>9. ASSUME Links(e) PROVE Goal
    BY <1>3, <1>4, <1>7, <1>9, KeepTypes, ListedTodos DEF Links, rowVars
  <1>10. ASSUME Insert(e) PROVE Goal
    <2>1. task' \in [Editors -> Task(c)]
      BY <1>3, <1>4, <1>8, <1>10, FollowTypes, ListedTodos DEF Insert
    <2>2. CASE listed' = listed
      BY <1>4, <1>10, <2>1, <2>2 DEF Insert
    <2>3. CASE clock' = Now /\ listed' = [listed EXCEPT ![Here(e)] =
                 [b \in Books |-> IF b \in task[e].fresh THEN Now ELSE listed[Here(e)][b]]]
      <3> DEFINE new == [b \in Books |-> IF b \in task[e].fresh THEN Now ELSE listed[Here(e)][b]]
      <3>1. Here(e) \in Shelves => new \in Places(c)
        BY <1>4, <1>5, <2>3 DEF Places
      <3>2. listed' = [listed EXCEPT ![Here(e)] = new]
        BY <2>3
      <3> HIDE DEF new
      <3>3. listed' \in [Shelves -> Places(c)]
        BY <1>4, <3>1, <3>2, Put
      <3> QED
        BY <1>4, <1>10, <2>1, <3>3 DEF Insert
    <2> QED
      BY <1>10, <2>2, <2>3 DEF Insert, Stamp
  <1>11. ASSUME Member(e) PROVE Goal
    BY <1>3, <1>4, <1>7, <1>11, FollowTypes, ListedTodos DEF Member, rowVars
  <1>12. ASSUME FindArchived(e) PROVE Goal
    <2>1. Tail(Tail(task[e].todo)) \in Todos
      BY <1>7, <1>12, FoundTodo DEF FindArchived, Due
    <2> DEFINE found == {b \in (IF task[e].op = "add" THEN task[e].fresh ELSE task[e].books) : RowsArchived(b)}
    <2>2. found \in SUBSET Books
      BY <1>7
    <2>3. Keep(e, "books", found, IF found = {} THEN Tail(Tail(task[e].todo)) ELSE Tail(task[e].todo))
      BY <1>12 DEF FindArchived
    <2> HIDE DEF found
    <2>4. task' \in [Editors -> Task(c)]
      BY <1>3, <1>4, <1>7, <2>1, <2>2, <2>3, KeepTypes
    <2> QED
      BY <1>4, <1>12, <2>4 DEF FindArchived, rowVars
  <1>13. ASSUME Unarchive(e) PROVE Goal
    <2>1. Now \in 0..c
      BY <1>5, <1>13 DEF Unarchive, Stamp
    <2>2. ASSUME NEW b \in Books PROVE archive'[b] \in Seq(ArchiveRow(c))
      <3>1. archive[b] \in Seq(ArchiveRow(c))
        BY <1>4 DEF ArchiveTable
      <3>2. CASE b \in task[e].books
        <4> DEFINE t == [i \in DOMAIN archive[b] |->
                           IF archive[b][i].is THEN [is |-> FALSE, at |-> Now] ELSE archive[b][i]]
        <4>1. archive'[b] = t
          BY <1>13, <3>2 DEF Unarchive
        <4>2. \A i \in DOMAIN archive[b] : t[i] \in ArchiveRow(c)
          <5> SUFFICES ASSUME NEW i \in DOMAIN archive[b] PROVE t[i] \in ArchiveRow(c)
            OBVIOUS
          <5>1. archive[b][i] \in ArchiveRow(c)
            BY <3>1
          <5>2. FALSE \in BOOLEAN
            OBVIOUS
          <5>3. [is |-> FALSE, at |-> Now] \in ArchiveRow(c)
            BY <1>3, <2>1, <5>2, RowWritten
          <5> QED
            BY <5>1, <5>3
        <4>3. t = [i \in DOMAIN archive[b] |-> t[i]]
          OBVIOUS
        <4> HIDE DEF t
        <4> QED
          BY <3>1, <4>1, <4>2, <4>3, RowsKept
      <3>3. CASE b \notin task[e].books
        BY <1>13, <3>1, <3>3 DEF Unarchive
      <3> QED
        BY <3>2, <3>3
    <2>3. archive' \in ArchiveTable(c)
      BY <1>13, <2>2 DEF Unarchive, ArchiveTable
    <2> QED
      BY <1>4, <1>8, <1>13, <2>3 DEF Unarchive
  <1>14. ASSUME Touch(e) PROVE Goal
    <2> DEFINE new == [shelf[Here(e)] EXCEPT !.updated = Now]
    <2>1. shelf' = [shelf EXCEPT ![Here(e)] = new]
      BY <1>4, <1>14 DEF Touch, ShelfTable
    <2>2. Here(e) \in Shelves => new \in ShelfRow(c)
      BY <1>3, <1>4, <1>5, <1>14, RowWritten DEF Touch, Stamp, ShelfTable
    <2> HIDE DEF new
    <2>3. shelf' \in ShelfTable(c)
      BY <1>4, <2>1, <2>2, Put DEF ShelfTable
    <2> QED
      BY <1>4, <1>8, <1>14, <2>3 DEF Touch
  <1>15. ASSUME Delete(e) PROVE Goal
    <2> DEFINE new == [b \in Books |-> IF b \in task[e].books THEN 0 ELSE listed[Here(e)][b]]
    <2>1. listed' = [listed EXCEPT ![Here(e)] = new]
      BY <1>15 DEF Delete
    <2>2. Here(e) \in Shelves => new \in Places(c)
      BY <1>3, <1>4 DEF Places
    <2> HIDE DEF new
    <2>3. listed' \in [Shelves -> Places(c)]
      BY <1>4, <2>1, <2>2, Put
    <2> QED
      BY <1>4, <1>8, <1>15, <2>3 DEF Delete
  <1>16. ASSUME Removable(e) PROVE Goal
    BY <1>3, <1>4, <1>7, <1>16, KeepTypes, ListedTodos DEF Removable, rowVars
  <1>17. ASSUME Spare(e) PROVE Goal
    <2> DEFINE left == {b \in task[e].books : archive[b] = <<>> \/ Archived(b)}
    <2>1. left \in SUBSET Books
      BY <1>7
    <2>2. Keep(e, "books", left, IF left = {} THEN <<>> ELSE Tail(task[e].todo))
      BY <1>17 DEF Spare
    <2> HIDE DEF left
    <2>3. task' \in [Editors -> Task(c)]
      BY <1>3, <1>4, <1>7, <2>1, <2>2, KeepTypes, ListedTodos
    <2> QED
      BY <1>4, <1>17, <2>3 DEF Spare, rowVars
  <1>18. ASSUME Enable(e) PROVE Goal
    <2> DEFINE new == [shelf[Here(e)] EXCEPT !.enabled = TRUE, !.disabled = 0]
    <2>1. shelf' = [shelf EXCEPT ![Here(e)] = new]
      BY <1>4, <1>18 DEF Enable, ShelfTable
    <2>2. Here(e) \in Shelves => new \in ShelfRow(c)
      <3>1. 0 \in 0..c /\ TRUE \in BOOLEAN
        BY <1>3
      <3> QED
        BY <1>3, <1>4, <3>1, RowWritten DEF ShelfTable
    <2> HIDE DEF new
    <2>3. shelf' \in ShelfTable(c)
      BY <1>4, <2>1, <2>2, Put DEF ShelfTable
    <2> QED
      BY <1>4, <1>8, <1>18, <2>3 DEF Enable
  <1>19. ASSUME Toggle(e) PROVE Goal
    <2> DEFINE on    == task[e].op = "enable"
               since == IF on THEN 0 ELSE IF task[e].was THEN Now ELSE shelf[Here(e)].disabled
               new   == [shelf[Here(e)] EXCEPT !.enabled = on, !.disabled = since]
    <2>1. shelf' = [shelf EXCEPT ![Here(e)] = new]
      BY <1>4, <1>19 DEF Toggle, ShelfTable
    <2>2. Here(e) \in Shelves => since \in 0..c
      BY <1>3, <1>4, <1>5, <1>19 DEF Toggle, Stamp, ShelfTable, ShelfRow
    <2>3. on \in BOOLEAN
      OBVIOUS
    <2> HIDE DEF since, on
    <2>4. Here(e) \in Shelves => new \in ShelfRow(c)
      BY <1>3, <1>4, <2>2, <2>3, RowWritten DEF ShelfTable
    <2> HIDE DEF new
    <2>5. shelf' \in ShelfTable(c)
      BY <1>4, <2>1, <2>4, Put DEF ShelfTable
    <2> QED
      BY <1>4, <1>8, <1>19, <2>5 DEF Toggle
  <1>20. ASSUME Drop(e) PROVE Goal
    <2> DEFINE new == [shelf[Here(e)] EXCEPT !.deleted = Now, !.updated = Now]
    <2>1. shelf' = [shelf EXCEPT ![Here(e)] = new]
      BY <1>4, <1>20 DEF Drop, ShelfTable
    <2>2. Here(e) \in Shelves => new \in ShelfRow(c)
      BY <1>3, <1>4, <1>5, <1>20, RowWritten DEF Drop, Stamp, ShelfTable
    <2> HIDE DEF new
    <2>3. shelf' \in ShelfTable(c)
      BY <1>4, <2>1, <2>2, Put DEF ShelfTable
    <2> QED
      BY <1>4, <1>8, <1>20, <2>3 DEF Drop
  <1>21. ASSUME InsertShelf(e) PROVE Goal
    <2> DEFINE new == [task[e] EXCEPT !.at = Now, !.todo = Tail(@)]
    <2>1. task' = [task EXCEPT ![e] = new]
      BY <1>4, <1>21 DEF InsertShelf
    <2>2. new \in Task(c)
      BY <1>4, <1>5, <1>7, <1>21 DEF InsertShelf, Stamp, Task
    <2> HIDE DEF new
    <2> QED
      BY <1>4, <1>21, <2>1, <2>2 DEF InsertShelf
  <1>22. ASSUME InsertMember(e) PROVE Goal
    <2> DEFINE new == [created |-> task[e].at, updated |-> task[e].at, deleted |-> 0,
                       enabled |-> task[e].was, disabled |-> 0]
    <2>1. shelf' = [shelf EXCEPT ![Here(e)] = new]
      BY <1>22 DEF InsertMember
    <2>2. new \in ShelfRow(c)
      BY <1>3, <1>7, RowWritten
    <2> HIDE DEF new
    <2>3. shelf' \in ShelfTable(c)
      BY <1>4, <2>1, <2>2, Put DEF ShelfTable
    <2> QED
      BY <1>4, <1>8, <1>22, <2>3 DEF InsertMember
  <1>23. ASSUME WriteDiscard(e) PROVE Goal
    <2> DEFINE row == [is |-> TRUE, at |-> Now]
    <2>1. row \in ArchiveRow(c)
      BY <1>5, <1>23 DEF WriteDiscard, Stamp, ArchiveRow
    <2>2. PICK b \in task[e].books : archive' = [archive EXCEPT ![b] =
            IF task[e].was THEN [@ EXCEPT ![1] = row] ELSE Append(@, row)]
      BY <1>23 DEF WriteDiscard
    <2> HIDE DEF row
    <2>3. archive[b] \in Seq(ArchiveRow(c))
      BY <1>4, <1>7 DEF ArchiveTable
    <2>4. [archive[b] EXCEPT ![1] = row] \in Seq(ArchiveRow(c)) /\ Append(archive[b], row) \in Seq(ArchiveRow(c))
      <3> DEFINE s == archive[b]
      <3>1. s \in [1..Len(s) -> ArchiveRow(c)] /\ Len(s) \in Nat
        BY <2>3
      <3>2. [s EXCEPT ![1] = row] \in [1..Len(s) -> ArchiveRow(c)]
        BY <2>1, <3>1, Put
      <3>3. Append(s, row) \in Seq(ArchiveRow(c))
        BY <2>1, <2>3
      <3> QED
        BY <3>1, <3>2, <3>3
    <2>5. archive' \in ArchiveTable(c)
      BY <1>4, <2>2, <2>4 DEF ArchiveTable
    <2> QED
      BY <1>4, <1>8, <1>23, <2>5 DEF WriteDiscard
  <1>24. ASSUME Modify(e) PROVE Goal
    BY <1>4, <1>5, <1>8, <1>24 DEF Modify, Stamp, BookTable, BookRow
  <1>25. ASSUME InsertBook(e) PROVE Goal
    BY <1>4, <1>5, <1>8, <1>25 DEF InsertBook, Stamp, BookTable, BookRow
  <1> QED
    BY <1>9, <1>10, <1>11, <1>12, <1>13, <1>14, <1>15, <1>16, <1>17, <1>18, <1>19, <1>20, <1>21,
       <1>22, <1>23, <1>24, <1>25 DEF Statement

LEMMA LibraryStep ==
  ASSUME LibraryTypes(clock), clock \in Nat, edits \in 0..MaxEdits, deaths \in 0..MaxDeaths,
         LibraryNext
  PROVE  /\ clock' \in Nat /\ clock =< clock' /\ LibraryTypes(clock)'
         /\ edits' \in 0..MaxEdits /\ deaths' \in 0..MaxDeaths
  <1>1. PICK e \in Editors : Request(e) \/ Statement(e) \/ Abandon(e)
    BY DEF LibraryNext
  <1>2. CASE Request(e)
    <2>1. PICK op, todo, S, B, was : Start(e, op, todo, S, B, was) /\ Plan(op, todo, S, B, was)
      BY <1>2, RequestStarts DEF Starts
    <2>2. task' \in [Editors -> Task(clock)]
      BY <2>1, StartTypes DEF LibraryTypes
    <2>3. clock' = clock /\ edits' = edits + 1 /\ edits < MaxEdits /\ deaths' = deaths
          /\ book' = book /\ shelf' = shelf /\ listed' = listed /\ archive' = archive
      BY <2>1 DEF Start, rowVars
    <2> QED
      BY <2>2, <2>3, Bounds DEF LibraryTypes
  <1>3. CASE Statement(e)
    BY <1>3, StatementTypes
  <1>4. CASE Abandon(e)
    <2>1. task' \in [Editors -> Task(clock)]
      BY <1>4, FollowTypes, NoTodo DEF LibraryTypes, Abandon
    <2>2. clock' = clock /\ edits' = edits /\ deaths' = deaths + 1 /\ deaths < MaxDeaths
          /\ book' = book /\ shelf' = shelf /\ listed' = listed /\ archive' = archive
      BY <1>4 DEF Abandon, rowVars
    <2> QED
      BY <2>1, <2>2, Bounds DEF LibraryTypes
  <1> QED
    BY <1>1, <1>2, <1>3, <1>4

-----------------------------------------------------------------------------
(* The synchronisations: what an answer is made of *)

LEMMA HeaderIs ==
  ASSUME NEW c \in Nat, NEW x \in Token(c)
  PROVE  Header(x) \in Token(c) /\ \A f \in DOMAIN Header(x) : Header(x)[f] % Second = 0
  <1> DEFINE F == {"modified", "created", "archive", "tags"}
  <1>1. x \in [F -> 0..c]
    BY DEF Token
  <1>2. Header(x) \in [F -> 0..c]
    BY <1>1, FloorIs DEF Header
  <1>3. \A f \in F : Header(x)[f] % Second = 0
    BY <1>1, FloorIs DEF Header
  <1>4. [F -> 0..c] = Token(c)
    BY DEF Token
  <1> QED
    BY <1>2, <1>3, <1>4

LEMMA ArchivedAtIs ==
  ASSUME NEW c \in Nat, NEW rows \in Seq(ArchiveRow(c))
  PROVE  /\ ArchivedAt(rows) \in 0..c
         /\ rows # <<>> => Latest(rows) \in ArchiveRow(c)
         /\ IsArchived(rows) \in BOOLEAN
  <1>1. ASSUME rows # <<>> PROVE Latest(rows) \in ArchiveRow(c)
    <2>1. Len(rows) \in Nat /\ Len(rows) # 0
      BY <1>1
    <2> QED
      BY <2>1 DEF Latest
  <1>2. ASSUME rows # <<>> PROVE Latest(rows).at \in 0..c /\ Latest(rows).is \in BOOLEAN
    BY <1>1, <1>2 DEF ArchiveRow
  <1> QED
    BY <1>1, <1>2 DEF ArchivedAt, IsArchived

(* A synchronisation that has read everything *)
FullRead(r, c) ==
  /\ r.shelf \in SomeShelves(c) /\ r.listed \in SomePlaces(c) /\ DOMAIN r.listed = DOMAIN r.shelf
  /\ r.book \in BookTable(c) /\ r.archive \in ArchiveTable(c) /\ r.synced \in SUBSET Books

LEMMA ReadRows ==
  ASSUME NEW c \in Nat, NEW r, FullRead(r, c)
  PROVE  /\ DOMAIN r.shelf \subseteq Shelves
         /\ \A s \in DOMAIN r.shelf : r.shelf[s] \in ShelfRow(c) /\ r.listed[s] \in Places(c)
         /\ \A b \in Books : r.book[b] \in BookRow(c) /\ r.archive[b] \in Seq(ArchiveRow(c))
  BY DEF FullRead, SomeShelves, SomePlaces, BookTable, ArchiveTable

LEMMA ActivityIs ==
  ASSUME NEW c \in Nat, NEW r, FullRead(r, c), NEW s \in DOMAIN r.shelf
  PROVE  /\ Activity(r, s) \in 0..c
         /\ r.shelf[s].updated =< Activity(r, s)
         /\ \A b \in Books : r.book[b].born # 0 => r.listed[s][b] =< Activity(r, s)
  <1> DEFINE T == {r.listed[s][b] : b \in {x \in Books : r.book[x].born # 0}}
  <1>1. r.shelf[s].updated \in 0..c
    BY ReadRows DEF ShelfRow
  <1>2. T \subseteq 0..c
    BY ReadRows DEF Places
  <1>3. \A b \in Books : r.book[b].born # 0 => r.listed[s][b] \in T
    OBVIOUS
  <1>4. Activity(r, s) = Latter(r.shelf[s].updated, T)
    BY DEF Activity
  <1> HIDE DEF T
  <1>5. Latter(r.shelf[s].updated, T) \in 0..c
        /\ \A u \in {r.shelf[s].updated} \cup T : u =< Latter(r.shelf[s].updated, T)
    BY <1>1, <1>2, LatterIs
  <1>6. r.shelf[s].updated =< Activity(r, s)
    BY <1>4, <1>5
  <1>7. \A b \in Books : r.book[b].born # 0 => r.listed[s][b] =< Activity(r, s)
    BY <1>3, <1>4, <1>5
  <1> QED
    BY <1>4, <1>5, <1>6, <1>7

LEMMA AdvanceTypes ==
  ASSUME NEW c \in Nat, NEW r, FullRead(r, c), NEW t \in Token(c), NEW P \in SUBSET Books, NEW now,
         \A b \in P : ShouldArchive(r, b) => now \in 0..c
  PROVE  Advance(r, t, P, now) \in Token(c)
  <1>1. t.modified \in 0..c /\ t.created \in 0..c /\ t.archive \in 0..c /\ t.tags \in 0..c
    BY DEF Token
  <1> DEFINE M == {r.book[b].modified : b \in P}
             C == {r.book[b].born : b \in P}
             A == {IF ShouldArchive(r, b) THEN now ELSE ArchivedAt(r.archive[b]) : b \in P}
             U == {Activity(r, s) : s \in {u \in DOMAIN r.shelf : NewsOfTag(r, t, u)}}
  <1>2. M \subseteq 0..c /\ C \subseteq 0..c
    BY ReadRows DEF BookRow
  <1>3. A \subseteq 0..c
    BY ReadRows, ArchivedAtIs
  <1>4. U \subseteq 0..c
    BY ActivityIs
  <1>5. Advance(r, t, P, now) =
          [modified |-> Latter(t.modified, M), created |-> Latter(t.created, C),
           archive |-> Latter(t.archive, A), tags |-> Latter(t.tags, U)]
    BY DEF Advance
  <1> HIDE DEF M, C, A, U
  <1>6. Latter(t.modified, M) \in 0..c /\ Latter(t.created, C) \in 0..c
        /\ Latter(t.archive, A) \in 0..c /\ Latter(t.tags, U) \in 0..c
    BY <1>1, <1>2, <1>3, <1>4, LatterIs
  <1> QED
    BY <1>5, <1>6 DEF Token

LEMMA PagesAre ==
  ASSUME NEW r, NEW t, NEW page \in Pages(r, t)
  PROVE  page \subseteq Candidates(r, t) /\ Candidates(r, t) \subseteq Scope(r)
  BY DEF Pages, Candidates, kSubset

LEMMA AnsweredTypes ==
  ASSUME NEW c \in Nat, NEW r, FullRead(r, c), NEW t \in Token(c), NEW page \in Pages(r, t), NEW now,
         (\E b \in page \cap Readable : ShouldArchive(r, b)) => now \in 0..c
  PROVE  LET a == Answered(r, t, page, now) IN
         /\ a.live \subseteq Readable /\ a.gone \subseteq Readable /\ a.fresh \subseteq Readable
         /\ a.orphans \subseteq Readable
         /\ a.tagged \in SomeTags /\ a.next \in Token(c)
  <1> DEFINE P == page \cap Readable
             G == [s \in {u \in DOMAIN r.shelf : NewsOfTag(r, t, u)} |->
                     {b \in Books : r.listed[s][b] # 0 /\ r.book[b].born # 0}]
  <1>1. P \in SUBSET Books
    BY Bounds
  <1>2. Advance(r, t, P, now) \in Token(c)
    BY <1>1, AdvanceTypes
  <1>3. G \in SomeTags
    <2> DEFINE D == {u \in DOMAIN r.shelf : NewsOfTag(r, t, u)}
               X(s) == {b \in Books : r.listed[s][b] # 0 /\ r.book[b].born # 0}
    <2>1. D \in SUBSET Shelves
      BY ReadRows
    <2>2. \A s \in D : X(s) \in SUBSET Books
      OBVIOUS
    <2>3. G = [s \in D |-> X(s)]
      OBVIOUS
    <2> HIDE DEF D, X, G
    <2>4. G \in [D -> SUBSET Books]
      BY <2>2, <2>3
    <2> QED
      BY <2>1, <2>4 DEF SomeTags
  <1>4. Answered(r, t, page, now).tagged = G /\ Answered(r, t, page, now).next = Advance(r, t, P, now)
    BY DEF Answered
  <1>5. LET a == Answered(r, t, page, now) IN
        a.live \subseteq P /\ a.gone \subseteq P /\ a.fresh \subseteq P /\ a.orphans \subseteq P
    BY DEF Answered
  <1> QED
    BY <1>2, <1>3, <1>4, <1>5

-----------------------------------------------------------------------------
(* What a synchronisation's record becomes *)

LEMMA NoSyncTypes ==
  ASSUME NEW c \in Nat
  PROVE  NoSync \in SyncRec(c) /\ NoSync.step = "idle" /\ NoSync.live = {} /\ NoSync.gone = {}
         /\ NoSync.fresh = {} /\ NoSync.orphans = {} /\ NoSync.rows = {}
         /\ NoSync.wanted = FALSE /\ NoSync.clean = FALSE
  <1>1. 0 \in 0..c
    OBVIOUS
  <1>2. NoToken \in Token(c)
    BY <1>1 DEF NoToken, Token
  <1>3. NoRead \in ReadRec(c)
    BY DEF NoRead, ReadRec
  <1> QED
    BY <1>1, <1>2, <1>3 DEF NoSync, SyncRec, Steps

LEMMA ReadWritten ==
  ASSUME NEW c \in Nat, NEW r \in ReadRec(c)
  PROVE  /\ \A F \in SomeShelves(c) : LET n == [r EXCEPT !.shelf = F] IN
              n \in ReadRec(c) /\ n.shelf = F
         /\ \A F \in SomePlaces(c) : LET n == [r EXCEPT !.listed = F] IN
              n \in ReadRec(c) /\ n.listed = F /\ n.shelf = r.shelf
         /\ \A F \in SUBSET Books : LET n == [r EXCEPT !.synced = F] IN
              n \in ReadRec(c) /\ n.synced = F /\ n.listed = r.listed /\ n.shelf = r.shelf
         /\ \A F \in BookTable(c) : LET n == [r EXCEPT !.book = F] IN
              n \in ReadRec(c) /\ n.book = F /\ n.synced = r.synced /\ n.listed = r.listed
              /\ n.shelf = r.shelf
         /\ \A F \in ArchiveTable(c) : LET n == [r EXCEPT !.archive = F] IN
              n \in ReadRec(c) /\ n.archive = F /\ n.book = r.book /\ n.synced = r.synced
              /\ n.listed = r.listed /\ n.shelf = r.shelf
  BY DEF ReadRec

SameAnswer(x, y) ==
  /\ x.token = y.token /\ x.next = y.next /\ x.live = y.live /\ x.gone = y.gone
  /\ x.fresh = y.fresh /\ x.tagged = y.tagged /\ x.dropped = y.dropped /\ x.orphans = y.orphans
  /\ x.rows = y.rows /\ x.now = y.now /\ x.more = y.more


-----------------------------------------------------------------------------
(* The steps of a synchronisation, and what each makes of its record *)

Kept(p) ==
  /\ sync'[p].step = sync[p].step /\ sync'[p].read = sync[p].read /\ SameAnswer(sync'[p], sync[p])
  /\ sync'[p].wanted = sync[p].wanted /\ (sync'[p].clean => sync[p].clean)
  /\ sync[p] = NoSync => sync'[p] = NoSync

Beside(q) == \A p \in Syncs : p # q => Kept(p)

(* The step of q alone is taken, and its answer is left as it is. *)
Goes(q, step) ==
  /\ sync'[q].step = step /\ SameAnswer(sync'[q], sync[q])
  /\ sync'[q].wanted = sync[q].wanted /\ sync'[q].clean = sync[q].clean

LEMMA KeptAll ==
  ASSUME NEW p, sync'[p] = sync[p]
  PROVE  Kept(p)
  BY DEF Kept, SameAnswer

LEMMA Cleaned ==
  ASSUME NEW c \in Nat, NEW p \in Syncs, sync[p] \in SyncRec(c), sync'[p] = [sync[p] EXCEPT !.clean = FALSE]
  PROVE  sync'[p] \in SyncRec(c) /\ Kept(p)
  <1>1. sync[p].clean = FALSE => sync'[p] = sync[p]
    BY DEF SyncRec
  <1>2. sync[p] = NoSync => sync'[p] = NoSync
    BY <1>1, NoSyncTypes
  <1>3. /\ sync'[p] \in SyncRec(c) /\ SameAnswer(sync'[p], sync[p])
        /\ sync'[p].step = sync[p].step /\ sync'[p].read = sync[p].read
        /\ sync'[p].wanted = sync[p].wanted /\ sync'[p].clean = FALSE
    BY DEF SyncRec, SameAnswer
  <1> QED
    BY <1>2, <1>3 DEF Kept

LEMMA Becomes ==
  ASSUME NEW c \in Nat, sync \in [Syncs -> SyncRec(c)], NEW q \in Syncs,
         NEW x \in SyncRec(c), sync' = [sync EXCEPT ![q] = x]
  PROVE  sync' \in [Syncs -> SyncRec(c)] /\ sync'[q] = x /\ Beside(q)
  <1>1. sync'[q] = x /\ \A p \in Syncs : p # q => sync'[p] = sync[p]
    OBVIOUS
  <1>2. Beside(q)
    BY <1>1, KeptAll DEF Beside
  <1> QED
    BY <1>1, <1>2

LEMMA AskIs ==
  ASSUME NEW c \in Nat, sync \in [Syncs -> SyncRec(c)], token \in Token(c), NEW q \in Syncs, Ask(q)
  PROVE  /\ sync' \in [Syncs -> SyncRec(c)] /\ Beside(q)
         /\ sync'[q].step = "shelves" /\ sync'[q].token = token /\ sync'[q].wanted
         /\ sync'[q].live = {} /\ sync'[q].gone = {} /\ sync'[q].fresh = {} /\ sync'[q].orphans = {}
         /\ sync'[q].rows = {}
  <1> DEFINE v == ~Editing /\ ~Syncing
             x == [NoSync EXCEPT !.step = "shelves", !.token = token, !.wanted = TRUE, !.clean = v]
  <1>1. v \in BOOLEAN
    OBVIOUS
  <1> HIDE DEF v
  <1>2. NoSync \in SyncRec(c) /\ "shelves" \in Steps
    BY NoSyncTypes DEF Steps
  <1>3. /\ x \in SyncRec(c) /\ x.step = "shelves" /\ x.token = token /\ x.wanted
        /\ x.live = NoSync.live /\ x.gone = NoSync.gone /\ x.fresh = NoSync.fresh
        /\ x.orphans = NoSync.orphans /\ x.rows = NoSync.rows
    BY <1>1, <1>2 DEF SyncRec
  <1>4. sync' = [sync EXCEPT ![q] = x]
    BY DEF Ask, v
  <1> HIDE DEF x
  <1> QED
    BY <1>3, <1>4, Becomes, NoSyncTypes

LEMMA ReadIs ==
  ASSUME NEW c \in Nat, sync \in [Syncs -> SyncRec(c)], NEW q \in Syncs, NEW step \in Steps,
         NEW r \in ReadRec(c),
         sync' = [sync EXCEPT ![q] = [sync[q] EXCEPT !.step = step, !.read = r]]
  PROVE  /\ sync' \in [Syncs -> SyncRec(c)] /\ Beside(q)
         /\ Goes(q, step) /\ sync'[q].read = r
  <1> DEFINE x == [sync[q] EXCEPT !.step = step, !.read = r]
  <1>1. sync[q] \in SyncRec(c)
    OBVIOUS
  <1>2. /\ x \in SyncRec(c) /\ x.step = step /\ x.read = r /\ SameAnswer(x, sync[q])
        /\ x.wanted = sync[q].wanted /\ x.clean = sync[q].clean
    BY <1>1 DEF SyncRec, SameAnswer
  <1> HIDE DEF x
  <1>3. sync' = [sync EXCEPT ![q] = x]
    BY DEF x
  <1> QED
    BY <1>2, <1>3, Becomes DEF Goes

LEMMA ReadingIs ==
  ASSUME NEW c \in Nat, sync \in [Syncs -> SyncRec(c)], NEW q \in Syncs,
         shelf \in ShelfTable(c), listed \in [Shelves -> Places(c)], synced \in SUBSET Books,
         book \in BookTable(c), archive \in ArchiveTable(c)
  PROVE  /\ ReadShelves(q) =>
              /\ sync' \in [Syncs -> SyncRec(c)] /\ Beside(q) /\ Goes(q, "listed")
              /\ sync'[q].read.shelf = CurrentShelves /\ CurrentShelves \in SomeShelves(c)
         /\ ReadListed(q) /\ DOMAIN sync[q].read.shelf \subseteq Shelves =>
              /\ sync' \in [Syncs -> SyncRec(c)] /\ Beside(q) /\ Goes(q, "synced")
              /\ sync'[q].read.shelf = sync[q].read.shelf
              /\ sync'[q].read.listed = [s \in DOMAIN sync[q].read.shelf |-> listed[s]]
              /\ sync'[q].read.listed \in SomePlaces(c)
         /\ ReadSynced(q) =>
              /\ sync' \in [Syncs -> SyncRec(c)] /\ Beside(q) /\ Goes(q, "books")
              /\ sync'[q].read.shelf = sync[q].read.shelf /\ sync'[q].read.listed = sync[q].read.listed
              /\ sync'[q].read.synced = synced
         /\ ReadBooks(q) =>
              /\ sync' \in [Syncs -> SyncRec(c)] /\ Beside(q) /\ Goes(q, "archived")
              /\ sync'[q].read.shelf = sync[q].read.shelf /\ sync'[q].read.listed = sync[q].read.listed
              /\ sync'[q].read.synced = sync[q].read.synced /\ sync'[q].read.book = book
         /\ ReadArchived(q) =>
              /\ sync' \in [Syncs -> SyncRec(c)] /\ Beside(q) /\ Goes(q, "compute")
              /\ sync'[q].read.shelf = sync[q].read.shelf /\ sync'[q].read.listed = sync[q].read.listed
              /\ sync'[q].read.synced = sync[q].read.synced /\ sync'[q].read.book = sync[q].read.book
              /\ sync'[q].read.archive = archive
  <1> DEFINE r == sync[q].read
  <1>1. r \in ReadRec(c)
    BY DEF SyncRec
  <1>2. {"listed", "synced", "books", "archived", "compute"} \subseteq Steps
    BY DEF Steps
  <1>3. ASSUME ReadShelves(q)
        PROVE  /\ sync' \in [Syncs -> SyncRec(c)] /\ Beside(q) /\ Goes(q, "listed")
               /\ sync'[q].read.shelf = CurrentShelves /\ CurrentShelves \in SomeShelves(c)
    <2> DEFINE D == {u \in Shelves : Enabled(u)}
    <2>0. D \in SUBSET Shelves /\ CurrentShelves = [s \in D |-> shelf[s]]
          /\ \A s \in D : shelf[s] \in ShelfRow(c)
      BY DEF CurrentShelves, ShelfTable
    <2> HIDE DEF D
    <2>4. CurrentShelves \in [D -> ShelfRow(c)]
      BY <2>0
    <2>1. CurrentShelves \in SomeShelves(c)
      BY <2>0, <2>4 DEF SomeShelves
    <2> DEFINE n == [r EXCEPT !.shelf = CurrentShelves]
    <2>2. n \in ReadRec(c) /\ n.shelf = CurrentShelves
      BY <1>1, <2>1, ReadWritten
    <2>3. sync' = [sync EXCEPT ![q] = [sync[q] EXCEPT !.step = "listed", !.read = n]]
      BY <1>3 DEF ReadShelves, CurrentShelves
    <2> HIDE DEF n
    <2> QED
      BY <1>2, <2>1, <2>2, <2>3, ReadIs
  <1>4. ASSUME ReadListed(q), DOMAIN r.shelf \subseteq Shelves
        PROVE  /\ sync' \in [Syncs -> SyncRec(c)] /\ Beside(q) /\ Goes(q, "synced")
               /\ sync'[q].read.shelf = r.shelf
               /\ sync'[q].read.listed = [s \in DOMAIN r.shelf |-> listed[s]]
               /\ sync'[q].read.listed \in SomePlaces(c)
    <2> DEFINE F == [s \in DOMAIN r.shelf |-> listed[s]]
               n == [r EXCEPT !.listed = F]
    <2>1. F \in SomePlaces(c)
      BY <1>4 DEF SomePlaces
    <2>2. n \in ReadRec(c) /\ n.listed = F /\ n.shelf = r.shelf
      BY <1>1, <2>1, ReadWritten
    <2>3. sync' = [sync EXCEPT ![q] = [sync[q] EXCEPT !.step = "synced", !.read = n]]
      BY <1>4 DEF ReadListed
    <2> HIDE DEF n
    <2> QED
      BY <1>2, <2>1, <2>2, <2>3, ReadIs
  <1>5. ASSUME ReadSynced(q)
        PROVE  /\ sync' \in [Syncs -> SyncRec(c)] /\ Beside(q) /\ Goes(q, "books")
               /\ sync'[q].read.shelf = r.shelf /\ sync'[q].read.listed = r.listed
               /\ sync'[q].read.synced = synced
    <2> DEFINE n == [r EXCEPT !.synced = synced]
    <2>2. n \in ReadRec(c) /\ n.synced = synced /\ n.listed = r.listed /\ n.shelf = r.shelf
      BY <1>1, ReadWritten
    <2>3. sync' = [sync EXCEPT ![q] = [sync[q] EXCEPT !.step = "books", !.read = n]]
      BY <1>5 DEF ReadSynced
    <2> HIDE DEF n
    <2>4. "books" \in Steps
      BY <1>2
    <2>5. sync' \in [Syncs -> SyncRec(c)] /\ Beside(q) /\ Goes(q, "books") /\ sync'[q].read = n
      BY <2>2, <2>3, <2>4, ReadIs
    <2> QED
      BY <2>2, <2>5
  <1>6. ASSUME ReadBooks(q)
        PROVE  /\ sync' \in [Syncs -> SyncRec(c)] /\ Beside(q) /\ Goes(q, "archived")
               /\ sync'[q].read.shelf = r.shelf /\ sync'[q].read.listed = r.listed
               /\ sync'[q].read.synced = r.synced /\ sync'[q].read.book = book
    <2> DEFINE n == [r EXCEPT !.book = book]
    <2>2. n \in ReadRec(c) /\ n.book = book /\ n.synced = r.synced /\ n.listed = r.listed /\ n.shelf = r.shelf
      BY <1>1, ReadWritten
    <2>3. sync' = [sync EXCEPT ![q] = [sync[q] EXCEPT !.step = "archived", !.read = n]]
      BY <1>6 DEF ReadBooks
    <2> HIDE DEF n
    <2>4. "archived" \in Steps
      BY <1>2
    <2>5. sync' \in [Syncs -> SyncRec(c)] /\ Beside(q) /\ Goes(q, "archived") /\ sync'[q].read = n
      BY <2>2, <2>3, <2>4, ReadIs
    <2> QED
      BY <2>2, <2>5
  <1>7. ASSUME ReadArchived(q)
        PROVE  /\ sync' \in [Syncs -> SyncRec(c)] /\ Beside(q) /\ Goes(q, "compute")
               /\ sync'[q].read.shelf = r.shelf /\ sync'[q].read.listed = r.listed
               /\ sync'[q].read.synced = r.synced /\ sync'[q].read.book = r.book
               /\ sync'[q].read.archive = archive
    <2> DEFINE n == [r EXCEPT !.archive = archive]
    <2>2. n \in ReadRec(c) /\ n.archive = archive /\ n.book = r.book /\ n.synced = r.synced
          /\ n.listed = r.listed /\ n.shelf = r.shelf
      BY <1>1, ReadWritten
    <2>3. sync' = [sync EXCEPT ![q] = [sync[q] EXCEPT !.step = "compute", !.read = n]]
      BY <1>7 DEF ReadArchived
    <2> HIDE DEF n
    <2>4. "compute" \in Steps
      BY <1>2
    <2>5. sync' \in [Syncs -> SyncRec(c)] /\ Beside(q) /\ Goes(q, "compute") /\ sync'[q].read = n
      BY <2>2, <2>3, <2>4, ReadIs
    <2> QED
      BY <2>2, <2>5
  <1> QED
    BY <1>3, <1>4, <1>5, <1>6, <1>7

SameSent(x, y) ==
  /\ x.token = y.token /\ x.live = y.live /\ x.gone = y.gone /\ x.fresh = y.fresh
  /\ x.tagged = y.tagged /\ x.orphans = y.orphans /\ x.now = y.now /\ x.more = y.more

Computed(q, page) ==
  LET r == sync[q].read
      a == Answered(r, sync[q].token, page, Now)
      y == sync'[q] IN
  /\ y.step = "dropped" /\ y.read = NoRead /\ y.live = a.live /\ y.gone = a.gone
  /\ y.fresh = a.fresh /\ y.orphans = a.orphans /\ y.tagged = a.tagged /\ y.next = a.next
  /\ y.now = IF a.orphans = {} THEN 0 ELSE Now
  /\ y.more = (Candidates(r, sync[q].token) # page)
  /\ y.token = sync[q].token /\ y.dropped = sync[q].dropped /\ y.rows = sync[q].rows
  /\ y.wanted = sync[q].wanted /\ y.clean = sync[q].clean

LEMMA ComputeIs ==
  ASSUME NEW c \in Nat, sync \in [Syncs -> SyncRec(c)], NEW q \in Syncs, FullRead(sync[q].read, c),
         Compute(q), clock' = c, clock \in Nat, Now \in Nat
  PROVE  /\ sync' \in [Syncs -> SyncRec(c)] /\ Beside(q)
         /\ \E page \in Pages(sync[q].read, sync[q].token) :
              /\ Computed(q, page)
              /\ clock' = IF Answered(sync[q].read, sync[q].token, page, Now).orphans = {}
                          THEN clock ELSE Now
         /\ sync'[q].live \cup sync'[q].gone \cup sync'[q].fresh \cup sync'[q].orphans \subseteq Readable
  <1> DEFINE r == sync[q].read
             t == sync[q].token
  <1>1. PICK page \in Pages(r, t) : LET a == Answered(r, t, page, Now) IN
          /\ sync' = [sync EXCEPT ![q] = [sync[q] EXCEPT
               !.step = "dropped", !.read = NoRead, !.live = a.live, !.gone = a.gone,
               !.fresh = a.fresh, !.orphans = a.orphans, !.tagged = a.tagged, !.next = a.next,
               !.now = IF a.orphans = {} THEN 0 ELSE Now,
               !.more = Candidates(r, t) # page]]
          /\ clock' = IF a.orphans = {} THEN clock ELSE Now
    BY DEF Compute
  <1> DEFINE a == Answered(r, t, page, Now)
             live == a.live  gone == a.gone  fresh == a.fresh  orphans == a.orphans
             tagged == a.tagged  next == a.next
             now == IF orphans = {} THEN 0 ELSE Now
             more == Candidates(r, t) # page
             x == [sync[q] EXCEPT
               !.step = "dropped", !.read = NoRead, !.live = live, !.gone = gone,
               !.fresh = fresh, !.orphans = orphans, !.tagged = tagged, !.next = next,
               !.now = now, !.more = more]
  <1>2. sync[q] \in SyncRec(c) /\ t \in Token(c)
    BY DEF SyncRec
  <1>3. (\E b \in page \cap Readable : ShouldArchive(r, b)) => orphans # {}
    BY DEF Answered
  <1>4. orphans # {} => Now \in 0..c
    BY <1>1
  <1>5. /\ live \subseteq Readable /\ gone \subseteq Readable /\ fresh \subseteq Readable
        /\ orphans \subseteq Readable
        /\ tagged \in SomeTags /\ next \in Token(c)
    BY <1>2, <1>3, <1>4, AnsweredTypes
  <1>6. now \in 0..c /\ more \in BOOLEAN
    BY <1>4
  <1>7. sync' = [sync EXCEPT ![q] = x] /\ clock' = IF orphans = {} THEN clock ELSE Now
    BY <1>1
  <1>8. NoRead \in ReadRec(c) /\ "dropped" \in Steps
    BY DEF NoRead, ReadRec, Steps
  <1>9. live \subseteq Books /\ gone \subseteq Books /\ fresh \subseteq Books /\ orphans \subseteq Books
    BY <1>5, Bounds
  <1> HIDE DEF live, gone, fresh, orphans, tagged, next, now, more, r, t
  <1>10. x \in SyncRec(c)
    BY <1>2, <1>5, <1>6, <1>8, <1>9 DEF SyncRec
  <1>11. /\ x.step = "dropped" /\ x.read = NoRead /\ x.live = live /\ x.gone = gone
         /\ x.fresh = fresh /\ x.orphans = orphans /\ x.tagged = tagged /\ x.next = next
         /\ x.now = now /\ x.more = more /\ x.token = sync[q].token
         /\ x.dropped = sync[q].dropped /\ x.rows = sync[q].rows
         /\ x.wanted = sync[q].wanted /\ x.clean = sync[q].clean
    BY <1>2 DEF SyncRec
  <1> HIDE DEF x
  <1>12. sync' \in [Syncs -> SyncRec(c)] /\ sync'[q] = x /\ Beside(q)
    BY <1>7, <1>10, Becomes
  <1>13. Computed(q, page)
    BY <1>11, <1>12 DEF Computed, live, gone, fresh, orphans, tagged, next, now, more, r, t
  <1>14. page \in Pages(sync[q].read, sync[q].token)
         /\ orphans = Answered(sync[q].read, sync[q].token, page, Now).orphans
    BY <1>1 DEF r, t, orphans
  <1>15. x.live \cup x.gone \cup x.fresh \cup x.orphans \subseteq Readable
    BY <1>5, <1>11
  <1> QED
    BY <1>7, <1>12, <1>13, <1>14, <1>15

Dropped(q, S, step) ==
  LET x == sync[q]
      y == sync'[q] IN
  /\ y.step = step /\ y.dropped = x.dropped \cup S
  /\ SameSent(y, x) /\ y.rows = x.rows /\ y.read = x.read
  /\ y.wanted = x.wanted /\ y.clean = x.clean

LEMMA DropsIs ==
  ASSUME NEW c \in Nat, sync \in [Syncs -> SyncRec(c)], NEW q \in Syncs, NEW gone \in SUBSET Shelves,
         NEW at, \A s \in Shelves : at[s] \in 0..c, NEW step \in Steps, Drops(q, gone, at, step)
  PROVE  /\ sync' \in [Syncs -> SyncRec(c)] /\ Beside(q)
         /\ Dropped(q, {s \in gone : at[s] > sync[q].token.tags}, step)
  <1> DEFINE news == {s \in gone : at[s] > sync[q].token.tags}
             T    == {at[s] : s \in news}
             x    == sync[q]
             tags1 == Latter(x.next.tags, T)
             next == [x.next EXCEPT !.tags = tags1]
             y    == [x EXCEPT !.step = step, !.dropped = x.dropped \cup news, !.next = next]
  <1>1. x \in SyncRec(c) /\ x.next \in Token(c) /\ x.dropped \in SUBSET Shelves
    BY DEF SyncRec
  <1>2. sync' = [sync EXCEPT ![q] = y]
    BY <1>1 DEF Drops
  <1>3. x.next.tags \in 0..c /\ T \subseteq 0..c
    BY <1>1 DEF Token
  <1>4. news \subseteq Shelves
    OBVIOUS
  <1> HIDE DEF T, x, news
  <1>5. tags1 \in 0..c
    BY <1>3, LatterIs
  <1> HIDE DEF tags1
  <1>6. next \in Token(c)
    BY <1>1, <1>5 DEF Token
  <1> HIDE DEF next
  <1>7. y \in SyncRec(c)
    BY <1>1, <1>4, <1>6 DEF SyncRec
  <1>8. /\ y.step = step /\ y.dropped = x.dropped \cup news
        /\ SameSent(y, x) /\ y.rows = x.rows /\ y.read = x.read
        /\ y.wanted = x.wanted /\ y.clean = x.clean
    BY <1>1 DEF SyncRec, SameSent
  <1> HIDE DEF y
  <1>9. sync' \in [Syncs -> SyncRec(c)] /\ sync'[q] = y /\ Beside(q)
    BY <1>2, <1>7, Becomes
  <1> QED
    BY <1>8, <1>9 DEF Dropped, x, news

LEMMA FindOrphansIs ==
  ASSUME NEW c \in Nat, sync \in [Syncs -> SyncRec(c)], NEW q \in Syncs, FindOrphans(q)
  PROVE  LET rows == {b \in sync[q].orphans : archive[b] # <<>>}
             x == sync[q]
             y == sync'[q] IN
         /\ sync' \in [Syncs -> SyncRec(c)] /\ Beside(q)
         /\ y.rows = rows /\ y.step = (IF rows # {} THEN "update" ELSE "insert")
         /\ SameSent(y, x) /\ y.dropped = x.dropped /\ y.wanted = x.wanted /\ y.clean = x.clean
  <1> DEFINE rows == {b \in sync[q].orphans : archive[b] # <<>>}
             step == IF rows # {} THEN "update" ELSE "insert"
             x    == sync[q]
             y    == [x EXCEPT !.rows = rows, !.step = step]
  <1>1. x \in SyncRec(c) /\ x.orphans \in SUBSET Books
    BY DEF SyncRec
  <1>2. sync' = [sync EXCEPT ![q] = y]
    BY <1>1 DEF FindOrphans
  <1>3. rows \in SUBSET Books /\ step \in Steps
    BY <1>1 DEF Steps
  <1> HIDE DEF rows, step, x
  <1>4. y \in SyncRec(c)
    BY <1>1, <1>3 DEF SyncRec
  <1>5. /\ y.rows = rows /\ y.step = step
        /\ SameSent(y, x) /\ y.dropped = x.dropped /\ y.wanted = x.wanted /\ y.clean = x.clean
    BY <1>1 DEF SyncRec, SameSent
  <1> HIDE DEF y
  <1>6. sync' \in [Syncs -> SyncRec(c)] /\ sync'[q] = y /\ Beside(q)
    BY <1>2, <1>4, Becomes
  <1> QED
    BY <1>5, <1>6 DEF rows, step, x

LEMMA AfterWriteIs ==
  ASSUME NEW c \in Nat, sync \in [Syncs -> SyncRec(c)], NEW q \in Syncs, NEW step \in Steps,
         AfterWrite(q, step)
  PROVE  sync' \in [Syncs -> SyncRec(c)] /\ Beside(q) /\ Goes(q, step)
  <1> DEFINE x == [sync[q] EXCEPT !.step = step]
  <1>1. \A p \in Syncs : sync[p] \in SyncRec(c)
    OBVIOUS
  <1>2. x \in SyncRec(c) /\ SameAnswer(x, sync[q]) /\ x.step = step
        /\ x.wanted = sync[q].wanted /\ x.clean = sync[q].clean
    BY <1>1 DEF SyncRec, SameAnswer
  <1>3. sync' = [p \in Syncs |-> IF p = q THEN x ELSE [sync[p] EXCEPT !.clean = FALSE]]
    BY DEF AfterWrite
  <1> HIDE DEF x
  <1>4. sync'[q] = x
    BY <1>3
  <1>5. ASSUME NEW p \in Syncs, p # q PROVE sync'[p] \in SyncRec(c) /\ Kept(p)
    <2>1. sync'[p] = [sync[p] EXCEPT !.clean = FALSE]
      BY <1>3, <1>5
    <2> QED
      BY <1>1, <2>1, Cleaned
  <1>6. \A p \in Syncs : sync'[p] \in SyncRec(c)
    BY <1>2, <1>4, <1>5
  <1>7. sync' \in [Syncs -> SyncRec(c)]
    BY <1>3, <1>6
  <1> QED
    BY <1>2, <1>4, <1>5, <1>7 DEF Beside, Goes

LEMMA EndIs ==
  ASSUME NEW c \in Nat, sync \in [Syncs -> SyncRec(c)], NEW q \in Syncs,
         sync' = [sync EXCEPT ![q] = NoSync]
  PROVE  sync' \in [Syncs -> SyncRec(c)] /\ Beside(q) /\ sync'[q] = NoSync
  BY NoSyncTypes, Becomes

LEMMA LoseIs ==
  ASSUME NEW c \in Nat, sync \in [Syncs -> SyncRec(c)], NEW q \in Syncs, Lose(q)
  PROVE  /\ sync' \in [Syncs -> SyncRec(c)] /\ Beside(q)
         /\ \/ sync'[q] = NoSync
            \/ /\ sync'[q].step = sync[q].step /\ sync'[q].read = sync[q].read
               /\ SameAnswer(sync'[q], sync[q]) /\ ~sync'[q].wanted
  <1>1. CASE sync' = [sync EXCEPT ![q] = NoSync]
    BY <1>1, EndIs
  <1>2. CASE sync' = [sync EXCEPT ![q] = [sync[q] EXCEPT !.wanted = FALSE]]
    <2> DEFINE y == [sync[q] EXCEPT !.wanted = FALSE]
    <2>1. sync[q] \in SyncRec(c)
      OBVIOUS
    <2>2. y \in SyncRec(c) /\ y.step = sync[q].step /\ y.read = sync[q].read
          /\ SameAnswer(y, sync[q]) /\ ~y.wanted
      BY <2>1 DEF SyncRec, SameAnswer
    <2> HIDE DEF y
    <2>3. sync' = [sync EXCEPT ![q] = y]
      BY <1>2 DEF y
    <2>4. sync' \in [Syncs -> SyncRec(c)] /\ sync'[q] = y /\ Beside(q)
      BY <2>2, <2>3, Becomes
    <2> QED
      BY <2>2, <2>4
  <1> QED
    BY <1>1, <1>2 DEF Lose

LEMMA LibraryLeaves ==
  ASSUME NEW c \in Nat, sync \in [Syncs -> SyncRec(c)], Library
  PROVE  sync' \in [Syncs -> SyncRec(c)] /\ \A p \in Syncs : Kept(p)
  <1>1. \A p \in Syncs : sync'[p] = [sync[p] EXCEPT !.clean = FALSE] /\ sync[p] \in SyncRec(c)
    BY DEF Library
  <1>2. \A p \in Syncs : sync'[p] \in SyncRec(c) /\ Kept(p)
    BY <1>1, Cleaned
  <1>3. sync' = [p \in Syncs |-> sync'[p]]
    BY DEF Library
  <1> QED
    BY <1>2, <1>3

-----------------------------------------------------------------------------
(* However requests and synchronisations interleave *)

LEMMA RememberIs ==
  ASSUME Remember, seen \in [Syncs -> Seen]
  PROVE  /\ seen' \in [Syncs -> Seen]
         /\ \A q \in Syncs : sync'[q].step # "idle" =>
              /\ seen[q].enabled \subseteq seen'[q].enabled /\ seen[q].on \subseteq seen'[q].on
              /\ seen[q].free \subseteq seen'[q].free
              /\ \A s \in Shelves : Enabled(s)' => s \in seen'[q].enabled
              /\ \A s \in Shelves, b \in Books : listed'[s][b] # 0 => <<s, b>> \in seen'[q].on
              /\ \A b \in Books : ~IsArchived(archive'[b]) => b \in seen'[q].free
  <1> DEFINE E == {s \in Shelves : shelf'[s].created # 0 /\ shelf'[s].deleted = 0 /\ shelf'[s].enabled}
             L == {p \in Shelves \X Books : listed'[p[1]][p[2]] # 0}
             F == {b \in Books : ~IsArchived(archive'[b])}
             new(q) == [enabled |-> seen[q].enabled \cup E, on |-> seen[q].on \cup L,
                        free |-> seen[q].free \cup F]
  <1>1. seen' = [q \in Syncs |-> IF sync'[q].step = "idle" THEN Unseen ELSE new(q)]
    BY DEF Remember
  <1>2. Unseen \in Seen
    BY DEF Unseen, Seen
  <1>3. E \subseteq Shelves /\ L \subseteq Shelves \X Books /\ F \subseteq Books
    OBVIOUS
  <1>4. /\ \A s \in Shelves : Enabled(s)' => s \in E
        /\ \A s \in Shelves, b \in Books : listed'[s][b] # 0 => <<s, b>> \in L
        /\ \A b \in Books : ~IsArchived(archive'[b]) => b \in F
    BY DEF Enabled, Exists
  <1> HIDE DEF E, L, F
  <1>5. \A q \in Syncs : new(q) \in Seen
    BY <1>3 DEF Seen
  <1>6. seen' \in [Syncs -> Seen]
    BY <1>1, <1>2, <1>5
  <1>7. ASSUME NEW q \in Syncs, sync'[q].step # "idle"
        PROVE  seen'[q].enabled = seen[q].enabled \cup E /\ seen'[q].on = seen[q].on \cup L
               /\ seen'[q].free = seen[q].free \cup F
    BY <1>1, <1>7
  <1> QED
    BY <1>4, <1>6, <1>7

(* The sets of an answer *)
Within(q) ==
  /\ sync[q].live \cup sync[q].gone \cup sync[q].fresh \cup sync[q].orphans \subseteq Readable
  /\ sync[q].rows \subseteq sync[q].orphans

(* What the steps of the synchronisations say of each of them *)
Reaches(q) ==
  \/ Kept(q)
  \/ sync'[q] = NoSync
  \/ /\ sync'[q].step = sync[q].step /\ sync'[q].read = sync[q].read
     /\ SameAnswer(sync'[q], sync[q]) /\ Running(q)
  \/ sync'[q].step \in Answering /\ sync'[q].live = sync[q].live

LEMMA ReachesFine ==
  ASSUME clock \in Nat, clock' \in Nat, clock =< clock', Remember, seen \in [Syncs -> Seen],
         NEW q \in Syncs, ReadShape(q), SeenOK(q), Reaches(q)
  PROVE  ReadShape(q)' /\ SeenOK(q)'
  <1>1. PICK c : c = clock'
    OBVIOUS
  <1>2. /\ SomeShelves(clock) \subseteq SomeShelves(c) /\ SomePlaces(clock) \subseteq SomePlaces(c)
        /\ BookTable(clock) \subseteq BookTable(c) /\ ArchiveTable(clock) \subseteq ArchiveTable(c)
    BY <1>1, TablesLater
  <1>3. NoSync.step = "idle" /\ NoSync.live = {}
    BY NoSyncTypes
  <1>4. CASE sync'[q] = NoSync
    BY <1>3, <1>4 DEF ReadShape, SeenOK, HasShelves, HasListed, HasBooks
  <1>5. CASE sync'[q].step \in Answering /\ sync'[q].live = sync[q].live
    <2>1. sync'[q].step # "idle" /\ sync'[q].step \notin HasShelves /\ sync'[q].step \notin HasListed
          /\ sync'[q].step \notin HasBooks /\ sync'[q].step \notin {"compute", "shelves"}
      BY <1>5 DEF Answering, HasShelves, HasListed, HasBooks
    <2>2. ReadShape(q)'
      BY <2>1 DEF ReadShape
    <2>3. seen[q].enabled \subseteq seen'[q].enabled /\ seen[q].on \subseteq seen'[q].on
          /\ seen[q].free \subseteq seen'[q].free
      BY <2>1, RememberIs
    <2>4. SeenOK(q)'
      BY <1>5, <2>1, <2>3 DEF SeenOK
    <2> QED
      BY <2>2, <2>4
  <1>6. CASE /\ sync'[q].step = sync[q].step /\ sync'[q].read = sync[q].read
             /\ sync'[q].live = sync[q].live /\ sync'[q].orphans = sync[q].orphans
             /\ sync'[q] # NoSync
             /\ sync[q] = NoSync => sync'[q] = NoSync
    <2>1. sync'[q].step # "idle"
      BY <1>6 DEF SeenOK
    <2>2. seen[q].enabled \subseteq seen'[q].enabled /\ seen[q].on \subseteq seen'[q].on
          /\ seen[q].free \subseteq seen'[q].free
      BY <2>1, RememberIs
    <2>3. ReadShape(q)'
      BY <1>1, <1>2, <1>6 DEF ReadShape
    <2>4. SeenOK(q)'
      BY <1>6, <2>1, <2>2 DEF SeenOK
    <2> QED
      BY <2>3, <2>4
  <1>7. CASE Kept(q)
    BY <1>4, <1>6, <1>7 DEF Kept, SameAnswer
  <1>8. CASE /\ sync'[q].step = sync[q].step /\ sync'[q].read = sync[q].read
             /\ SameAnswer(sync'[q], sync[q]) /\ Running(q)
    <2>1. sync[q] # NoSync /\ sync'[q] # NoSync
      BY <1>3, <1>8 DEF Running
    <2> QED
      BY <1>6, <1>8, <2>1 DEF SameAnswer
  <1> QED
    BY <1>4, <1>5, <1>7, <1>8 DEF Reaches

LEMMA ReachesWithin ==
  ASSUME NEW q, Within(q), SameAnswer(sync'[q], sync[q])
  PROVE  Within(q)'
  BY DEF Within, SameAnswer

LEMMA NoSyncFine ==
  ASSUME NEW q, sync'[q] = NoSync
  PROVE  Within(q)'
  BY NoSyncTypes DEF Within

(* What a step leaves of the types *)
TypesAfter ==
  /\ clock' \in Nat /\ clock =< clock'
  /\ LibraryTypes(clock)' /\ DeviceTypes(clock)' /\ SyncTypes(clock)'
  /\ edits' \in 0..MaxEdits /\ deaths' \in 0..MaxDeaths /\ losses' \in 0..MaxLosses
  /\ quiet' \in BOOLEAN
  /\ \A f \in DOMAIN token' : token'[f] % Second = 0

(* A step of one synchronisation, while the others are kept *)
LEMMA OneMoves ==
  ASSUME SyncInvariant, Remember, TypesAfter, NEW q \in Syncs, Beside(q),
         ReadShape(q)' /\ SeenOK(q)' /\ Within(q)'
  PROVE  SyncInvariant'
  <1>1. \A p \in Syncs : ReadShape(p) /\ SeenOK(p) /\ Within(p) /\ clock \in Nat
        /\ seen \in [Syncs -> Seen]
    BY DEF SyncInvariant, OtherTypes, ReadsOK, Within
  <1>2. ASSUME NEW p \in Syncs PROVE ReadShape(p)' /\ SeenOK(p)' /\ Within(p)'
    <2>1. CASE p = q
      BY <2>1
    <2>2. CASE p # q
      <3>1. Kept(p)
        BY <2>2 DEF Beside
      <3>2. ReadShape(p)' /\ SeenOK(p)'
        BY <1>1, <3>1, ReachesFine DEF Reaches, TypesAfter
      <3>3. Within(p)'
        BY <1>1, <3>1, ReachesWithin DEF Kept
      <3> QED
        BY <3>2, <3>3
    <2> QED
      BY <2>1, <2>2
  <1>3. seen' \in [Syncs -> Seen]
    BY <1>1, RememberIs
  <1>4. OtherTypes'
    BY <1>2, <1>3 DEF OtherTypes, TypesAfter, Within
  <1>5. ReadsOK'
    BY <1>2 DEF ReadsOK
  <1> QED
    BY <1>4, <1>5 DEF SyncInvariant, TypesAfter

LEMMA UnchangedTypes ==
  ASSUME SyncInvariant, UNCHANGED libraryVars, UNCHANGED deviceVars, UNCHANGED quiet,
         synced' \in SUBSET Books, losses' \in 0..MaxLosses, sync' \in [Syncs -> SyncRec(clock)]
  PROVE  TypesAfter
  BY DEF SyncInvariant, OtherTypes, LibraryTypes, DeviceTypes, SyncTypes, TypesAfter,
     libraryVars, rowVars, deviceVars

LEMMA InvariantIs ==
  ASSUME SyncInvariant
  PROVE  /\ clock \in Nat /\ LibraryTypes(clock) /\ DeviceTypes(clock)
         /\ sync \in [Syncs -> SyncRec(clock)] /\ token \in Token(clock) /\ synced \in SUBSET Books
         /\ shelf \in ShelfTable(clock) /\ listed \in [Shelves -> Places(clock)]
         /\ book \in BookTable(clock) /\ archive \in ArchiveTable(clock)
         /\ seen \in [Syncs -> Seen] /\ losses \in 0..MaxLosses
         /\ \A q \in Syncs : ReadShape(q) /\ SeenOK(q) /\ Within(q)
  BY DEF SyncInvariant, OtherTypes, LibraryTypes, DeviceTypes, SyncTypes, ReadsOK, Within

LEMMA AskKeeps ==
  ASSUME SyncInvariant, NEW q \in Syncs, Ask(q), Remember
  PROVE  SyncInvariant'
  <1>1. /\ sync' \in [Syncs -> SyncRec(clock)] /\ Beside(q)
        /\ sync'[q].step = "shelves"
        /\ sync'[q].live = {} /\ sync'[q].gone = {} /\ sync'[q].fresh = {} /\ sync'[q].orphans = {}
        /\ sync'[q].rows = {}
    BY InvariantIs, AskIs
  <1>2. TypesAfter
    BY <1>1, InvariantIs, UnchangedTypes DEF Ask, Reads
  <1>3. ReadShape(q)' /\ SeenOK(q)' /\ Within(q)'
    BY <1>1 DEF ReadShape, SeenOK, Within, HasShelves, HasListed, HasBooks
  <1> QED
    BY <1>1, <1>2, <1>3, OneMoves

LEMMA ReadKeeps ==
  ASSUME SyncInvariant, NEW q \in Syncs, Remember,
         ReadShelves(q) \/ ReadListed(q) \/ ReadSynced(q) \/ ReadBooks(q) \/ ReadArchived(q)
  PROVE  SyncInvariant'
  <1> DEFINE r == sync[q].read
             r1 == sync'[q].read
  <1>1. ReadShape(q) /\ SeenOK(q) /\ Within(q) /\ clock \in Nat
    BY InvariantIs
  <1>2. UNCHANGED <<libraryVars, synced, deviceVars, losses, quiet>>
    BY DEF ReadShelves, ReadListed, ReadSynced, ReadBooks, ReadArchived, Reads
  <1>3. clock' = clock /\ shelf' = shelf /\ listed' = listed /\ archive' = archive
    BY <1>2 DEF libraryVars, rowVars
  <1>4. sync[q].step \in HasListed => sync[q].step \in HasShelves
    BY DEF HasListed, HasShelves
  <1>5. sync[q].step \in HasShelves => DOMAIN r.shelf \subseteq Shelves
    BY <1>1 DEF ReadShape, SomeShelves
  <1>7. /\ sync'[q].step \in {"listed", "synced", "books", "archived", "compute"} /\ Goes(q, sync'[q].step)
        /\ sync' \in [Syncs -> SyncRec(clock)] /\ Beside(q)
    BY InvariantIs, ReadingIs, <1>5
       DEF Goes, ReadShelves, ReadListed, ReadSynced, ReadBooks, ReadArchived, At, HasShelves
  <1>8. SameAnswer(sync'[q], sync[q]) /\ sync'[q].step # "idle"
    BY <1>7 DEF Goes
  <1>9. TypesAfter
    BY <1>2, <1>7, InvariantIs, UnchangedTypes
  <1>10. Within(q)'
    BY <1>1, <1>8, ReachesWithin
  <1>11. /\ seen[q].enabled \subseteq seen'[q].enabled /\ seen[q].on \subseteq seen'[q].on
         /\ seen[q].free \subseteq seen'[q].free
         /\ \A s \in Shelves : Enabled(s) => s \in seen'[q].enabled
         /\ \A s \in Shelves, b \in Books : listed[s][b] # 0 => <<s, b>> \in seen'[q].on
         /\ \A b \in Books : ~IsArchived(archive[b]) => b \in seen'[q].free
    BY <1>3, <1>8, RememberIs, InvariantIs DEF Enabled, Exists
  <1>12. \A b \in sync'[q].live :
           b \in seen'[q].free /\ \E s \in seen'[q].enabled : <<s, b>> \in seen'[q].on
    BY <1>1, <1>8, <1>11 DEF SameAnswer, SeenOK
  <1> DEFINE Listed(x) == \A s \in DOMAIN r1.shelf, b \in Books :
                            x[s][b] # 0 => <<s, b>> \in seen'[q].on
  <1>0. sync'[q].orphans = {}
    <2>1. sync[q].step \in {"shelves"} \cup HasShelves
      BY DEF ReadShelves, ReadListed, ReadSynced, ReadBooks, ReadArchived, At, HasShelves
    <2> QED
      BY <1>1, <1>8, <2>1 DEF ReadShape, SameAnswer
  <1>13. CASE ReadShelves(q)
    <2>1. /\ sync'[q].step = "listed" /\ r1.shelf = CurrentShelves
          /\ CurrentShelves \in SomeShelves(clock)
      BY <1>13, InvariantIs, ReadingIs DEF Goes
    <2>2. DOMAIN r1.shelf \subseteq seen'[q].enabled
      BY <1>11, <2>1 DEF CurrentShelves
    <2>3. ReadShape(q)'
      BY <1>0, <1>3, <2>1 DEF ReadShape, HasShelves, HasListed, HasBooks
    <2>4. SeenOK(q)'
      BY <1>12, <2>1, <2>2 DEF SeenOK, HasShelves, HasListed, HasBooks
    <2> QED
      BY <2>3, <2>4, <1>7, <1>9, <1>10, OneMoves
  <1>14. CASE ReadListed(q)
    <2>0. sync[q].step = "listed" /\ sync[q].step \in HasShelves
      BY <1>14 DEF ReadListed, At, HasShelves
    <2>1. /\ sync'[q].step = "synced" /\ r1.shelf = r.shelf
          /\ r1.listed = [s \in DOMAIN r.shelf |-> listed[s]] /\ r1.listed \in SomePlaces(clock)
      BY <1>14, <1>5, <2>0, InvariantIs, ReadingIs DEF Goes
    <2>2. r.shelf \in SomeShelves(clock) /\ DOMAIN r.shelf \subseteq seen[q].enabled
      BY <1>1, <2>0 DEF ReadShape, SeenOK
    <2>3. Listed(r1.listed)
      BY <1>5, <1>11, <2>0, <2>1
    <2>4. ReadShape(q)'
      BY <1>0, <1>3, <2>1, <2>2 DEF ReadShape, HasBooks
    <2>5. SeenOK(q)'
      BY <1>11, <1>12, <2>1, <2>2, <2>3 DEF SeenOK
    <2> QED
      BY <2>4, <2>5, <1>7, <1>9, <1>10, OneMoves
  <1>15. CASE ReadSynced(q) \/ ReadBooks(q) \/ ReadArchived(q)
    <2>0. sync[q].step \in {"synced", "books", "archived"}
          /\ sync[q].step \in HasShelves /\ sync[q].step \in HasListed
      BY <1>15 DEF ReadSynced, ReadBooks, ReadArchived, At, HasShelves, HasListed
    <2>1. r1.shelf = r.shelf /\ r1.listed = r.listed
      BY <1>15, InvariantIs, ReadingIs
    <2>2. /\ r.shelf \in SomeShelves(clock) /\ DOMAIN r.shelf \subseteq seen[q].enabled
          /\ r.listed \in SomePlaces(clock) /\ DOMAIN r.listed = DOMAIN r.shelf
          /\ \A s \in DOMAIN r.shelf, b \in Books : r.listed[s][b] # 0 => <<s, b>> \in seen[q].on
      BY <1>1, <2>0 DEF ReadShape, SeenOK
    <2>3. sync'[q].step \in HasBooks => r1.book \in BookTable(clock)
      <3>1. CASE ReadSynced(q)
        BY <3>1, InvariantIs, ReadingIs DEF Goes, HasBooks
      <3>2. CASE ReadBooks(q)
        BY <3>2, InvariantIs, ReadingIs
      <3>3. CASE ReadArchived(q)
        <4>1. sync[q].step \in HasBooks
          BY <3>3 DEF ReadArchived, At, HasBooks
        <4>2. r1.book = r.book
          BY <3>3, InvariantIs, ReadingIs
        <4> QED
          BY <1>1, <4>1, <4>2 DEF ReadShape
      <3> QED
        BY <1>15, <3>1, <3>2, <3>3
    <2>4. sync'[q].step = "compute" => r1.archive = archive
      BY <1>15, InvariantIs, ReadingIs DEF Goes
    <2>5. ReadShape(q)'
      BY <1>0, <1>3, <2>1, <2>2, <2>3, <2>4, InvariantIs DEF ReadShape
    <2>6. SeenOK(q)'
      BY <1>8, <1>11, <1>12, <2>1, <2>2, <2>4 DEF SeenOK
    <2> QED
      BY <2>5, <2>6, <1>7, <1>9, <1>10, OneMoves
  <1> QED
    BY <1>13, <1>14, <1>15

(* Every book that is sent as present was on a shelf that was read, and free. *)
LEMMA LiveIsActive ==
  ASSUME NEW r, NEW t, NEW page \in Pages(r, t), NEW now, NEW b \in Answered(r, t, page, now).live
  PROVE  b \in Books /\ ~IsArchived(r.archive[b]) /\ \E s \in DOMAIN r.shelf : r.listed[s][b] # 0
  <1>1. b \in page /\ ~SentArchived(r, b)
    BY DEF Answered
  <1>2. b \in Scope(r)
    BY <1>1, PagesAre
  <1> QED
    BY <1>1, <1>2 DEF Scope, SentArchived, Orphaned, Active

LEMMA FullReadIs ==
  ASSUME SyncInvariant, NEW q \in Syncs, At(q, "compute"), NEW c \in Nat, clock =< c
  PROVE  FullRead(sync[q].read, c)
  <1>1. clock \in Nat /\ ReadShape(q) /\ sync[q].read.synced \in SUBSET Books
    BY InvariantIs DEF SyncRec, ReadRec
  <1>2. /\ sync[q].step \in HasShelves /\ sync[q].step \in HasListed /\ sync[q].step \in HasBooks
        /\ sync[q].step = "compute"
    BY DEF At, HasShelves, HasListed, HasBooks
  <1>3. /\ SomeShelves(clock) \subseteq SomeShelves(c) /\ SomePlaces(clock) \subseteq SomePlaces(c)
        /\ BookTable(clock) \subseteq BookTable(c) /\ ArchiveTable(clock) \subseteq ArchiveTable(c)
    BY <1>1, TablesLater
  <1> QED
    BY <1>1, <1>2, <1>3 DEF ReadShape, FullRead

LEMMA ComputeKeeps ==
  ASSUME SyncInvariant, NEW q \in Syncs, Compute(q), Remember
  PROVE  SyncInvariant'
  <1> DEFINE r == sync[q].read
             t == sync[q].token
  <1>1. PICK c : c = clock'
    OBVIOUS
  <1>2. c \in Nat /\ clock \in Nat /\ Now \in Nat /\ clock =< c
    BY <1>1, InvariantIs, Bounds DEF Compute, Now
  <1>3. LibraryTypes(c) /\ DeviceTypes(c) /\ SyncTypes(c)
    BY <1>2, InvariantIs, TypesLater DEF SyncInvariant
  <1>4. FullRead(r, c) /\ FullRead(r, clock)
    BY <1>2, FullReadIs DEF Compute
  <1>5. /\ sync' \in [Syncs -> SyncRec(c)] /\ Beside(q)
        /\ \E page \in Pages(r, t) : Computed(q, page)
        /\ sync'[q].live \cup sync'[q].gone \cup sync'[q].fresh \cup sync'[q].orphans \subseteq Readable
    BY <1>1, <1>2, <1>3, <1>4, ComputeIs DEF SyncTypes
  <1>6. PICK page \in Pages(r, t) : Computed(q, page)
    BY <1>5
  <1>7. /\ book' = book /\ shelf' = shelf /\ listed' = listed /\ archive' = archive /\ task' = task
        /\ edits' = edits /\ deaths' = deaths /\ synced' = synced /\ losses' = losses /\ quiet' = quiet
        /\ token' = token /\ has' = has /\ tags' = tags
    BY DEF Compute, deviceVars
  <1>8. TypesAfter
    BY <1>1, <1>2, <1>3, <1>5, <1>7
       DEF TypesAfter, SyncInvariant, OtherTypes, LibraryTypes, DeviceTypes, SyncTypes
  <1>9. sync'[q].step = "dropped" /\ sync'[q].live = Answered(r, t, page, Now).live
        /\ sync'[q].rows = sync[q].rows
    BY <1>6 DEF Computed
  <1>10. /\ seen[q].enabled \subseteq seen'[q].enabled /\ seen[q].on \subseteq seen'[q].on
         /\ seen[q].free \subseteq seen'[q].free
    BY <1>9, RememberIs, InvariantIs
  <1>11. /\ DOMAIN r.shelf \subseteq seen[q].enabled
         /\ \A s \in DOMAIN r.shelf, b \in Books : r.listed[s][b] # 0 => <<s, b>> \in seen[q].on
         /\ \A b \in Books : ~IsArchived(r.archive[b]) => b \in seen[q].free
    BY InvariantIs DEF SeenOK, HasShelves, HasListed, Compute, At
  <1>12. \A b \in sync'[q].live :
           b \in seen'[q].free /\ \E s \in seen'[q].enabled : <<s, b>> \in seen'[q].on
    BY <1>9, <1>10, <1>11, LiveIsActive
  <1>13. ReadShape(q)' /\ SeenOK(q)'
    BY <1>9, <1>12 DEF ReadShape, SeenOK, HasShelves, HasListed, HasBooks
  <1>14. Within(q)'
    <2>1. sync'[q].rows \subseteq sync'[q].orphans
      <3>1. sync[q].orphans = {}
        BY InvariantIs DEF ReadShape, Compute, At, HasShelves
      <3> QED
        BY <1>9, <3>1, InvariantIs DEF Within
    <2> QED
      BY <1>5, <2>1 DEF Within
  <1> QED
    BY <1>5, <1>8, <1>13, <1>14, OneMoves

(* A step within the answer, which is only written on *)
LEMMA AnswerMoves ==
  ASSUME SyncInvariant, Remember, TypesAfter, NEW q \in Syncs, Beside(q),
         sync'[q].step \in Answering, SameSent(sync'[q], sync[q]),
         sync'[q].rows \subseteq sync'[q].orphans
  PROVE  SyncInvariant'
  <1>1. clock \in Nat /\ seen \in [Syncs -> Seen] /\ ReadShape(q) /\ SeenOK(q) /\ Within(q)
    BY InvariantIs
  <1>2. Reaches(q)
    BY DEF Reaches, SameSent
  <1>3. ReadShape(q)' /\ SeenOK(q)'
    BY <1>1, <1>2, ReachesFine DEF TypesAfter
  <1>4. Within(q)'
    BY <1>1 DEF Within, SameSent
  <1> QED
    BY <1>3, <1>4, OneMoves

LEMMA DropsKeeps ==
  ASSUME SyncInvariant, NEW q \in Syncs, ReadDropped(q) \/ ReadDisabled(q), Remember
  PROVE  SyncInvariant'
  <1>1. UNCHANGED <<libraryVars, synced, deviceVars, losses, quiet>>
    BY DEF ReadDropped, ReadDisabled, Reads
  <1>2. {"disabled", "orphans", "mark", "answer"} \subseteq Steps \cap Answering
    BY DEF Steps, Answering
  <1>3. \A s \in Shelves : shelf[s].deleted \in 0..clock /\ shelf[s].disabled \in 0..clock
    BY InvariantIs DEF ShelfTable, ShelfRow
  <1>4. \E S \in SUBSET Shelves, step \in {"disabled", "orphans", "mark", "answer"} :
          sync' \in [Syncs -> SyncRec(clock)] /\ Beside(q) /\ Dropped(q, S, step)
    <2>1. CASE ReadDropped(q)
      <3> DEFINE at == [s \in Shelves |-> shelf[s].deleted]
      <3>1. \A s \in Shelves : at[s] \in 0..clock
        BY <1>3
      <3>2. Drops(q, Shelves, at, "disabled")
        BY <2>1 DEF ReadDropped
      <3> HIDE DEF at
      <3>3. sync' \in [Syncs -> SyncRec(clock)] /\ Beside(q)
            /\ Dropped(q, {s \in Shelves : at[s] > sync[q].token.tags}, "disabled")
        BY <1>2, <3>1, <3>2, InvariantIs, DropsIs
      <3> QED
        BY <3>3
    <2>2. CASE ReadDisabled(q)
      <3> DEFINE at == [s \in Shelves |-> shelf[s].disabled]
                 off == {s \in Shelves : ~shelf[s].enabled}
                 step == IF sync[q].orphans # {} THEN "orphans"
                         ELSE IF sync[q].fresh # {} THEN "mark" ELSE "answer"
      <3>1. (\A s \in Shelves : at[s] \in 0..clock) /\ off \in SUBSET Shelves
            /\ step \in {"disabled", "orphans", "mark", "answer"}
        BY <1>3
      <3>2. Drops(q, off, at, step)
        BY <2>2 DEF ReadDisabled
      <3> HIDE DEF at, off, step
      <3>3. sync' \in [Syncs -> SyncRec(clock)] /\ Beside(q)
            /\ Dropped(q, {s \in off : at[s] > sync[q].token.tags}, step)
        BY <1>2, <3>1, <3>2, InvariantIs, DropsIs
      <3> QED
        BY <3>1, <3>3
    <2> QED
      BY <2>1, <2>2
  <1>5. TypesAfter
    BY <1>1, <1>4, InvariantIs, UnchangedTypes
  <1>6. /\ Beside(q) /\ sync'[q].step \in Answering /\ SameSent(sync'[q], sync[q])
        /\ sync'[q].rows = sync[q].rows
    BY <1>2, <1>4 DEF Dropped
  <1>7. sync'[q].rows \subseteq sync'[q].orphans
    BY <1>6, InvariantIs DEF Within, SameSent
  <1> QED
    BY <1>5, <1>6, <1>7, AnswerMoves

LEMMA FindKeeps ==
  ASSUME SyncInvariant, NEW q \in Syncs, FindOrphans(q), Remember
  PROVE  SyncInvariant'
  <1>1. UNCHANGED <<libraryVars, synced, deviceVars, losses, quiet>>
    BY DEF FindOrphans, Reads
  <1> DEFINE rows == {b \in sync[q].orphans : archive[b] # <<>>}
  <1>2. /\ sync' \in [Syncs -> SyncRec(clock)] /\ Beside(q)
        /\ sync'[q].rows = rows /\ sync'[q].step \in {"update", "insert"}
        /\ SameSent(sync'[q], sync[q])
    BY InvariantIs, FindOrphansIs
  <1>3. TypesAfter
    BY <1>1, <1>2, InvariantIs, UnchangedTypes
  <1>4. sync'[q].rows \subseteq sync'[q].orphans
    BY <1>2 DEF SameSent
  <1> QED
    BY <1>2, <1>3, <1>4, AnswerMoves DEF Answering

(* The rows of the orphans, written *)
LEMMA ArchiveWritten ==
  ASSUME SyncInvariant, NEW q \in Syncs, UpdateOrphans(q) \/ InsertOrphans(q)
  PROVE  /\ archive' \in ArchiveTable(clock)
         /\ \A b \in Books : archive'[b] =
              IF UpdateOrphans(q)
              THEN IF b \in sync[q].rows
                   THEN [i \in DOMAIN archive[b] |-> [is |-> TRUE, at |-> sync[q].now]]
                   ELSE archive[b]
              ELSE IF b \in sync[q].orphans \ sync[q].rows
                   THEN Append(archive[b], [is |-> TRUE, at |-> sync[q].now]) ELSE archive[b]
  <1> DEFINE row == [is |-> TRUE, at |-> sync[q].now]
  <1>1. sync[q].now \in 0..clock /\ clock \in Nat
    BY InvariantIs DEF SyncRec
  <1>2. row \in ArchiveRow(clock)
    BY <1>1 DEF ArchiveRow
  <1>3. \A b \in Books : archive[b] \in Seq(ArchiveRow(clock))
    BY InvariantIs DEF ArchiveTable
  <1>4. CASE UpdateOrphans(q)
    <2>1. archive' = [b \in Books |-> IF b \in sync[q].rows
                        THEN [i \in DOMAIN archive[b] |-> row] ELSE archive[b]]
      BY <1>4 DEF UpdateOrphans
    <2> HIDE DEF row
    <2>2. \A b \in Books : [i \in DOMAIN archive[b] |-> row] \in Seq(ArchiveRow(clock))
      <3> SUFFICES ASSUME NEW b \in Books
                   PROVE  [i \in DOMAIN archive[b] |-> row] \in Seq(ArchiveRow(clock))
        OBVIOUS
      <3> DEFINE t == [i \in DOMAIN archive[b] |-> row]
      <3>1. t = [i \in DOMAIN archive[b] |-> t[i]] /\ \A i \in DOMAIN archive[b] : t[i] \in ArchiveRow(clock)
        BY <1>2
      <3> HIDE DEF t
      <3>2. t \in Seq(ArchiveRow(clock))
        BY <1>3, <3>1, RowsKept
      <3> QED
        BY <3>2 DEF t
    <2>3. archive' \in ArchiveTable(clock)
      BY <1>3, <2>1, <2>2 DEF ArchiveTable
    <2> QED
      BY <1>4, <2>1, <2>3 DEF row
  <1>5. CASE ~UpdateOrphans(q) /\ InsertOrphans(q)
    <2>1. archive' = [b \in Books |-> IF b \in sync[q].orphans \ sync[q].rows
                        THEN Append(archive[b], row) ELSE archive[b]]
      BY <1>5 DEF InsertOrphans
    <2> HIDE DEF row
    <2>2. \A b \in Books : Append(archive[b], row) \in Seq(ArchiveRow(clock))
      BY <1>2, <1>3
    <2>3. archive' \in ArchiveTable(clock)
      BY <1>3, <2>1, <2>2 DEF ArchiveTable
    <2> QED
      BY <1>5, <2>1, <2>3 DEF row
  <1> QED
    BY <1>4, <1>5

LEMMA WriteKeeps ==
  ASSUME SyncInvariant, NEW q \in Syncs, Remember,
         UpdateOrphans(q) \/ InsertOrphans(q) \/ MarkSynced(q)
  PROVE  SyncInvariant'
  <1>1. {"insert", "mark", "answer"} \subseteq Steps \cap Answering
    BY DEF Steps, Answering
  <1>2. PICK step \in {"insert", "mark", "answer"} : AfterWrite(q, step)
    BY DEF UpdateOrphans, InsertOrphans, MarkSynced
  <1>3. step \in Steps \cap Answering
    BY <1>1
  <1>4. sync' \in [Syncs -> SyncRec(clock)] /\ Beside(q) /\ Goes(q, step)
    BY <1>2, <1>3, InvariantIs, AfterWriteIs
  <1>5. archive' \in ArchiveTable(clock)
    BY ArchiveWritten, InvariantIs DEF MarkSynced, libraryVars, rowVars
  <1>6. /\ clock' = clock /\ book' = book /\ shelf' = shelf /\ listed' = listed
        /\ task' = task /\ edits' = edits /\ deaths' = deaths
        /\ token' = token /\ has' = has /\ tags' = tags /\ losses' = losses /\ quiet' = FALSE
    BY DEF UpdateOrphans, InsertOrphans, MarkSynced, Disturb, libraryVars, rowVars, deviceVars
  <1>7. synced' \in SUBSET Books
    BY InvariantIs DEF UpdateOrphans, InsertOrphans, MarkSynced, SyncRec
  <1>8. TypesAfter
    <2>1. LibraryTypes(clock)'
      BY <1>5, <1>6, InvariantIs DEF LibraryTypes
    <2>2. DeviceTypes(clock)'
      BY <1>6, <1>7, InvariantIs DEF DeviceTypes
    <2>3. SyncTypes(clock)'
      BY <1>4, <1>6 DEF SyncTypes
    <2>4. quiet' \in BOOLEAN
      BY <1>6, Zenon
    <2> QED
      BY <1>6, <2>1, <2>2, <2>3, <2>4 DEF TypesAfter, SyncInvariant, OtherTypes
  <1>9. sync'[q].step \in Answering /\ SameSent(sync'[q], sync[q]) /\ sync'[q].rows = sync[q].rows
    BY <1>3, <1>4 DEF Goes, SameAnswer, SameSent
  <1>10. sync'[q].rows \subseteq sync'[q].orphans
    BY <1>9, InvariantIs DEF Within, SameSent
  <1> QED
    BY <1>4, <1>8, <1>9, <1>10, AnswerMoves

(* A synchronisation that ends *)
LEMMA EndKeeps ==
  ASSUME SyncInvariant, NEW q \in Syncs, Remember, TypesAfter, Beside(q), sync'[q] = NoSync
  PROVE  SyncInvariant'
  <1>1. clock \in Nat /\ seen \in [Syncs -> Seen] /\ ReadShape(q) /\ SeenOK(q)
    BY InvariantIs
  <1>2. ReadShape(q)' /\ SeenOK(q)'
    BY <1>1, ReachesFine DEF Reaches, TypesAfter
  <1>3. Within(q)'
    BY NoSyncFine
  <1> QED
    BY <1>2, <1>3, OneMoves

LEMMA ReceiveKeeps ==
  ASSUME SyncInvariant, NEW q \in Syncs, Receive(q), Remember
  PROVE  SyncInvariant'
  <1> DEFINE a == sync[q]
  <1>1. sync' \in [Syncs -> SyncRec(clock)] /\ Beside(q) /\ sync'[q] = NoSync
    BY InvariantIs, EndIs DEF Receive
  <1>2. a \in SyncRec(clock) /\ clock \in Nat
    BY InvariantIs
  <1>3. a.next \in Token(clock) /\ a.tagged \in SomeTags \cup {<<>>} /\ a.clean \in BOOLEAN
    BY <1>2 DEF SyncRec
  <1>4. token' \in Token(clock) /\ \A f \in DOMAIN token' : token'[f] % Second = 0
    BY <1>2, <1>3, HeaderIs DEF Receive
  <1>5. has' \in [Books -> {"unknown", "live", "archived"}]
    BY InvariantIs DEF Receive, DeviceTypes
  <1>6. tags' \in [Shelves -> Tag]
    <2>1. NoTag \in Tag
      BY DEF NoTag, Tag
    <2>2. \A s \in DOMAIN a.tagged : [on |-> TRUE, books |-> a.tagged[s]] \in Tag
      <3>1. \A s \in DOMAIN a.tagged : a.tagged[s] \in SUBSET Books
        BY <1>3 DEF SomeTags
      <3> QED
        BY <3>1 DEF Tag
    <2>3. tags' = [s \in Shelves |->
            IF s \in a.dropped THEN NoTag
            ELSE IF s \in DOMAIN a.tagged THEN [on |-> TRUE, books |-> a.tagged[s]] ELSE tags[s]]
      BY DEF Receive
    <2>4. \A s \in Shelves : tags[s] \in Tag
      BY InvariantIs DEF DeviceTypes
    <2> QED
      BY <2>1, <2>2, <2>3, <2>4
  <1>7. quiet' \in BOOLEAN
    BY DEF Receive
  <1>8. /\ clock' = clock /\ book' = book /\ shelf' = shelf /\ listed' = listed /\ archive' = archive
        /\ task' = task /\ edits' = edits /\ deaths' = deaths /\ synced' = synced /\ losses' = losses
    BY DEF Receive, libraryVars, rowVars
  <1>9. TypesAfter
    BY <1>1, <1>4, <1>5, <1>6, <1>7, <1>8
       DEF TypesAfter, SyncInvariant, OtherTypes, LibraryTypes, DeviceTypes, SyncTypes
  <1> QED
    BY <1>1, <1>9, EndKeeps

LEMMA LateKeeps ==
  ASSUME SyncInvariant, NEW q \in Syncs, Late(q), Remember
  PROVE  SyncInvariant'
  <1>1. sync' \in [Syncs -> SyncRec(clock)] /\ Beside(q) /\ sync'[q] = NoSync
    BY InvariantIs, EndIs DEF Late
  <1>2. TypesAfter
    BY <1>1, InvariantIs, UnchangedTypes DEF Late, Reads
  <1> QED
    BY <1>1, <1>2, EndKeeps

LEMMA LoseKeeps ==
  ASSUME SyncInvariant, NEW q \in Syncs, Lose(q), Remember
  PROVE  SyncInvariant'
  <1>1. /\ sync' \in [Syncs -> SyncRec(clock)] /\ Beside(q)
        /\ \/ sync'[q] = NoSync
           \/ /\ sync'[q].step = sync[q].step /\ sync'[q].read = sync[q].read
              /\ SameAnswer(sync'[q], sync[q]) /\ ~sync'[q].wanted
    BY InvariantIs, LoseIs
  <1>2. losses' \in 0..MaxLosses
    BY InvariantIs, Bounds DEF Lose
  <1>3. TypesAfter
    BY <1>1, <1>2, InvariantIs, UnchangedTypes DEF Lose
  <1>4. CASE sync'[q] = NoSync
    BY <1>1, <1>3, <1>4, EndKeeps
  <1>5. CASE /\ sync'[q].step = sync[q].step /\ sync'[q].read = sync[q].read
             /\ SameAnswer(sync'[q], sync[q])
    <2>1. ReadShape(q)' /\ SeenOK(q)'
      BY <1>3, <1>5, InvariantIs, ReachesFine DEF Reaches, TypesAfter, Lose
    <2>2. Within(q)'
      BY <1>5, InvariantIs, ReachesWithin
    <2> QED
      BY <1>1, <1>3, <2>1, <2>2, OneMoves
  <1> QED
    BY <1>1, <1>4, <1>5

LEMMA LibraryKeeps ==
  ASSUME SyncInvariant, Library, Remember
  PROVE  SyncInvariant'
  <1>1. /\ clock' \in Nat /\ clock =< clock' /\ LibraryTypes(clock)'
        /\ edits' \in 0..MaxEdits /\ deaths' \in 0..MaxDeaths
    BY LibraryStep DEF SyncInvariant, OtherTypes, Library
  <1>2. PICK c : c = clock'
    OBVIOUS
  <1>3. sync' \in [Syncs -> SyncRec(clock)] /\ \A p \in Syncs : Kept(p)
    BY InvariantIs, LibraryLeaves
  <1>4. DeviceTypes(c)
    BY <1>1, <1>2, InvariantIs, TypesLater
  <1>5. sync' \in [Syncs -> SyncRec(c)]
    <2>1. PICK f : f = sync'
      OBVIOUS
    <2>2. SyncRec(clock) \subseteq SyncRec(c)
      BY <1>1, <1>2, InvariantIs, RecLater
    <2> QED
      BY <1>3, <2>2
  <1>6. synced' = synced /\ token' = token /\ has' = has /\ tags' = tags /\ losses' = losses /\ quiet' = FALSE
    BY DEF Library, deviceVars
  <1>7. TypesAfter
    BY <1>1, <1>2, <1>4, <1>5, <1>6
       DEF TypesAfter, SyncInvariant, OtherTypes, DeviceTypes, SyncTypes
  <1>8. ASSUME NEW p \in Syncs PROVE ReadShape(p)' /\ SeenOK(p)' /\ Within(p)'
    <2>1. clock \in Nat /\ seen \in [Syncs -> Seen] /\ ReadShape(p) /\ SeenOK(p) /\ Within(p)
      BY InvariantIs
    <2>2. Kept(p)
      BY <1>3
    <2>3. ReadShape(p)' /\ SeenOK(p)'
      BY <1>1, <2>1, <2>2, ReachesFine DEF Reaches
    <2>4. Within(p)'
      BY <2>1, <2>2, ReachesWithin DEF Kept
    <2> QED
      BY <2>3, <2>4
  <1>9. seen' \in [Syncs -> Seen]
    BY InvariantIs, RememberIs
  <1>10. OtherTypes'
    BY <1>7, <1>8, <1>9 DEF OtherTypes, TypesAfter, Within
  <1> QED
    BY <1>7, <1>8, <1>10 DEF SyncInvariant, TypesAfter, ReadsOK

LEMMA NextKeeps ==
  ASSUME SyncInvariant, Next
  PROVE  SyncInvariant'
  <1>1. Remember
    BY DEF Next
  <1>2. CASE Library
    BY <1>1, <1>2, LibraryKeeps
  <1>3. ASSUME NEW q \in Syncs, Ask(q) \/ Serve(q) \/ Lose(q) PROVE SyncInvariant'
    <2>1. CASE Ask(q)
      BY <1>1, <2>1, AskKeeps
    <2>2. CASE Lose(q)
      BY <1>1, <2>2, LoseKeeps
    <2>3. CASE ReadShelves(q) \/ ReadListed(q) \/ ReadSynced(q) \/ ReadBooks(q) \/ ReadArchived(q)
      BY <1>1, <2>3, ReadKeeps
    <2>4. CASE Compute(q)
      BY <1>1, <2>4, ComputeKeeps
    <2>5. CASE ReadDropped(q) \/ ReadDisabled(q)
      BY <1>1, <2>5, DropsKeeps
    <2>6. CASE FindOrphans(q)
      BY <1>1, <2>6, FindKeeps
    <2>7. CASE UpdateOrphans(q) \/ InsertOrphans(q) \/ MarkSynced(q)
      BY <1>1, <2>7, WriteKeeps
    <2>8. CASE Receive(q)
      BY <1>1, <2>8, ReceiveKeeps
    <2>9. CASE Late(q)
      BY <1>1, <2>9, LateKeeps
    <2> QED
      BY <1>3, <2>1, <2>2, <2>3, <2>4, <2>5, <2>6, <2>7, <2>8, <2>9 DEF Serve
  <1> QED
    BY <1>2, <1>3 DEF Next

LEMMA StutterKeeps ==
  ASSUME SyncInvariant, UNCHANGED vars
  PROVE  SyncInvariant'
  <1>1. /\ clock' = clock /\ book' = book /\ shelf' = shelf /\ listed' = listed /\ archive' = archive
        /\ task' = task /\ edits' = edits /\ deaths' = deaths /\ synced' = synced /\ token' = token
        /\ has' = has /\ tags' = tags /\ sync' = sync /\ losses' = losses /\ quiet' = quiet /\ seen' = seen
    BY DEF vars, libraryVars, rowVars, deviceVars, historyVars
  <1>2. OtherTypes' /\ LibraryTypes(clock)' /\ DeviceTypes(clock)' /\ SyncTypes(clock)'
    BY <1>1 DEF SyncInvariant, OtherTypes, LibraryTypes, DeviceTypes, SyncTypes
  <1>3. ReadsOK'
    BY <1>1 DEF SyncInvariant, ReadsOK, ReadShape, SeenOK
  <1> QED
    BY <1>2, <1>3 DEF SyncInvariant

LEMMA InitSyncs ==
  ASSUME NEW c \in Nat, sync = [q \in Syncs |-> NoSync], seen = [q \in Syncs |-> Unseen]
  PROVE  SyncTypes(c) /\ ReadsOK /\ seen \in [Syncs -> Seen] /\ \A q \in Syncs : Within(q)
  <1>1. NoSync \in SyncRec(c) /\ NoSync.step = "idle" /\ NoSync.live = {} /\ NoSync.gone = {}
        /\ NoSync.fresh = {} /\ NoSync.orphans = {} /\ NoSync.rows = {}
    BY NoSyncTypes
  <1>2. \A q \in Syncs : sync[q] = NoSync
    OBVIOUS
  <1>3. SyncTypes(c)
    BY <1>1 DEF SyncTypes
  <1>4. ReadsOK
    BY <1>1, <1>2 DEF ReadsOK, ReadShape, SeenOK, HasShelves, HasListed, HasBooks
  <1>5. \A q \in Syncs : Within(q)
    BY <1>1, <1>2 DEF Within
  <1>6. Unseen \in Seen
    BY DEF Unseen, Seen
  <1> QED
    BY <1>3, <1>4, <1>5, <1>6

LEMMA InitLibrary ==
  ASSUME LibraryInit
  PROVE  /\ clock \in Nat /\ clock >= 2 /\ edits = 0 /\ deaths = 0
         /\ book \in BookTable(clock) /\ shelf \in ShelfTable(clock)
         /\ listed \in [Shelves -> Places(clock)] /\ task \in [Editors -> Task(clock)]
  <1>1. clock \in Nat /\ clock >= 2 /\ edits = 0 /\ deaths = 0 /\ task = [e \in Editors |-> Idle]
    BY DEF LibraryInit
  <1>2. PICK c : c = clock
    OBVIOUS
  <1>3. 0 \in 0..c /\ 2 \in 0..c /\ c \in Nat
    BY <1>1, <1>2
  <1>4. book \in BookTable(c)
    <2>1. \E B : book = [b \in Books |-> LET at == IF b \in B THEN 2 ELSE 0 IN
                           [born |-> at, modified |-> at]]
      BY DEF LibraryInit
    <2> QED
      BY <1>3, <2>1 DEF BookTable, BookRow
  <1>5. shelf \in ShelfTable(c)
    <2>1. \E S \in SUBSET Shelves, on \in BOOLEAN : shelf = [s \in Shelves |-> LET at == IF s \in S THEN 2 ELSE 0 IN
                     [created |-> at, updated |-> at, deleted |-> 0,
                      enabled |-> on /\ s \in S, disabled |-> 0]]
      BY DEF LibraryInit
    <2> QED
      BY <1>3, <2>1 DEF ShelfTable, ShelfRow
  <1>6. listed \in [Shelves -> Places(c)]
    <2>1. \E L : listed = [s \in Shelves |-> [b \in Books |-> IF <<s, b>> \in L THEN 2 ELSE 0]]
      BY DEF LibraryInit
    <2> QED
      BY <1>3, <2>1 DEF Places
  <1>7. task \in [Editors -> Task(c)]
    BY <1>1, <1>3, IdleTask
  <1> QED
    BY <1>1, <1>2, <1>4, <1>5, <1>6, <1>7

LEMMA InitDevice ==
  ASSUME NewDevice \/ DeviceInUse, clock \in Nat, clock >= 2
  PROVE  DeviceTypes(clock) /\ archive \in ArchiveTable(clock)
         /\ \A f \in DOMAIN token : token[f] % Second = 0
  <1>1. PICK c : c = clock
    OBVIOUS
  <1>2. 0 \in 0..c /\ 2 \in 0..c /\ c \in Nat
    BY <1>1
  <1>3. NoToken \in Token(c)
    BY <1>2 DEF NoToken, Token
  <1>4. NoTag \in Tag
    BY DEF NoTag, Tag
  <1>5. 0 % Second = 0
    BY Bounds
  <1>6. <<>> \in Seq(ArchiveRow(c))
    OBVIOUS
  <1>7. CASE NewDevice
    <2>1. \A f \in DOMAIN token : token[f] % Second = 0
      BY <1>5, <1>7 DEF NewDevice, NoToken
    <2> QED
      BY <1>1, <1>3, <1>4, <1>6, <1>7, <2>1 DEF NewDevice, DeviceTypes, ArchiveTable
  <1>8. CASE DeviceInUse
    <2>1. Floor(2) \in 0..c /\ Floor(2) % Second = 0
      BY <1>2, FloorIs
    <2>2. token = [modified |-> Floor(2), created |-> Floor(2), archive |-> Floor(2), tags |-> Floor(2)]
      BY <1>8 DEF DeviceInUse, NoToken
    <2>3. token \in Token(c) /\ \A f \in DOMAIN token : token[f] % Second = 0
      BY <2>1, <2>2 DEF Token
    <2>4. \A s \in Shelves : tags[s] \in Tag
      <3>1. \A s \in Shelves : [on |-> TRUE, books |-> On(s)] \in Tag
        BY DEF Tag, On
      <3> QED
        BY <1>4, <1>8, <3>1 DEF DeviceInUse
    <2>5. tags \in [Shelves -> Tag]
      BY <1>8, <2>4 DEF DeviceInUse
    <2>6. synced \in SUBSET Books /\ has \in [Books -> {"unknown", "live", "archived"}]
      BY <1>8 DEF DeviceInUse, Offered
    <2>7. archive \in ArchiveTable(c)
      <3>1. [is |-> FALSE, at |-> 2] \in ArchiveRow(c)
        BY <1>2 DEF ArchiveRow
      <3>2. <<[is |-> FALSE, at |-> 2]>> \in Seq(ArchiveRow(c))
        BY <3>1
      <3> QED
        BY <1>6, <1>8, <3>2 DEF DeviceInUse, ArchiveTable
    <2> QED
      BY <1>1, <2>3, <2>5, <2>6, <2>7 DEF DeviceTypes
  <1> QED
    BY <1>7, <1>8

LEMMA InitHolds ==
  ASSUME Init
  PROVE  SyncInvariant
  <1>1. /\ clock \in Nat /\ clock >= 2 /\ edits = 0 /\ deaths = 0
        /\ book \in BookTable(clock) /\ shelf \in ShelfTable(clock)
        /\ listed \in [Shelves -> Places(clock)] /\ task \in [Editors -> Task(clock)]
    BY InitLibrary DEF Init
  <1>2. DeviceTypes(clock) /\ archive \in ArchiveTable(clock)
        /\ \A f \in DOMAIN token : token[f] % Second = 0
    BY <1>1, InitDevice DEF Init
  <1>3. SyncTypes(clock) /\ ReadsOK /\ seen \in [Syncs -> Seen] /\ \A q \in Syncs : Within(q)
    BY <1>1, InitSyncs DEF Init
  <1>4. losses = 0 /\ quiet = FALSE
    BY DEF Init
  <1>5. edits \in 0..MaxEdits /\ deaths \in 0..MaxDeaths /\ losses \in 0..MaxLosses
    BY <1>1, <1>4, Bounds
  <1>7. quiet \in BOOLEAN
    BY <1>4, Zenon
  <1>6. OtherTypes
    BY <1>1, <1>2, <1>3, <1>5, <1>7 DEF OtherTypes, Within
  <1> QED
    BY <1>1, <1>2, <1>3, <1>6 DEF SyncInvariant, LibraryTypes

(* The rows, the token and the answers have their types, no time in them is     *)
(* ahead of the clock, and what a synchronisation has read was there to be seen. *)
THEOREM SyncInvariantHolds == Spec => []SyncInvariant
  <1>1. Init => SyncInvariant
    BY InitHolds
  <1>2. SyncInvariant /\ [Next]_vars => SyncInvariant'
    BY NextKeeps, StutterKeeps
  <1> QED
    BY <1>1, <1>2, PTL DEF Spec

(* The histories are of books. *)
HistoryTypes == passed \subseteq Books /\ raced \subseteq Books

LEMMA DeviceLeft ==
  ASSUME Next, passed' # passed
  PROVE  \E q \in Syncs : passed' = (passed \ (sync[q].live \cup sync[q].gone)) \cup Overtaken(sync[q])
  <1>1. ~Library
    BY DEF Library, deviceVars
  <1>2. PICK q \in Syncs : Ask(q) \/ Serve(q) \/ Lose(q)
    BY <1>1 DEF Next
  <1>3. Receive(q)
    BY <1>2 DEF Ask, Serve, Lose, ReadShelves, ReadListed, ReadSynced, ReadBooks, ReadArchived, Compute,
       ReadDropped, ReadDisabled, FindOrphans, UpdateOrphans, InsertOrphans, MarkSynced, Late, Reads,
       deviceVars
  <1> QED
    BY <1>3 DEF Receive

THEOREM HistoryTypesHold == Spec => []HistoryTypes
  <1>1. Init => HistoryTypes
    BY DEF Init, HistoryTypes
  <1>2. ASSUME HistoryTypes, [Next]_vars PROVE HistoryTypes'
    <2>1. CASE Next
      <3>1. passed' \subseteq Books
        BY <1>2, <2>1, DeviceLeft DEF HistoryTypes, Overtaken
      <3>2. raced' \subseteq Books
        BY <1>2, <2>1 DEF HistoryTypes, Next, Remember
      <3> QED
        BY <3>1, <3>2 DEF HistoryTypes
    <2>2. CASE UNCHANGED vars
      BY <1>2, <2>2 DEF HistoryTypes, vars, deviceVars, historyVars
    <2> QED
      BY <1>2, <2>1, <2>2
  <1> QED
    BY <1>1, <1>2, PTL DEF Spec

LEMMA InvariantTypes ==
  ASSUME SyncInvariant, HistoryTypes
  PROVE  TypeOK
  <1>1. 0..clock \subseteq Nat
    BY InvariantIs
  <1>2. book \in [Books -> [born : Nat, modified : Nat]]
    BY <1>1, InvariantIs DEF BookTable, BookRow
  <1>3. shelf \in [Shelves -> [created : Nat, updated : Nat, deleted : Nat,
                               enabled : BOOLEAN, disabled : Nat]]
    BY <1>1, InvariantIs DEF ShelfTable, ShelfRow
  <1>4. listed \in [Shelves -> [Books -> Nat]]
    BY <1>1, InvariantIs DEF Places
  <1>5. \A b \in Books : archive[b] \in Seq([is : BOOLEAN, at : Nat])
    <2> DEFINE R == [is : BOOLEAN, at : Nat]
    <2>1. ArchiveRow(clock) \subseteq R
      BY <1>1 DEF ArchiveRow
    <2> HIDE DEF R
    <2>2. Seq(ArchiveRow(clock)) \subseteq Seq(R)
      BY <2>1
    <2> QED
      BY <2>2, InvariantIs DEF ArchiveTable, R
  <1>6. Token(clock) \subseteq Times
    BY <1>1 DEF Token, Times
  <1>7. token \in Times /\ synced \subseteq Books
    BY <1>6, InvariantIs
  <1>8. has \in [Books -> {"unknown", "live", "archived"}]
        /\ tags \in [Shelves -> [on : BOOLEAN, books : SUBSET Books]]
    BY InvariantIs DEF DeviceTypes, Tag
  <1>9. ASSUME NEW q \in Syncs
        PROVE  sync[q].step \in Steps /\ sync[q].token \in Times /\ sync[q].next \in Times
    BY <1>6, InvariantIs DEF SyncRec
  <1> QED
    BY <1>2, <1>3, <1>4, <1>5, <1>7, <1>8, <1>9 DEF SyncInvariant, OtherTypes, HistoryTypes, TypeOK

(* Type correctness of the library and its synchronisations *)
THEOREM TypeCorrect == Spec => []TypeOK
  <1>1. SyncInvariant /\ HistoryTypes => TypeOK
    BY InvariantTypes
  <1> QED
    BY <1>1, SyncInvariantHolds, HistoryTypesHold, PTL

(* However the statements of requests and of other synchronisations fall between   *)
(* the reads of buildLocalLibrarySync, an answer shows a book only if a shelf that  *)
(* was enabled at a moment of the synchronisation had the book at one, and the     *)
(* book was not archived at one.                                                  *)
THEOREM ShowsOnlyOfferedHolds == Spec => []ShowsOnlyOffered
  <1>1. SyncInvariant => ShowsOnlyOffered
    BY DEF SyncInvariant, ReadsOK, SeenOK, ShowsOnlyOffered
  <1> QED
    BY <1>1, SyncInvariantHolds, PTL

-----------------------------------------------------------------------------
(* While they take turns: a request's statement and what it does to its task *)

Alone(e) == \A f \in Editors : f # e => ~Busy(f)
NoneRuns == \A q \in Syncs : ~Running(q)

LEMMA StatementIs ==
  ASSUME NEW e \in Editors, LibraryTypes(clock), Statement(e)
  PROVE  Busy(e) /\ Others(e) /\ clock' \in {clock, Now} /\ deaths' = deaths
  <1>1. task \in [Editors -> Task(clock)]
    BY DEF LibraryTypes
  <1>2. Busy(e)
    BY DEF Statement, Due, Links, Insert, Member, FindArchived, Unarchive, Touch, Delete, Removable,
       Spare, Enable, Toggle, Drop, InsertShelf, InsertMember, WriteDiscard, Modify, InsertBook
  <1>3. clock' \in {clock, Now} /\ deaths' = deaths
    BY DEF Statement, Links, Insert, Member, FindArchived, Unarchive, Touch, Delete, Removable,
       Spare, Enable, Toggle, Drop, InsertShelf, InsertMember, WriteDiscard, Modify, InsertBook, Stamp,
       rowVars
  <1>4. \E x : task' = [task EXCEPT ![e] = x]
    <2>1. CASE InsertShelf(e)
      BY <2>1 DEF InsertShelf
    <2>2. CASE Links(e)
      BY <2>2 DEF Links, Keep
    <2>3. CASE FindArchived(e)
      BY <2>3 DEF FindArchived, Keep
    <2>4. CASE Removable(e)
      BY <2>4 DEF Removable, Keep
    <2>5. CASE Spare(e)
      BY <2>5 DEF Spare, Keep
    <2>6. CASE \E t : Follow(e, t)
      BY <2>6 DEF Follow
    <2> QED
      BY <2>1, <2>2, <2>3, <2>4, <2>5, <2>6
         DEF Statement, Insert, Member, Unarchive, Touch, Delete, Enable, Toggle, Drop,
             InsertMember, WriteDiscard, Modify, InsertBook, Proceed
  <1>5. Others(e)
    BY <1>1, <1>4 DEF Others
  <1> QED
    BY <1>2, <1>3, <1>5

(* A request and the synchronisations take turns. *)
LEMMA LibraryTurn ==
  ASSUME SyncInvariant, TakingTurns, TakingTurns', Library,
         NEW e \in Editors, Request(e) \/ Statement(e) \/ Abandon(e)
  PROVE  Alone(e) /\ NoneRuns /\ NoneRuns'
  <1>1. LibraryTypes(clock) /\ clock \in Nat /\ task \in [Editors -> Task(clock)]
    BY InvariantIs DEF LibraryTypes
  <1>2. \A q \in Syncs : Running(q)' = Running(q)
    BY InvariantIs, LibraryLeaves DEF Kept, Running
  <1>3. CASE Request(e)
    <2>1. PICK op, todo, S, B, was : Start(e, op, todo, S, B, was) /\ Plan(op, todo, S, B, was)
      BY <1>1, <1>3, RequestStarts DEF Starts
    <2>2. Others(e) /\ task'[e].todo = todo /\ todo # <<>>
      BY <1>1, <2>1, StartTypes DEF Plan
    <2>3. Busy(e)'
      BY <2>2 DEF Busy
    <2>4. \A f \in Editors : f # e => Busy(f)' = Busy(f)
      BY <2>2 DEF Others, Busy
    <2> QED
      BY <1>2, <2>3, <2>4 DEF TakingTurns, Alone, NoneRuns
  <1>4. CASE Statement(e) \/ Abandon(e)
    <2>1. Busy(e)
      BY <1>1, <1>4, StatementIs DEF Abandon
    <2> QED
      BY <1>2, <2>1 DEF TakingTurns, Alone, NoneRuns
  <1> QED
    BY <1>3, <1>4

(* The shelf of a request *)
LEMMA HereIs ==
  ASSUME NEW e \in Editors, TaskOK(e), Busy(e), Due1(e) \notin {"discard", "modify", "upload"}
  PROVE  /\ Here(e) \in Shelves /\ task[e].shelf = {Here(e)}
         /\ shelf[Here(e)].created = 0 <=> Due1(e) \in {"row", "found"}
         /\ Due1(e) = "found" => task[e].at > 0
         /\ Due1(e) = "toggle" => task[e].was = shelf[Here(e)].enabled
         /\ Due1(e) \in {"toggle", "enable"} => shelf[Here(e)].deleted = 0
         /\ task[e].op # "upload" /\ task[e].books \cup task[e].fresh \subseteq Uploaded
  <1>1. PICK s \in Shelves :
          /\ task[e].shelf = {s}
          /\ shelf[s].created = 0 <=> Due1(e) \in {"row", "found"}
          /\ Due1(e) = "found" => task[e].at > 0
          /\ Due1(e) = "toggle" => task[e].was = shelf[s].enabled
          /\ Due1(e) \in {"toggle", "enable"} => shelf[s].deleted = 0
    BY DEF TaskOK, Busy
  <1>2. Here(e) = s
    BY <1>1 DEF Here
  <1>3. task[e].op # "upload"
    BY ShortHeads DEF TaskOK, Due1
  <1> QED
    BY <1>1, <1>2, <1>3 DEF TaskOK

LEMMA IdleOK ==
  ASSUME NEW e, task'[e] = Idle
  PROVE  TaskOK(e)'
  BY IdleTask DEF TaskOK

(* A request that goes on has a shelf, and that is as it has found it. *)
LEMMA FollowOK ==
  ASSUME NEW e \in Editors, TaskOK(e), Busy(e), Due1(e) \notin {"discard", "modify", "upload"},
         task'[e].todo # <<>>,
         Head(task'[e].todo) \notin {"toggle", "discard", "modify", "upload", "row", "enable"},
         task'[e].op = task[e].op, task'[e].shelf = task[e].shelf,
         task'[e].books \cup task'[e].fresh \subseteq Uploaded',
         shelf'[Here(e)].created = 0 <=> Head(task'[e].todo) = "found",
         Head(task'[e].todo) = "found" => task'[e].at > 0
  PROVE  TaskOK(e)'
  <1>1. Here(e) \in Shelves /\ task'[e].shelf = {Here(e)} /\ task'[e].op # "upload"
    BY HereIs
  <1> QED
    BY <1>1 DEF TaskOK, Due1

LEMMA UploadedStays ==
  ASSUME NEW e \in Editors, LibraryTypes(clock), clock \in Nat, Statement(e)
  PROVE  Uploaded \subseteq Uploaded'
  <1>1. Now # 0 /\ Now \in Nat
    BY Bounds DEF Now
  <1>2. CASE Modify(e)
    <2>1. \A b \in Books : book'[b].born = book[b].born
      BY <1>2 DEF Modify, LibraryTypes, BookTable, BookRow
    <2> QED
      BY <2>1 DEF Uploaded
  <1>3. CASE InsertBook(e)
    <2>1. \A b \in Books : book'[b] = book[b] \/ book'[b].born = Now
      BY <1>3 DEF InsertBook
    <2> QED
      BY <1>1, <2>1 DEF Uploaded
  <1>4. CASE book' = book
    BY <1>4 DEF Uploaded
  <1> QED
    BY <1>2, <1>3, <1>4
       DEF Statement, Links, Insert, Member, FindArchived, Unarchive, Touch, Delete, Removable,
       Spare, Enable, Toggle, Drop, InsertShelf, InsertMember, WriteDiscard, rowVars

(* A request that makes a statement and goes on to the next *)
LEMMA ProceedOK ==
  ASSUME NEW e \in Editors, LibraryTypes(clock), clock \in Nat, TaskOK(e), Busy(e),
         Due1(e) \notin {"discard", "modify", "upload", "row"},
         Proceed(e), Uploaded \subseteq Uploaded',
         shelf'[Here(e)].created # 0
  PROVE  TaskOK(e)'
  <1> DEFINE t == task[e].todo
  <1>1. task \in [Editors -> Task(clock)] /\ t \in Todos /\ t # <<>> /\ Tail(t) \in Todos
    BY DueIs DEF LibraryTypes
  <1>2. CASE Tail(t) = <<>>
    BY <1>1, <1>2, FollowTypes, IdleOK DEF Proceed
  <1>3. CASE Tail(t) # <<>>
    <2>1. /\ task'[e].todo = Tail(t) /\ task'[e].op = task[e].op /\ task'[e].shelf = task[e].shelf
          /\ task'[e].books = task[e].books /\ task'[e].fresh = task[e].fresh
      BY <1>1, <1>3, FollowTypes DEF Proceed
    <2>2. /\ Head(Tail(t)) \notin {"toggle", "discard", "modify", "upload", "row", "enable"}
          /\ Head(Tail(t)) # "found"
      BY <1>1, <1>3, TailTodo DEF Due1
    <2>3. task[e].books \cup task[e].fresh \subseteq Uploaded
      BY HereIs
    <2> QED
      BY <1>3, <2>1, <2>2, <2>3, FollowOK
  <1> QED
    BY <1>2, <1>3

(* A request that has found out which books it is about *)
LEMMA KeepOK ==
  ASSUME NEW e \in Editors, LibraryTypes(clock), clock \in Nat, TaskOK(e), Busy(e),
         Due1(e) \notin {"discard", "modify", "upload", "row", "found"},
         NEW field, NEW B, B \subseteq task[e].books \cup task[e].fresh, NEW t \in Todos, Keep(e, field, B, t),
         t # <<>> =>
           Head(t) \notin {"toggle", "discard", "modify", "upload", "row", "enable", "found"},
         book' = book, shelf' = shelf
  PROVE  TaskOK(e)'
  <1>1. task \in [Editors -> Task(clock)] /\ task[e].books \cup task[e].fresh \subseteq Uploaded
    BY HereIs DEF LibraryTypes
  <1>2. B \in SUBSET Books
    BY <1>1 DEF Uploaded
  <1>3. CASE t = <<>>
    BY <1>1, <1>2, <1>3, KeepTypes, IdleOK
  <1>4. CASE t # <<>>
    <2>1. /\ task'[e].todo = t /\ task'[e].op = task[e].op /\ task'[e].shelf = task[e].shelf
          /\ task'[e].books \cup task'[e].fresh \subseteq task[e].books \cup task[e].fresh \cup B
      BY <1>1, <1>2, <1>4, KeepTypes
    <2>2. Uploaded' = Uploaded
      BY DEF Uploaded
    <2>3. task'[e].books \cup task'[e].fresh \subseteq Uploaded'
      BY <1>1, <2>1, <2>2
    <2>4. shelf'[Here(e)].created # 0
      BY HereIs
    <2> QED
      BY <1>4, <2>1, <2>3, <2>4, FollowOK
  <1> QED
    BY <1>3, <1>4

LEMMA NextHeads ==
  ASSUME NEW t \in Todos, t # <<>>
  PROVE  /\ Tail(t) \in Todos
         /\ Tail(t) # <<>> /\ Head(t) # "row" =>
              Head(Tail(t)) \notin {"toggle", "discard", "modify", "upload", "row", "enable", "found"}
         /\ Head(t) = "archived" =>
              /\ Tail(Tail(t)) \in Todos
              /\ Tail(Tail(t)) # <<>> =>
                   Head(Tail(Tail(t))) \notin {"toggle", "discard", "modify", "upload", "row", "enable", "found"}
  <1>1. Tail(t) \in Todos
    BY TailTodo
  <1>2. Tail(t) # <<>> /\ Head(t) # "row" =>
          Head(Tail(t)) \notin {"toggle", "discard", "modify", "upload", "row", "enable", "found"}
    BY TailTodo
  <1>3. ASSUME Head(t) = "archived"
        PROVE  /\ Tail(Tail(t)) \in Todos
               /\ Tail(Tail(t)) # <<>> =>
                    Head(Tail(Tail(t))) \notin {"toggle", "discard", "modify", "upload", "row", "enable", "found"}
    <2> DEFINE u == Tail(t)
    <2>1. u \in Todos /\ u # <<>> /\ Head(u) = "unarchive"
      BY <1>1, <1>3, TailTodo
    <2> HIDE DEF u
    <2>2. Tail(u) \in Todos /\ (Tail(u) # <<>> =>
            Head(Tail(u)) \notin {"toggle", "discard", "modify", "upload", "row", "enable", "found"})
      BY <2>1, TailTodo
    <2> QED
      BY <2>2 DEF u
  <1> QED
    BY <1>1, <1>2, <1>3

LEMMA MadeTodos ==
  /\ <<"archived", "unarchive">> \in Todos /\ <<"touch">> \in Todos /\ <<>> \in Todos
  /\ <<"archived", "unarchive">> # <<>> /\ Head(<<"archived", "unarchive">>) = "archived"
  /\ <<"touch">> # <<>> /\ Head(<<"touch">>) = "touch"
  BY ListedTodos, ShortHeads

(* Every statement leaves the request with a shelf it has found as it is. *)
LEMMA StatementTask ==
  ASSUME NEW e \in Editors, LibraryTypes(clock), clock \in Nat, TaskOK(e), Statement(e)
  PROVE  TaskOK(e)'
  <1> DEFINE t == task[e].todo
  <1>1. Busy(e) /\ Uploaded \subseteq Uploaded'
    BY StatementIs, UploadedStays
  <1>2. /\ task \in [Editors -> Task(clock)] /\ t \in Todos /\ t # <<>> /\ Tail(t) \in Todos
        /\ Due1(e) = Head(t)
    BY <1>1, DueIs DEF LibraryTypes, Due1
  <1>3. \A s : Due(e, s) => Due1(e) = s
    BY DEF Due, Due1
  <1>4. Due1(e) \notin {"discard", "modify", "upload"} =>
          /\ Here(e) \in Shelves
          /\ shelf[Here(e)].created = 0 <=> Due1(e) \in {"row", "found"}
    BY <1>1, HereIs
  <1>5. \A s \in Shelves : shelf[s] \in ShelfRow(clock)
    BY DEF LibraryTypes, ShelfTable
  <1>6. Now # 0 /\ Now > 0
    BY Bounds DEF Now
  <1>7. CASE Links(e)
    <2> DEFINE B == task[e].books \ On(Here(e))
               u == IF B # {} THEN Tail(t)
                    ELSE IF task[e].op = "tagAdd" THEN <<"archived", "unarchive">> ELSE <<>>
    <2>1. Due1(e) = "links" /\ book' = book /\ shelf' = shelf /\ B \subseteq task[e].books
      BY <1>3, <1>7 DEF Links, rowVars
    <2>2. Keep(e, "fresh", B, u)
      BY <1>7 DEF Links
    <2>3. u \in Todos /\ (u # <<>> =>
            Head(u) \notin {"toggle", "discard", "modify", "upload", "row", "enable", "found"})
      BY <1>2, <2>1, NextHeads, MadeTodos
    <2> HIDE DEF B, u
    <2> QED
      BY <1>1, <2>1, <2>2, <2>3, KeepOK
  <1>8. CASE FindArchived(e)
    <2> DEFINE A == IF task[e].op = "add" THEN task[e].fresh ELSE task[e].books
               B == {b \in A : RowsArchived(b)}
               u == IF B = {} THEN Tail(Tail(t)) ELSE Tail(t)
    <2>1. Due1(e) = "archived" /\ book' = book /\ shelf' = shelf
          /\ B \subseteq task[e].books \cup task[e].fresh
      BY <1>3, <1>8 DEF FindArchived, rowVars
    <2>2. Keep(e, "books", B, u)
      BY <1>8 DEF FindArchived
    <2>3. u \in Todos /\ (u # <<>> =>
            Head(u) \notin {"toggle", "discard", "modify", "upload", "row", "enable", "found"})
      BY <1>2, <2>1, NextHeads
    <2> HIDE DEF B, u
    <2> QED
      BY <1>1, <2>1, <2>2, <2>3, KeepOK
  <1>9. CASE Removable(e) \/ Spare(e)
    <2> DEFINE Q(B) == Keep(e, "books", B, IF B = {} THEN <<>> ELSE Tail(t))
    <2>1. Due1(e) \in {"removable", "spare"} /\ book' = book /\ shelf' = shelf
      BY <1>3, <1>9 DEF Removable, Spare, rowVars
    <2>2. \E B \in SUBSET task[e].books : Q(B)
      BY <1>9 DEF Removable, Spare
    <2>3. PICK B \in SUBSET task[e].books : Q(B)
      BY <2>2
    <2> DEFINE u == IF B = {} THEN <<>> ELSE Tail(t)
    <2>4. u \in Todos /\ (u # <<>> =>
            Head(u) \notin {"toggle", "discard", "modify", "upload", "row", "enable", "found"})
      BY <1>2, <2>1, NextHeads, MadeTodos
    <2>5. Keep(e, "books", B, u)
      BY <2>3
    <2> HIDE DEF u
    <2> QED
      BY <1>1, <2>1, <2>4, <2>5, KeepOK
  <1>10. CASE Member(e)
    <2>1. Due1(e) = "member" /\ shelf' = shelf
      BY <1>3, <1>10 DEF Member, rowVars
    <2>2. CASE shelf[Here(e)].enabled
      BY <1>1, <1>4, <1>10, <2>1, <2>2, ProceedOK DEF Member, Proceed
    <2>3. CASE ~shelf[Here(e)].enabled
      <3>1. /\ task'[e].todo = <<"touch">> /\ task'[e].op = task[e].op /\ task'[e].shelf = task[e].shelf
            /\ task'[e].books = task[e].books /\ task'[e].fresh = task[e].fresh
        BY <1>2, <1>10, <2>3, MadeTodos, FollowTypes DEF Member
      <3>2. task[e].books \cup task[e].fresh \subseteq Uploaded
        BY <1>1, <2>1, HereIs
      <3> QED
        BY <1>1, <1>4, <2>1, <3>1, <3>2, MadeTodos, FollowOK
    <2> QED
      BY <2>2, <2>3
  <1>11. CASE Insert(e)
    <2>1. Due1(e) = "insert" /\ shelf' = shelf
      BY <1>3, <1>11 DEF Insert
    <2>2. CASE Proceed(e)
      BY <1>1, <1>4, <2>1, <2>2, ProceedOK
    <2>3. CASE Follow(e, <<>>)
      BY <1>2, <2>3, MadeTodos, FollowTypes, IdleOK
    <2> QED
      BY <1>11, <2>2, <2>3 DEF Insert
  <1>12. CASE Unarchive(e) \/ Delete(e)
    <2>1. Due1(e) \in {"unarchive", "delete"} /\ shelf' = shelf /\ Proceed(e)
      BY <1>3, <1>12 DEF Unarchive, Delete
    <2> QED
      BY <1>1, <1>4, <2>1, ProceedOK
  <1>13. CASE Touch(e) \/ Enable(e) \/ Toggle(e) \/ Drop(e)
    <2>1. Due1(e) \in {"touch", "enable", "toggle", "drop"} /\ Proceed(e)
      BY <1>3, <1>13 DEF Touch, Enable, Toggle, Drop
    <2>2. shelf \in [Shelves -> ShelfRow(clock)]
      BY DEF LibraryTypes, ShelfTable
    <2>3. shelf'[Here(e)].created = shelf[Here(e)].created
      BY <1>4, <1>5, <1>13, <2>1, <2>2 DEF Touch, Enable, Toggle, Drop, ShelfRow
    <2> QED
      BY <1>1, <1>4, <2>1, <2>3, ProceedOK
  <1>14. CASE InsertShelf(e)
    <2> DEFINE u == Tail(t)
               x == task[e]
               n == [x EXCEPT !.at = Now, !.todo = u]
    <2>1. Due1(e) = "row" /\ shelf' = shelf
      BY <1>3, <1>14 DEF InsertShelf
    <2>2. u # <<>> /\ Head(u) = "found"
      BY <1>2, <2>1, TailTodo
    <2>3. x \in Task(clock)
      BY <1>2
    <2>4. task' = [task EXCEPT ![e] = n]
      BY <1>2, <1>14 DEF InsertShelf
    <2> HIDE DEF u, x
    <2>5. n.todo = u /\ n.op = x.op /\ n.shelf = x.shelf /\ n.books = x.books /\ n.fresh = x.fresh
          /\ n.at = Now
      BY <2>3 DEF Task
    <2>6. task'[e] = n
      BY <1>2, <2>4
    <2>7. task[e].books \cup task[e].fresh \subseteq Uploaded
      BY <1>1, <2>1, HereIs
    <2> HIDE DEF n
    <2> QED
      BY <1>1, <1>4, <1>6, <2>1, <2>2, <2>5, <2>6, <2>7, FollowOK DEF x
  <1>15. CASE InsertMember(e)
    <2>1. Due1(e) = "found" /\ Proceed(e) /\ task[e].at # 0
      BY <1>1, <1>3, <1>15, HereIs DEF InsertMember
    <2>2. shelf \in [Shelves -> ShelfRow(clock)]
      BY DEF LibraryTypes, ShelfTable
    <2>3. shelf'[Here(e)].created = task[e].at
      BY <1>4, <1>15, <2>1, <2>2 DEF InsertMember
    <2> QED
      BY <1>1, <2>1, <2>3, ProceedOK
  <1>16. CASE WriteDiscard(e) \/ Modify(e) \/ InsertBook(e)
    <2>1. Head(t) \in {"discard", "modify", "upload"} /\ Proceed(e)
      BY <1>2, <1>3, <1>16 DEF WriteDiscard, Modify, InsertBook
    <2>2. Tail(t) = <<>>
      BY <1>2, <2>1, TailTodo
    <2> QED
      BY <1>2, <2>1, <2>2, FollowTypes, IdleOK DEF Proceed
  <1> QED
    BY <1>7, <1>8, <1>9, <1>10, <1>11, <1>12, <1>13, <1>14, <1>15, <1>16 DEF Statement

-----------------------------------------------------------------------------
(* What a statement does to the rows *)

(* A row that says whether a book is archived is written with the time. *)
LEMMA ArchiveStep ==
  ASSUME NEW e \in Editors, LibraryTypes(clock), clock \in Nat, TaskOK(e), OneArchiveRow, Statement(e),
         NEW b \in Books
  PROVE  /\ Len(archive'[b]) =< 1
         /\ archive'[b] = archive[b] \/ (archive'[b] # <<>> /\ ArchivedAt(archive'[b]) = Now)
  <1>1. archive \in [Books -> Seq(ArchiveRow(clock))] /\ archive[b] \in Seq(ArchiveRow(clock))
        /\ Len(archive[b]) =< 1
    BY DEF LibraryTypes, ArchiveTable, OneArchiveRow
  <1> DEFINE Goal == /\ Len(archive'[b]) =< 1
                     /\ archive'[b] = archive[b] \/ (archive'[b] # <<>> /\ ArchivedAt(archive'[b]) = Now)
  <1>2. ASSUME archive'[b] = archive[b] PROVE Goal
    BY <1>1, <1>2
  <1>3. \A r : Len(<<r>>) = 1 /\ <<r>> # <<>> /\ <<r>>[1] = r
    OBVIOUS
  <1>4. ASSUME NEW r, archive'[b] = <<r>>, r.at = Now PROVE Goal
    BY <1>3, <1>4 DEF ArchivedAt, Latest
  <1> SUFFICES Goal
    OBVIOUS
  <1> HIDE DEF Goal
  <1>8. \A v : [is |-> v, at |-> Now].at = Now
    OBVIOUS
  <1>5. CASE Unarchive(e) /\ archive'[b] # archive[b]
    <2>1. b \in task[e].books
      BY <1>5 DEF Unarchive
    <2>2. archive'[b] = [i \in DOMAIN archive[b] |->
               IF archive[b][i].is THEN [is |-> FALSE, at |-> Now] ELSE archive[b][i]]
      BY <1>5, <2>1 DEF Unarchive
    <2>3. CASE Len(archive[b]) = 0
      <3>1. archive'[b] = archive[b]
        BY <1>1, <2>2, <2>3
      <3> QED
        BY <1>5, <3>1
    <2>4. CASE Len(archive[b]) = 1
      <3> DEFINE row == IF archive[b][1].is THEN [is |-> FALSE, at |-> Now] ELSE archive[b][1]
      <3>1. DOMAIN archive[b] = 1..1
        BY <1>1, <2>4
      <3>2. archive'[b] = [i \in 1..1 |-> row]
        BY <2>2, <3>1
      <3>3. archive[b] = <<archive[b][1]>>
        BY <1>1, <2>4
      <3> HIDE DEF row
      <3>4. archive'[b] = <<row>>
        BY <3>2
      <3>5. row = [is |-> FALSE, at |-> Now]
        BY <1>5, <3>3, <3>4 DEF row
      <3> QED
        BY <1>4, <1>8, <3>4, <3>5
    <2>5. Len(archive[b]) \in Nat
      BY <1>1
    <2>6. \A n \in Nat : n =< 1 => n = 0 \/ n = 1
      OBVIOUS
    <2> QED
      BY <1>1, <2>3, <2>4, <2>5, <2>6, Zenon
  <1>6. CASE WriteDiscard(e) /\ archive'[b] # archive[b]
    <2> DEFINE row == [is |-> TRUE, at |-> Now]
    <2>1. PICK x \in task[e].books : archive' = [archive EXCEPT ![x] =
            IF task[e].was THEN [@ EXCEPT ![1] = row] ELSE Append(@, row)]
      BY <1>6 DEF WriteDiscard
    <2>2. Busy(e) /\ Due1(e) = "discard"
      BY <1>6 DEF WriteDiscard, Due, Due1
    <2>3. PICK d \in Books : task[e].books = {d} /\ task[e].was = (archive[d] # <<>>)
      BY <2>2 DEF TaskOK, Busy
    <2>4. x = b /\ d = b
      BY <1>1, <1>6, <2>1, <2>3
    <2>5. archive'[b] = IF archive[b] # <<>> THEN [archive[b] EXCEPT ![1] = row] ELSE Append(archive[b], row)
      BY <1>1, <2>1, <2>3, <2>4
    <2> HIDE DEF row
    <2>6. CASE archive[b] # <<>>
      <3>1. archive[b] = <<archive[b][1]>>
        BY <1>1, <2>6
      <3>2. [archive[b] EXCEPT ![1] = row] = <<row>>
        BY <3>1
      <3> QED
        BY <1>4, <1>8, <2>5, <2>6, <3>2 DEF row
    <2>7. CASE archive[b] = <<>>
      <3>1. Append(archive[b], row) = <<row>>
        BY <2>7
      <3> QED
        BY <1>4, <1>8, <2>5, <2>7, <3>1 DEF row
    <2> QED
      BY <2>6, <2>7
  <1>7. Unarchive(e) \/ WriteDiscard(e) \/ archive' = archive
    BY DEF Statement, Links, Insert, Member, FindArchived, Touch, Delete, Removable,
       Spare, Enable, Toggle, Drop, InsertShelf, InsertMember, Modify, InsertBook, rowVars
  <1> QED
    BY <1>2, <1>5, <1>6, <1>7

(* The shelf a statement writes, and what it makes of it *)
ShelfStatement(e) == Touch(e) \/ Enable(e) \/ Toggle(e) \/ Drop(e) \/ InsertMember(e)

LEMMA ShelfDue ==
  ASSUME NEW e \in Editors, TaskOK(e), ShelfStatement(e)
  PROVE  Busy(e) /\ task[e].shelf = {Here(e)}
  <1>1. Busy(e) /\ Due1(e) \in {"touch", "enable", "toggle", "drop", "found"}
    BY DEF ShelfStatement, Touch, Enable, Toggle, Drop, InsertMember, Due, Due1
  <1> QED
    BY <1>1, HereIs

LEMMA ShelfStep ==
  ASSUME NEW e \in Editors, LibraryTypes(clock), clock \in Nat, TaskOK(e), ShelfStatement(e)
  PROVE  LET h == Here(e)
             x == shelf[h]
             y == shelf'[h] IN
         /\ h \in Shelves /\ listed' = listed /\ book' = book
         /\ \A s \in Shelves : s # h => shelf'[s] = shelf[s]
         /\ (x.created = 0 <=> InsertMember(e)) /\ y.created # 0
         /\ InsertMember(e) \/ y.created = x.created
         /\ Touch(e) => y.updated = Now /\ y.deleted = x.deleted /\ y.enabled = x.enabled
                        /\ y.disabled = x.disabled
         /\ Drop(e) => y.updated = Now /\ y.deleted = Now
         /\ Enable(e) => y.updated = x.updated /\ x.deleted = 0 /\ y.deleted = 0 /\ y.enabled
         /\ Toggle(e) => /\ y.updated = x.updated /\ x.deleted = 0 /\ y.deleted = 0
                         /\ \/ y.enabled
                            \/ ~y.enabled /\ y.disabled = IF x.enabled THEN Now ELSE x.disabled
  <1> DEFINE h == Here(e)
             x == shelf[h]
  <1>1. Busy(e) /\ Due1(e) \in {"touch", "enable", "toggle", "drop", "found"}
        /\ (Due1(e) = "found" <=> InsertMember(e))
        /\ (Toggle(e) => Due1(e) = "toggle") /\ (Enable(e) => Due1(e) = "enable")
    BY DEF ShelfStatement, Touch, Enable, Toggle, Drop, InsertMember, Due, Due1
  <1>2. /\ h \in Shelves
        /\ x.created = 0 <=> Due1(e) = "found"
        /\ Due1(e) = "found" => task[e].at > 0
        /\ Due1(e) = "toggle" => task[e].was = x.enabled
        /\ Due1(e) \in {"toggle", "enable"} => x.deleted = 0
    BY <1>1, HereIs
  <1>3. shelf \in [Shelves -> ShelfRow(clock)] /\ x \in ShelfRow(clock)
    BY <1>2 DEF LibraryTypes, ShelfTable
  <1>4. listed' = listed /\ book' = book
    BY DEF ShelfStatement, Touch, Enable, Toggle, Drop, InsertMember
  <1> DEFINE on    == task[e].op = "enable"
             since == IF on THEN 0 ELSE IF task[e].was THEN Now ELSE x.disabled
             fresh == [created |-> task[e].at, updated |-> task[e].at, deleted |-> 0,
                       enabled |-> task[e].was, disabled |-> 0]
  <1>5. /\ Touch(e) => shelf' = [shelf EXCEPT ![h] = [x EXCEPT !.updated = Now]]
        /\ Enable(e) => shelf' = [shelf EXCEPT ![h] = [x EXCEPT !.enabled = TRUE, !.disabled = 0]]
        /\ Toggle(e) => shelf' = [shelf EXCEPT ![h] = [x EXCEPT !.enabled = on, !.disabled = since]]
        /\ Drop(e) => shelf' = [shelf EXCEPT ![h] = [x EXCEPT !.deleted = Now, !.updated = Now]]
        /\ InsertMember(e) => shelf' = [shelf EXCEPT ![h] = fresh]
    BY <1>3 DEF Touch, Enable, Toggle, Drop, InsertMember
  <1>6. \E y : shelf' = [shelf EXCEPT ![h] = y]
    BY <1>5 DEF ShelfStatement
  <1>7. \A s \in Shelves : s # h => shelf'[s] = shelf[s]
    BY <1>3, <1>6
  <1> HIDE DEF h, x
  <1>8. ASSUME Touch(e)
        PROVE  LET y == shelf'[h] IN y.updated = Now /\ y.deleted = x.deleted /\ y.enabled = x.enabled
                        /\ y.disabled = x.disabled /\ y.created = x.created
    BY <1>2, <1>3, <1>5, <1>8 DEF ShelfRow
  <1>9. ASSUME Drop(e)
        PROVE  LET y == shelf'[h] IN y.updated = Now /\ y.deleted = Now /\ y.created = x.created
    <2>1. shelf'[h] = [x EXCEPT !.deleted = Now, !.updated = Now]
      BY <1>2, <1>3, <1>5, <1>9
    <2> QED
      BY <1>3, <2>1 DEF ShelfRow
  <1>10. ASSUME Enable(e)
         PROVE  LET y == shelf'[h] IN y.updated = x.updated /\ x.deleted = 0 /\ y.deleted = 0 /\ y.enabled
                         /\ y.created = x.created
    <2>1. shelf'[h] = [x EXCEPT !.enabled = TRUE, !.disabled = 0] /\ x.deleted = 0
      BY <1>1, <1>2, <1>3, <1>5, <1>10
    <2> QED
      BY <1>3, <2>1 DEF ShelfRow
  <1>11. ASSUME Toggle(e)
         PROVE  LET y == shelf'[h] IN
                y.updated = x.updated /\ x.deleted = 0 /\ y.deleted = 0 /\ y.created = x.created
                /\ (y.enabled \/ (~y.enabled /\ y.disabled = IF x.enabled THEN Now ELSE x.disabled))
    <2>1. shelf'[h] = [x EXCEPT !.enabled = on, !.disabled = since] /\ task[e].was = x.enabled /\ x.deleted = 0
      BY <1>1, <1>2, <1>3, <1>5, <1>11
    <2>2. on \/ since = IF x.enabled THEN Now ELSE x.disabled
      BY <2>1
    <2> HIDE DEF on, since
    <2>3. shelf'[h].enabled = on /\ shelf'[h].disabled = since /\ shelf'[h].updated = x.updated
          /\ shelf'[h].deleted = x.deleted /\ shelf'[h].created = x.created
      BY <1>3, <2>1 DEF ShelfRow
    <2> QED
      BY <2>1, <2>2, <2>3
  <1>12. ASSUME InsertMember(e) PROVE shelf'[h].created # 0
    BY <1>1, <1>2, <1>3, <1>5, <1>12
  <1>13. (x.created = 0 <=> InsertMember(e)) /\ shelf'[h].created # 0
         /\ (InsertMember(e) \/ shelf'[h].created = x.created)
    BY <1>1, <1>2, <1>8, <1>9, <1>10, <1>11, <1>12 DEF ShelfStatement
  <1> QED
    BY <1>2, <1>4, <1>7, <1>8, <1>9, <1>10, <1>11, <1>13 DEF h, x

LEMMA RowsStep ==
  ASSUME NEW e \in Editors, LibraryTypes(clock), clock \in Nat, TaskOK(e), Statement(e),
         \A s \in Shelves : RowOK(s)
  PROVE  \A s \in Shelves : RowOK(s)'
  <1>1. Uploaded \subseteq Uploaded' /\ Busy(e)
    BY UploadedStays, StatementIs
  <1>2. CASE ShelfStatement(e)
    <2>1. ASSUME NEW s \in Shelves PROVE RowOK(s)'
      BY <1>1, <1>2, <2>1, ShelfStep DEF RowOK, On
    <2> QED
      BY <2>1
  <1>3. CASE shelf' = shelf /\ listed' = listed
    BY <1>1, <1>3 DEF RowOK, On
  <1>4. CASE shelf' = shelf /\ Insert(e) /\ listed' # listed
    <2>1. /\ listed' = [listed EXCEPT ![Here(e)] =
                [b \in Books |-> IF b \in task[e].fresh THEN Now ELSE @[b]]]
          /\ Due1(e) = "insert"
      BY <1>4 DEF Insert, Due, Due1
    <2>2. task[e].fresh \subseteq Uploaded
      BY <1>1, <2>1, HereIs
    <2>3. \A s \in Shelves : On(s)' \subseteq On(s) \cup Uploaded
      BY <2>1, <2>2 DEF On, LibraryTypes
    <2> QED
      BY <1>1, <1>4, <2>3 DEF RowOK
  <1>5. CASE shelf' = shelf /\ Delete(e)
    <2>1. listed' = [listed EXCEPT ![Here(e)] =
             [b \in Books |-> IF b \in task[e].books THEN 0 ELSE @[b]]]
      BY <1>5 DEF Delete
    <2>2. \A s \in Shelves : On(s)' \subseteq On(s)
      BY <2>1 DEF On, LibraryTypes
    <2> QED
      BY <1>1, <1>5, <2>2 DEF RowOK
  <1> QED
    BY <1>2, <1>3, <1>4, <1>5
       DEF Statement, ShelfStatement, Links, Insert, Member, FindArchived, Unarchive, Delete, Removable,
           Spare, InsertShelf, WriteDiscard, Modify, InsertBook, rowVars

(* Every change of a shelf that a collection should follow is stamped, or the touch   *)
(* of the shelf is due next.                                                       *)
LEMMA TagsStep ==
  ASSUME NEW e \in Editors, LibraryTypes(clock), clock \in Nat, TaskOK(e), Alone(e), Statement(e),
         token \in Token(clock), token' = token, tags' = tags,
         NEW s \in Shelves, RowOK(s), TagOK(s)
  PROVE  TagOK(s)'
  <1> DEFINE t == token.tags
             h == Here(e)
  <1>1. t \in 0..clock /\ Now \in Nat /\ Now > t /\ Now # 0
    BY Bounds DEF Token, Now
  <1>2. Busy(e) /\ Uploaded \subseteq Uploaded'
    BY StatementIs, UploadedStays
  <1>3. SUFFICES ASSUME tags[s].on
                 PROVE  /\ \/ tags[s].books = On(s)' \cap Uploaded'
                           \/ TagNews(s, t)'
                           \/ \E x \in Editors : Touches(x, s)'
                        /\ Enabled(s)' \/ shelf'[s].deleted > t
                             \/ (~shelf'[s].enabled /\ shelf'[s].disabled > t)
    BY DEF TagOK
  <1>4. /\ \/ tags[s].books = On(s) \cap Uploaded
           \/ TagNews(s, t)
           \/ Touches(e, s)
        /\ Enabled(s) \/ shelf[s].deleted > t
             \/ (~shelf[s].enabled /\ shelf[s].disabled > t)
    BY <1>3 DEF TagOK, Alone, Touches
  <1>5. On(s) \subseteq Uploaded
        /\ (shelf[s].created = 0 => shelf[s].deleted = 0 /\ ~shelf[s].enabled /\ shelf[s].disabled = 0)
    BY DEF RowOK
  <1>6. shelf[s].created # 0
    BY <1>1, <1>4, <1>5 DEF Enabled, Exists
  <1>7. shelf[s] \in ShelfRow(clock) /\ listed[s] \in Places(clock)
        /\ listed \in [Shelves -> Places(clock)]
    BY DEF LibraryTypes, ShelfTable
  <1>8. CASE ShelfStatement(e)
    <2>1. listed' = listed /\ book' = book
      BY <1>8, ShelfStep
    <2>2. On(s)' = On(s) /\ Uploaded' = Uploaded
      BY <2>1 DEF On, Uploaded
    <2>3. CASE s # h
      <3>1. shelf'[s] = shelf[s] /\ ~Touches(e, s)
        BY <1>2, <1>8, <2>3, ShelfStep, ShelfDue DEF Touches
      <3> QED
        BY <1>4, <2>1, <2>2, <3>1 DEF Enabled, Exists, TagNews
    <2>4. CASE s = h
      <3>1. ~InsertMember(e) /\ shelf'[s].created = shelf[s].created
        BY <1>6, <1>8, <2>4, ShelfStep
      <3>2. CASE Touch(e)
        <4>1. shelf'[s].updated = Now /\ shelf'[s].deleted = shelf[s].deleted
              /\ shelf'[s].enabled = shelf[s].enabled /\ shelf'[s].disabled = shelf[s].disabled
          BY <1>8, <2>4, <3>2, ShelfStep
        <4>2. TagNews(s, t)'
          BY <1>1, <4>1 DEF TagNews
        <4> QED
          BY <1>4, <3>1, <4>1, <4>2 DEF Enabled, Exists
      <3>3. CASE Drop(e)
        <4>1. shelf'[s].updated = Now /\ shelf'[s].deleted = Now
          BY <1>8, <2>4, <3>3, ShelfStep
        <4>2. TagNews(s, t)'
          BY <1>1, <4>1 DEF TagNews
        <4> QED
          BY <1>1, <4>1, <4>2
      <3>4. CASE Enable(e) \/ Toggle(e)
        <4>1. /\ shelf'[s].updated = shelf[s].updated /\ shelf[s].deleted = 0 /\ shelf'[s].deleted = 0
              /\ \/ shelf'[s].enabled
                 \/ ~shelf'[s].enabled /\ shelf'[s].disabled = IF shelf[s].enabled THEN Now ELSE shelf[s].disabled
          BY <1>8, <2>4, <3>4, ShelfStep
        <4>2. TagNews(s, t)' = TagNews(s, t) /\ ~Touches(e, s)
          BY <2>1, <2>2, <3>4, <4>1 DEF TagNews, Enable, Toggle, Due, Touches, Due1
        <4>3. Enabled(s)' \/ (~shelf'[s].enabled /\ shelf'[s].disabled > t)
          BY <1>1, <1>4, <1>6, <3>1, <4>1 DEF Enabled, Exists
        <4> QED
          BY <1>4, <2>2, <4>2, <4>3
      <3> QED
        BY <1>8, <3>1, <3>2, <3>3, <3>4 DEF ShelfStatement
    <2> QED
      BY <2>3, <2>4
  <1>9. ASSUME shelf' = shelf, listed' = listed, ~Touches(e, s)
        PROVE  /\ \/ tags[s].books = On(s)' \cap Uploaded'
                  \/ TagNews(s, t)'
               /\ Enabled(s)' \/ shelf'[s].deleted > t
                    \/ (~shelf'[s].enabled /\ shelf'[s].disabled > t)
    BY <1>2, <1>4, <1>5, <1>9 DEF On, TagNews, Enabled, Exists
  <1>10. CASE Insert(e) /\ listed' # listed
    <2>1. /\ listed' = [listed EXCEPT ![h] =
                [b \in Books |-> IF b \in task[e].fresh THEN Now ELSE listed[h][b]]]
          /\ shelf' = shelf /\ book' = book /\ Due1(e) = "insert"
      BY <1>10 DEF Insert, Due, Due1
    <2>2. task[e].fresh \subseteq Uploaded /\ h \in Shelves
      BY <1>2, <2>1, HereIs
    <2>3. Uploaded' = Uploaded /\ ~Touches(e, s)
      BY <2>1 DEF Uploaded, Touches
    <2>4. CASE listed'[s] = listed[s]
      BY <1>4, <2>1, <2>3, <2>4 DEF On, TagNews, Enabled, Exists
    <2>5. CASE listed'[s] # listed[s]
      <3>1. s = h
        BY <1>7, <2>1, <2>5
      <3>2. listed'[s] = [b \in Books |-> IF b \in task[e].fresh THEN Now ELSE listed[s][b]]
        BY <1>7, <2>1, <3>1
      <3>3. \E b \in Books : b \in task[e].fresh
        <4>1. SUFFICES ASSUME \A b \in Books : b \notin task[e].fresh PROVE FALSE
          OBVIOUS
        <4>2. listed'[s] = [b \in Books |-> listed[s][b]]
          BY <3>2, <4>1
        <4> QED
          BY <1>7, <2>5, <4>2 DEF Places
      <3>4. TagNews(s, t)'
        BY <1>1, <2>2, <2>3, <3>2, <3>3 DEF TagNews
      <3> QED
        BY <1>4, <2>1, <3>4 DEF Enabled, Exists
    <2> QED
      BY <2>4, <2>5
  <1>11. CASE Delete(e)
    <2>1. /\ listed' = [listed EXCEPT ![h] =
                [b \in Books |-> IF b \in task[e].books THEN 0 ELSE listed[h][b]]]
          /\ shelf' = shelf /\ book' = book /\ Due1(e) = "delete" /\ Proceed(e)
      BY <1>11 DEF Delete, Due, Due1
    <2>2. h \in Shelves /\ task[e].shelf = {h} /\ ~Touches(e, s)
      BY <1>2, <2>1, HereIs DEF Touches
    <2>3. CASE s # h
      <3>1. listed'[s] = listed[s] /\ Uploaded' = Uploaded
        BY <1>7, <2>1, <2>3 DEF Uploaded
      <3> QED
        BY <1>4, <2>1, <2>2, <3>1 DEF On, TagNews, Enabled, Exists
    <2>4. CASE s = h
      <3>1. task \in [Editors -> Task(clock)] /\ task[e].todo \in Todos /\ task[e].todo # <<>>
            /\ Tail(task[e].todo) \in Todos
        BY <1>2, DueIs DEF LibraryTypes
      <3>2. Tail(task[e].todo) # <<>> /\ Head(Tail(task[e].todo)) = "touch"
        BY <2>1, <3>1, TailTodo DEF Due1
      <3>3. task'[e].todo = Tail(task[e].todo) /\ task'[e].shelf = task[e].shelf
        BY <2>1, <3>1, <3>2, FollowTypes DEF Proceed
      <3>4. Touches(e, s)'
        BY <2>2, <2>4, <3>2, <3>3 DEF Touches, Busy, Due1
      <3> QED
        BY <1>4, <2>1, <3>4 DEF Enabled, Exists
    <2> QED
      BY <2>3, <2>4
  <1>12. CASE ~ShelfStatement(e) /\ ~(Insert(e) /\ listed' # listed) /\ ~Delete(e)
    <2>1. shelf' = shelf /\ listed' = listed /\ Due1(e) # "touch"
      BY <1>12 DEF Statement, ShelfStatement, Links, Insert, Member, FindArchived, Unarchive, Removable,
         Spare, InsertShelf, WriteDiscard, Modify, InsertBook, rowVars, Due, Due1
    <2>2. ~Touches(e, s)
      BY <2>1 DEF Touches
    <2> QED
      BY <1>9, <2>1, <2>2
  <1> QED
    BY <1>8, <1>10, <1>11, <1>12

LEMMA StartOK ==
  ASSUME NEW e \in Editors, LibraryTypes(clock), clock \in Nat, NEW op, NEW todo, NEW S, NEW B, NEW was,
         Start(e, op, todo, S, B, was), Plan(op, todo, S, B, was)
  PROVE  TaskOK(e)'
  <1>1. /\ task'[e].todo = todo /\ task'[e].op = op /\ task'[e].shelf = S
        /\ task'[e].books = B /\ task'[e].fresh = {} /\ task'[e].was = was
    BY StartTypes DEF LibraryTypes
  <1>2. shelf' = shelf /\ archive' = archive /\ Uploaded' = Uploaded
    BY DEF Start, rowVars, Uploaded
  <1>3. op # "upload" => task'[e].books \cup task'[e].fresh \subseteq Uploaded'
    BY <1>1, <1>2 DEF Plan
  <1>4. op = "upload" => task'[e].todo = <<"upload">>
    BY <1>1 DEF Plan
  <1>5. CASE Head(todo) = "discard"
    BY <1>1, <1>2, <1>3, <1>4, <1>5 DEF Plan, TaskOK, Due1
  <1>6. CASE Head(todo) \in {"modify", "upload"}
    BY <1>1, <1>2, <1>3, <1>4, <1>6 DEF Plan, TaskOK, Due1
  <1>7. CASE Head(todo) \notin {"discard", "modify", "upload"}
    BY <1>1, <1>2, <1>3, <1>4, <1>7 DEF Plan, TaskOK, Due1
  <1> QED
    BY <1>5, <1>6, <1>7

(* The task of a request that is not under way *)
LEMMA RestOK ==
  ASSUME NEW f, TaskOK(f), ~Busy(f), task'[f] = task[f], Uploaded \subseteq Uploaded'
  PROVE  TaskOK(f)'
  BY DEF TaskOK, Busy

(* What a step of a request leaves: everything but the time in rows of archived books *)
Changed1 ==
  /\ Uploaded \subseteq Uploaded'
  /\ \A b \in Books : archive'[b] = archive[b] \/ (archive'[b] # <<>> /\ ArchivedAt(archive'[b]) = Now)

LEMMA RequestTurn ==
  ASSUME SyncInvariant, LibraryOK, NEW e \in Editors, Alone(e),
         Request(e) \/ Statement(e) \/ Abandon(e), token' = token, tags' = tags
  PROVE  /\ LibraryOK' /\ Changed1
         /\ deaths' = 0 => deaths = 0 /\ \A s \in Shelves : TagOK(s) => TagOK(s)'
  <1>1. /\ LibraryTypes(clock) /\ clock \in Nat /\ task \in [Editors -> Task(clock)]
        /\ token \in Token(clock) /\ deaths \in Nat
    BY InvariantIs, Bounds DEF LibraryTypes, SyncInvariant, OtherTypes
  <1>2. /\ \A f \in Editors : TaskOK(f)
        /\ \A s \in Shelves : RowOK(s)
        /\ OneArchiveRow
    BY DEF LibraryOK
  <1>3. ASSUME Others(e), TaskOK(e)', Uploaded \subseteq Uploaded' PROVE \A f \in Editors : TaskOK(f)'
    <2>1. \A f \in Editors : f # e => TaskOK(f)'
      BY <1>2, <1>3, RestOK DEF Others, Alone
    <2> QED
      BY <1>3, <2>1
  <1>4. CASE Request(e)
    <2>1. PICK op, todo, S, B, was : Start(e, op, todo, S, B, was) /\ Plan(op, todo, S, B, was)
      BY <1>1, <1>4, RequestStarts DEF Starts
    <2>2. Others(e) /\ TaskOK(e)'
      BY <1>1, <2>1, StartOK, StartTypes
    <2>3. /\ book' = book /\ shelf' = shelf /\ listed' = listed /\ archive' = archive
          /\ deaths' = deaths /\ ~Busy(e)
      BY <2>1 DEF Start, rowVars
    <2>4. Uploaded' = Uploaded /\ \A s \in Shelves : On(s)' = On(s)
      BY <2>3 DEF Uploaded, On
    <2>5. LibraryOK' /\ Changed1
      BY <1>2, <1>3, <2>2, <2>3, <2>4 DEF LibraryOK, RowOK, OneArchiveRow, Changed1
    <2>6. \A s \in Shelves, x \in Editors : ~Touches(x, s)
      BY <2>3 DEF Touches, Alone
    <2>7. \A s \in Shelves : TagOK(s) => TagOK(s)'
      BY <2>3, <2>4, <2>6 DEF TagOK, TagNews, Enabled, Exists
    <2> QED
      BY <2>3, <2>5, <2>7
  <1>5. CASE Statement(e)
    <2>1. Others(e) /\ TaskOK(e)' /\ Uploaded \subseteq Uploaded' /\ deaths' = deaths
      BY <1>1, <1>2, <1>5, StatementIs, StatementTask, UploadedStays
    <2>2. \A s \in Shelves : RowOK(s)'
      BY <1>1, <1>2, <1>5, RowsStep
    <2>3. \A b \in Books : /\ Len(archive'[b]) =< 1
                           /\ archive'[b] = archive[b] \/ (archive'[b] # <<>> /\ ArchivedAt(archive'[b]) = Now)
      BY <1>1, <1>2, <1>5, ArchiveStep
    <2>4. LibraryOK' /\ Changed1
      BY <1>3, <2>1, <2>2, <2>3 DEF LibraryOK, OneArchiveRow, Changed1
    <2>5. \A s \in Shelves : TagOK(s) => TagOK(s)'
      BY <1>1, <1>2, <1>5, TagsStep
    <2> QED
      BY <2>1, <2>4, <2>5
  <1>6. CASE Abandon(e)
    <2>1. Others(e) /\ task'[e] = Idle
      BY <1>1, <1>6, FollowTypes, NoTodo DEF Abandon
    <2>2. /\ book' = book /\ shelf' = shelf /\ listed' = listed /\ archive' = archive
          /\ deaths' = deaths + 1
      BY <1>6 DEF Abandon, rowVars
    <2>3. Uploaded' = Uploaded /\ \A s \in Shelves : On(s)' = On(s)
      BY <2>2 DEF Uploaded, On
    <2>4. TaskOK(e)'
      BY <2>1, IdleOK
    <2>5. LibraryOK' /\ Changed1
      BY <1>2, <1>3, <2>1, <2>2, <2>3, <2>4 DEF LibraryOK, RowOK, OneArchiveRow, Changed1
    <2> QED
      BY <1>1, <2>2, <2>5
  <1> QED
    BY <1>4, <1>5, <1>6

LEMMA LibraryTurns ==
  ASSUME SyncInvariant, TakingTurns, TakingTurns', TurnInvariant, Library
  PROVE  TurnInvariant' /\ (ArchiveOK => ArchiveOK')
  <1>1. PICK e \in Editors : Request(e) \/ Statement(e) \/ Abandon(e)
    BY DEF Library, LibraryNext
  <1>2. Alone(e) /\ NoneRuns /\ NoneRuns'
    BY <1>1, LibraryTurn
  <1>3. synced' = synced /\ token' = token /\ has' = has /\ tags' = tags /\ losses' = losses /\ quiet' = FALSE
        /\ passed' = passed
    BY DEF Library, deviceVars
  <1>4. /\ LibraryOK' /\ Changed1
        /\ deaths' = 0 => deaths = 0 /\ \A s \in Shelves : TagOK(s) => TagOK(s)'
    BY <1>1, <1>2, <1>3, RequestTurn DEF TurnInvariant
  <1>5. \A q \in Syncs, b \in Books : ~InFlight(q, b) /\ ~InFlight(q, b)'
    BY <1>2 DEF InFlight, NoneRuns, Running
  <1>6. DeviceOK'
    <2>1. DeviceOK
      BY DEF TurnInvariant
    <2>2. synced \subseteq Given' /\ \A b \in Books : has[b] = "archived" => archive'[b] # <<>>
      BY <1>4, <2>1 DEF DeviceOK, Changed1, Given
    <2>3. losses = 0 => \A b \in synced : has[b] # "unknown"
      BY <1>5, <2>1 DEF DeviceOK, Given, Uploaded
    <2>4. deaths' = 0 => \A s \in Shelves : TagOK(s)'
      BY <1>4, <2>1 DEF DeviceOK
    <2> QED
      BY <1>3, <2>1, <2>2, <2>3, <2>4 DEF DeviceOK
  <1>7. \A q \in Syncs : RunOK(q)'
    BY <1>2 DEF NoneRuns, RunOK
  <1>8. NewBooksArrive' /\ TagsAreCurrent' /\ RestoresArrive' /\ RemovedBooksGo'
    BY <1>3 DEF NewBooksArrive, TagsAreCurrent, RestoresArrive, RemovedBooksGo
  <1>9. ASSUME ArchiveOK PROVE ArchiveOK'
    <2>1. Now > token.archive
      BY InvariantIs, Bounds DEF Now, Token
    <2>2. \A b \in Books : archive'[b] # archive[b] => ArchivedAt(archive'[b]) > token.archive
      BY <1>4, <2>1 DEF Changed1
    <2>3. \A b \in Books \ passed : has[b] = "live" /\ IsArchived(archive'[b]) =>
            ArchivedAt(archive'[b]) > token.archive
      BY <1>9, <2>2 DEF ArchiveOK, Archived
    <2>4. \A b \in Books \ passed : has[b] = "archived" =>
            IsArchived(archive'[b]) \/ ArchivedAt(archive'[b]) > token.archive
      BY <1>9, <2>2 DEF ArchiveOK, Archived
    <2> QED
      BY <1>3, <1>8, <2>3, <2>4 DEF ArchiveOK, Archived
  <1> QED
    BY <1>4, <1>6, <1>7, <1>8, <1>9 DEF TurnInvariant

-----------------------------------------------------------------------------
(* While they take turns: the steps of a synchronisation, alone with the device *)

LEMMA Turns ==
  ASSUME TakingTurns, NEW q \in Syncs, Running(q)
  PROVE  (\A e \in Editors : ~Busy(e)) /\ \A p \in Syncs : p # q => ~Running(p)
  BY DEF TakingTurns

(* The others do not run after the step either. *)
LEMMA RestIdle ==
  ASSUME NEW q \in Syncs, Beside(q), \A p \in Syncs : p # q => ~Running(p)
  PROVE  \A p \in Syncs : p # q =>
           RunOK(p)' /\ \A b \in Books : ~InFlight(p, b) /\ ~InFlight(p, b)'
  BY DEF Beside, Kept, Running, RunOK, InFlight

RowsStay == book' = book /\ shelf' = shelf /\ listed' = listed

LEMMA NamesStay ==
  ASSUME RowsStay
  PROVE  /\ Uploaded' = Uploaded /\ Given' = Given /\ Offered' = Offered
         /\ \A s \in Shelves : On(s)' = On(s) /\ Enabled(s)' = Enabled(s)
  BY DEF RowsStay, Uploaded, Given, Offered, On, Enabled, Exists

LEMMA LibraryStays ==
  ASSUME LibraryOK, RowsStay, task' = task, \A e \in Editors : ~Busy(e), OneArchiveRow'
  PROVE  LibraryOK'
  <1>1. ASSUME NEW e \in Editors PROVE TaskOK(e)'
    BY <1>1, NamesStay, RestOK DEF LibraryOK
  <1>2. ASSUME NEW s \in Shelves PROVE RowOK(s)'
    BY <1>2, NamesStay DEF LibraryOK, RowOK, RowsStay
  <1> QED
    BY <1>1, <1>2 DEF LibraryOK

(* A step of a synchronisation that only reads, or only gathers its answer *)
LEMMA GatherTurn ==
  ASSUME TurnInvariant, NEW q \in Syncs, Beside(q), \A p \in Syncs : p # q => ~Running(p),
         \A e \in Editors : ~Busy(e), sync[q].step # "answer", RunOK(q)',
         RowsStay, archive' = archive, task' = task, deaths' = deaths,
         UNCHANGED <<synced, deviceVars, losses, quiet>>
  PROVE  TurnInvariant' /\ (ArchiveOK => ArchiveOK')
  <1>1. token' = token /\ has' = has /\ tags' = tags /\ synced' = synced /\ losses' = losses
        /\ quiet' = quiet /\ passed' = passed
    BY DEF deviceVars
  <1>2. LibraryOK'
    BY LibraryStays DEF TurnInvariant, LibraryOK, OneArchiveRow
  <1>3. \A p \in Syncs : RunOK(p)'
    BY RestIdle
  <1>4. \A p \in Syncs, b \in Books : ~InFlight(p, b)
    BY RestIdle DEF InFlight
  <1>5. DeviceOK'
    <2>1. DeviceOK
      BY DEF TurnInvariant
    <2>2. losses = 0 => \A b \in synced : has[b] # "unknown"
      BY <1>4, <2>1 DEF DeviceOK, Given, Uploaded
    <2>3. \A s \in Shelves : TagOK(s) => TagOK(s)'
      BY <1>1, NamesStay DEF TagOK, TagNews, Touches, Busy, Due1, RowsStay
    <2> QED
      BY <1>1, <2>1, <2>2, <2>3, NamesStay DEF DeviceOK
  <1>6. NewBooksArrive' /\ TagsAreCurrent'
    BY <1>1, NamesStay DEF TurnInvariant, NewBooksArrive, TagsAreCurrent
  <1>7. ArchiveOK => ArchiveOK'
    BY <1>1, NamesStay DEF ArchiveOK, RestoresArrive, RemovedBooksGo, Archived
  <1> QED
    BY <1>2, <1>3, <1>5, <1>6, <1>7 DEF TurnInvariant

LEMMA LibraryStill ==
  ASSUME UNCHANGED libraryVars
  PROVE  /\ RowsStay /\ archive' = archive /\ task' = task /\ deaths' = deaths /\ clock' = clock
  BY DEF libraryVars, rowVars, RowsStay

LEMMA AskTurn ==
  ASSUME SyncInvariant, TakingTurns, TakingTurns', TurnInvariant, NEW q \in Syncs, Ask(q)
  PROVE  TurnInvariant' /\ (ArchiveOK => ArchiveOK')
  <1>1. /\ Beside(q) /\ sync'[q].step = "shelves" /\ sync'[q].token = token /\ sync'[q].wanted
    BY InvariantIs, AskIs
  <1>2. /\ RowsStay /\ archive' = archive /\ task' = task /\ deaths' = deaths
        /\ UNCHANGED <<synced, deviceVars, losses, quiet>>
    BY LibraryStill DEF Ask, Reads
  <1>3. Running(q)' /\ ~Running(q)
    BY <1>1 DEF Running, Ask
  <1>4. \A e \in Editors : ~Busy(e)
    BY <1>2, <1>3 DEF TakingTurns, Busy
  <1>5. \A p \in Syncs : p # q => ~Running(p)
    BY <1>1, <1>3 DEF TakingTurns, Beside, Kept, Running
  <1>6. RunOK(q)'
    <2>1. CurrentOK(q)' /\ AnswerOK(q)'
      BY <1>1 DEF CurrentOK, AnswerOK, HasShelves, HasListed, HasBooks, Answering
    <2> QED
      BY <1>1, <1>2, <2>1 DEF RunOK, deviceVars
  <1>7. sync[q].step # "answer"
    BY <1>3 DEF Running
  <1> QED
    BY <1>1, <1>2, <1>4, <1>5, <1>6, <1>7, GatherTurn

LEMMA ReadTurn ==
  ASSUME SyncInvariant, TakingTurns, TurnInvariant, NEW q \in Syncs,
         ReadShelves(q) \/ ReadListed(q) \/ ReadSynced(q) \/ ReadBooks(q) \/ ReadArchived(q)
  PROVE  TurnInvariant' /\ (ArchiveOK => ArchiveOK')
  <1> DEFINE r == sync[q].read
             r1 == sync'[q].read
  <1>1. /\ UNCHANGED libraryVars /\ UNCHANGED <<synced, deviceVars, losses, quiet>>
        /\ sync[q].step \in {"shelves", "listed", "synced", "books", "archived"}
    BY DEF ReadShelves, ReadListed, ReadSynced, ReadBooks, ReadArchived, Reads, At
  <1>2. /\ RowsStay /\ archive' = archive /\ task' = task /\ deaths' = deaths
        /\ token' = token /\ synced' = synced /\ losses' = losses
    BY <1>1, LibraryStill DEF deviceVars
  <1>3. Running(q) /\ RunOK(q) /\ CurrentOK(q)
    BY <1>1 DEF Running, TurnInvariant, RunOK
  <1>4. (\A e \in Editors : ~Busy(e)) /\ \A p \in Syncs : p # q => ~Running(p)
    BY <1>3, Turns
  <1>5. sync[q].step \in HasShelves => DOMAIN r.shelf \subseteq Shelves
    BY InvariantIs DEF ReadShape, SomeShelves
  <1>6. CurrentShelves' = CurrentShelves
    BY <1>2, NamesStay DEF CurrentShelves, RowsStay
  <1>7. Beside(q) /\ Goes(q, sync'[q].step) /\ CurrentOK(q)'
        /\ sync'[q].step \in {"listed", "synced", "books", "archived", "compute"}
    <2>1. CASE ReadShelves(q)
      <3>1. Beside(q) /\ Goes(q, "listed") /\ r1.shelf = CurrentShelves
        BY <2>1, InvariantIs, ReadingIs
      <3> QED
        BY <1>6, <3>1 DEF CurrentOK, Goes, HasShelves, HasListed, HasBooks
    <2>2. CASE ReadListed(q)
      <3>1. sync[q].step \in HasShelves
        BY <2>2 DEF ReadListed, At, HasShelves
      <3>2. Beside(q) /\ Goes(q, "synced") /\ r1.shelf = r.shelf
            /\ r1.listed = [s \in DOMAIN r.shelf |-> listed[s]]
        BY <1>5, <2>2, <3>1, InvariantIs, ReadingIs
      <3>3. r.shelf = CurrentShelves
        BY <1>3, <3>1 DEF CurrentOK
      <3>4. r1.shelf = CurrentShelves' /\ r1.listed = [s \in DOMAIN r1.shelf |-> listed'[s]]
        BY <1>2, <1>6, <3>2, <3>3 DEF RowsStay
      <3> QED
        BY <3>2, <3>4 DEF CurrentOK, Goes, HasBooks
    <2>3. CASE ReadSynced(q) \/ ReadBooks(q) \/ ReadArchived(q)
      <3>1. sync[q].step \in {"synced", "books", "archived"}
            /\ sync[q].step \in HasShelves /\ sync[q].step \in HasListed
        BY <2>3 DEF ReadSynced, ReadBooks, ReadArchived, At, HasShelves, HasListed
      <3>2. r.shelf = CurrentShelves /\ r.listed = [s \in DOMAIN r.shelf |-> listed[s]]
        BY <1>3, <3>1 DEF CurrentOK
      <3>3. r1.shelf = r.shelf /\ r1.listed = r.listed
        BY <2>3, InvariantIs, ReadingIs
      <3>4. r1.shelf = CurrentShelves' /\ r1.listed = [s \in DOMAIN r1.shelf |-> listed'[s]]
        BY <1>2, <1>6, <3>2, <3>3 DEF RowsStay
      <3>5. CASE ReadSynced(q)
        <4>1. Beside(q) /\ Goes(q, "books") /\ r1.synced = synced
          BY <3>5, InvariantIs, ReadingIs
        <4> QED
          BY <1>2, <3>4, <4>1 DEF CurrentOK, Goes, HasBooks
      <3>6. CASE ReadBooks(q)
        <4>1. Beside(q) /\ Goes(q, "archived") /\ r1.synced = r.synced /\ r1.book = book
          BY <3>6, InvariantIs, ReadingIs
        <4>2. r.synced = synced
          BY <1>3, <3>6 DEF CurrentOK, ReadBooks, At
        <4> QED
          BY <1>2, <3>4, <4>1, <4>2 DEF CurrentOK, Goes, RowsStay
      <3>7. CASE ReadArchived(q)
        <4>1. Beside(q) /\ Goes(q, "compute") /\ r1.synced = r.synced /\ r1.book = r.book
              /\ r1.archive = archive
          BY <3>7, InvariantIs, ReadingIs
        <4>2. r.synced = synced /\ r.book = book
          BY <1>3, <3>7 DEF CurrentOK, ReadArchived, At, HasBooks
        <4> QED
          BY <1>2, <3>4, <4>1, <4>2 DEF CurrentOK, Goes, RowsStay
      <3> QED
        BY <2>3, <3>5, <3>6, <3>7
    <2> QED
      BY <2>1, <2>2, <2>3
  <1>8. RunOK(q)'
    <2>1. sync'[q].token = sync[q].token /\ sync'[q].wanted = sync[q].wanted
      BY <1>7 DEF Goes, SameAnswer
    <2>2. AnswerOK(q)'
      BY <1>7 DEF AnswerOK, Answering
    <2> QED
      BY <1>2, <1>3, <1>7, <2>1, <2>2 DEF RunOK
  <1>9. sync[q].step # "answer"
    BY <1>1
  <1> QED
    BY <1>1, <1>2, <1>4, <1>7, <1>8, <1>9, GatherTurn

(* What a synchronisation makes of rows it has read as they are *)
IsCurrent(r) ==
  /\ r.shelf = CurrentShelves /\ r.listed = [s \in DOMAIN r.shelf |-> listed[s]]
  /\ r.synced = synced /\ r.book = book /\ r.archive = archive

LEMMA CurrentIs ==
  ASSUME NEW r, IsCurrent(r)
  PROVE  /\ DOMAIN r.shelf = {s \in Shelves : Enabled(s)}
         /\ \A s \in DOMAIN r.shelf :
              /\ r.shelf[s] = shelf[s] /\ r.listed[s] = listed[s]
              /\ {b \in Books : r.listed[s][b] # 0 /\ r.book[b].born # 0} = On(s) \cap Uploaded
         /\ \A b \in Books :
              /\ b \in Active(r) <=> b \in Offered
              /\ b \in Scope(r) <=> b \in Uploaded \cap (Offered \cup synced)
              /\ ShouldArchive(r, b) <=> b \in synced \ Offered /\ ~Archived(b)
              /\ SentArchived(r, b) <=> (b \in synced \ Offered \/ Archived(b))
              /\ IsNew(r, b) <=> b \notin synced
  <1>1. DOMAIN r.shelf = {s \in Shelves : Enabled(s)}
    BY DEF IsCurrent, CurrentShelves
  <1>2. \A s \in DOMAIN r.shelf : r.shelf[s] = shelf[s] /\ r.listed[s] = listed[s]
    BY DEF IsCurrent, CurrentShelves
  <1>3. r.synced = synced /\ r.book = book /\ r.archive = archive
    BY DEF IsCurrent
  <1>4. \A s \in DOMAIN r.shelf :
          {b \in Books : r.listed[s][b] # 0 /\ r.book[b].born # 0} = On(s) \cap Uploaded
    BY <1>2, <1>3 DEF On, Uploaded
  <1>5. ASSUME NEW b \in Books PROVE b \in Active(r) <=> b \in Offered
    BY <1>1, <1>2 DEF Active, Offered, On
  <1>6. ASSUME NEW b \in Books
        PROVE  /\ b \in Scope(r) <=> b \in Uploaded \cap (Offered \cup synced)
               /\ IsNew(r, b) <=> b \notin synced
    BY <1>3, <1>5 DEF Scope, Uploaded, IsNew
  <1>7. ASSUME NEW b \in Books
        PROVE  /\ ShouldArchive(r, b) <=> b \in synced \ Offered /\ ~Archived(b)
               /\ SentArchived(r, b) <=> (b \in synced \ Offered \/ Archived(b))
    BY <1>3, <1>5 DEF ShouldArchive, SentArchived, Orphaned, Archived
  <1> QED
    BY <1>1, <1>2, <1>4, <1>5, <1>6, <1>7

LEMMA NewsAre ==
  ASSUME SyncInvariant, NEW r, IsCurrent(r), FullRead(r, clock), NEW s \in Shelves, Enabled(s),
         TagNews(s, token.tags)
  PROVE  NewsOfTag(r, token, s)
  <1>1. s \in DOMAIN r.shelf /\ r.shelf[s] = shelf[s] /\ r.listed[s] = listed[s] /\ r.book = book
    BY CurrentIs DEF IsCurrent
  <1>2. clock \in Nat /\ token.tags \in 0..clock
    BY InvariantIs DEF Token
  <1>3. /\ Activity(r, s) \in 0..clock /\ shelf[s].updated =< Activity(r, s)
        /\ \A b \in Uploaded : listed[s][b] =< Activity(r, s)
    BY <1>1, <1>2, ActivityIs DEF Uploaded
  <1>4. shelf[s].updated \in 0..clock /\ \A b \in Uploaded : listed[s][b] \in 0..clock
    BY InvariantIs DEF ShelfTable, ShelfRow, Places, Uploaded
  <1>5. Activity(r, s) > token.tags
    <2>1. CASE shelf[s].updated > token.tags
      BY <1>2, <1>3, <1>4, <2>1
    <2>2. CASE \E b \in Uploaded : listed[s][b] > token.tags
      BY <1>2, <1>3, <1>4, <2>2
    <2> QED
      BY <2>1, <2>2 DEF TagNews
  <1> QED
    BY <1>5 DEF NewsOfTag

LEMMA AnswerIs ==
  ASSUME SyncInvariant, NEW r, IsCurrent(r), FullRead(r, clock), NEW page \in Pages(r, token)
  PROVE  LET a == Answered(r, token, page, Now) IN
         /\ a.live \cup a.gone = page \cap Readable /\ a.live \cup a.gone \subseteq Given
         /\ a.live \cap a.gone = {}
         /\ a.fresh \subseteq a.live \cup a.gone /\ a.orphans \subseteq a.gone
         /\ a.live \cup a.gone \subseteq synced \cup a.fresh
         /\ \A b \in a.live : b \in Offered /\ ~Archived(b)
         /\ \A b \in a.gone : Archived(b) \/ b \in a.orphans
         /\ DOMAIN a.tagged \subseteq Shelves
         /\ \A s \in DOMAIN a.tagged : Enabled(s) /\ a.tagged[s] = On(s) \cap Uploaded
         /\ \A s \in Shelves : Enabled(s) /\ TagNews(s, token.tags) => s \in DOMAIN a.tagged
  <1> DEFINE a == Answered(r, token, page, Now)
             P == page \cap Readable
  <1>1. P \subseteq Books /\ \A b \in P : b \in Readable /\ b \in Scope(r)
    BY PagesAre, Bounds
  <1>2. /\ a.live = {b \in P : ~SentArchived(r, b)} /\ a.gone = {b \in P : SentArchived(r, b)}
        /\ a.fresh = {b \in P : IsNew(r, b)} /\ a.orphans = {b \in P : ShouldArchive(r, b)}
        /\ a.tagged = [s \in {u \in DOMAIN r.shelf : NewsOfTag(r, token, u)} |->
                        {b \in Books : r.listed[s][b] # 0 /\ r.book[b].born # 0}]
    BY DEF Answered
  <1>3. \A b \in P :
          /\ b \in Given /\ b \in Offered \cup synced
          /\ ShouldArchive(r, b) <=> b \in synced \ Offered /\ ~Archived(b)
          /\ SentArchived(r, b) <=> (b \in synced \ Offered \/ Archived(b))
          /\ IsNew(r, b) <=> b \notin synced
    BY <1>1, CurrentIs DEF Given
  <1> HIDE DEF a, P
  <1>4. /\ a.live \cup a.gone = P /\ a.live \cup a.gone \subseteq Given
        /\ a.live \cap a.gone = {}
        /\ a.fresh \subseteq a.live \cup a.gone /\ a.orphans \subseteq a.gone
        /\ a.live \cup a.gone \subseteq synced \cup a.fresh
        /\ \A b \in a.live : b \in Offered /\ ~Archived(b)
        /\ \A b \in a.gone : Archived(b) \/ b \in a.orphans
    BY <1>2, <1>3
  <1>5. /\ DOMAIN a.tagged \subseteq Shelves
        /\ \A s \in DOMAIN a.tagged : Enabled(s) /\ a.tagged[s] = On(s) \cap Uploaded
        /\ \A s \in Shelves : Enabled(s) /\ TagNews(s, token.tags) => s \in DOMAIN a.tagged
    BY <1>2, CurrentIs, NewsAre
  <1> QED
    BY <1>4, <1>5 DEF a, P

(* A book that a last page leaves out is known, as it was archived or as it stands. *)
LEMMA LeftOut ==
  ASSUME SyncInvariant, NEW r, IsCurrent(r), NEW b \in Given \cap (Offered \cup synced),
         b \notin Candidates(r, token)
  PROVE  b \in synced /\ (b \in Offered \/ Archived(b)) /\ ArchivedAt(archive[b]) =< token.archive
  <1>1. b \in Books /\ b \in Scope(r) /\ r.archive = archive
    BY CurrentIs DEF Given, Uploaded, IsCurrent
  <1>2. ~IsNew(r, b) /\ ~Changed(r, token, b)
    BY <1>1 DEF Candidates
  <1>3. b \in synced /\ ~ShouldArchive(r, b)
    BY <1>1, <1>2, CurrentIs DEF Changed
  <1>4. b \in Offered \/ Archived(b)
    BY <1>1, <1>3, CurrentIs
  <1>5. clock \in Nat /\ ArchivedAt(archive[b]) \in 0..clock /\ token.archive \in 0..clock
    BY <1>1, InvariantIs, ArchivedAtIs DEF ArchiveTable, Token
  <1>6. ~(ArchivedAt(archive[b]) > token.archive)
    BY <1>1, <1>2 DEF Changed
  <1> QED
    BY <1>3, <1>4, <1>5, <1>6

LEMMA ComputeTurn ==
  ASSUME SyncInvariant, TakingTurns, TurnInvariant, NEW q \in Syncs, Compute(q)
  PROVE  TurnInvariant' /\ (ArchiveOK => ArchiveOK')
  <1> DEFINE r == sync[q].read
             y == sync'[q]
  <1>1. /\ sync[q].step = "compute" /\ RowsStay /\ archive' = archive /\ task' = task
        /\ deaths' = deaths /\ UNCHANGED <<synced, deviceVars, losses, quiet>>
    BY DEF Compute, At, RowsStay
  <1>2. Running(q) /\ RunOK(q)
    BY <1>1 DEF Running, TurnInvariant
  <1>3. (\A e \in Editors : ~Busy(e)) /\ \A p \in Syncs : p # q => ~Running(p)
    BY <1>2, Turns
  <1>4. sync[q].token = token /\ IsCurrent(r)
    BY <1>1, <1>2 DEF RunOK, CurrentOK, IsCurrent, HasShelves, HasListed, HasBooks
  <1>5. PICK c : c = clock'
    OBVIOUS
  <1>6. clock \in Nat /\ Now \in Nat /\ Now > clock /\ c \in Nat /\ clock =< c /\ token.archive \in 0..clock
    BY <1>5, InvariantIs, Bounds DEF Compute, Now, Token
  <1>7. FullRead(r, c) /\ FullRead(r, clock)
    BY <1>6, FullReadIs DEF Compute
  <1>8. sync \in [Syncs -> SyncRec(c)]
    BY <1>6, InvariantIs, TypesLater DEF SyncInvariant, SyncTypes
  <1>9. Beside(q) /\ \E page \in Pages(r, sync[q].token) : Computed(q, page)
    BY <1>5, <1>6, <1>7, <1>8, ComputeIs
  <1>10. PICK page \in Pages(r, token) : Computed(q, page)
    BY <1>4, <1>9
  <1> DEFINE a == Answered(r, token, page, Now)
  <1>11. /\ y.step = "dropped" /\ y.live = a.live /\ y.gone = a.gone /\ y.fresh = a.fresh
         /\ y.orphans = a.orphans /\ y.tagged = a.tagged
         /\ y.now = (IF a.orphans = {} THEN 0 ELSE Now)
         /\ y.more = (Candidates(r, token) # page)
         /\ y.token = token /\ y.wanted = sync[q].wanted
    BY <1>4, <1>10 DEF Computed
  <1>12. token' = token /\ synced' = synced /\ shelf' = shelf /\ listed' = listed
    BY <1>1 DEF deviceVars, RowsStay
  <1>13. \A b \in Books : Archived(b)' = Archived(b)
    BY <1>1 DEF Archived
  <1>14. AnswerOK(q)'
    <2>1. /\ a.live \cup a.gone = page \cap Readable /\ a.live \cup a.gone \subseteq Given
          /\ a.live \cap a.gone = {}
          /\ a.fresh \subseteq a.live \cup a.gone /\ a.orphans \subseteq a.gone
          /\ a.live \cup a.gone \subseteq synced \cup a.fresh
          /\ \A b \in a.live : b \in Offered /\ ~Archived(b)
          /\ \A b \in a.gone : Archived(b) \/ b \in a.orphans
          /\ DOMAIN a.tagged \subseteq Shelves
          /\ \A s \in DOMAIN a.tagged : Enabled(s) /\ a.tagged[s] = On(s) \cap Uploaded
          /\ \A s \in Shelves : Enabled(s) /\ TagNews(s, token.tags) => s \in DOMAIN a.tagged
      BY <1>4, <1>7, <1>10, AnswerIs
    <2> HIDE DEF a, y
    <2>2. Waiting(q)' = y.orphans
      BY <1>11 DEF Waiting, y
    <2>3. y.orphans # {} => y.now > token.archive
      BY <1>6, <1>11
    <2>4. ASSUME ~y.more, NEW b \in Given \cap (Offered \cup synced)
          PROVE  \/ b \in y.live \cup y.gone
                 \/ /\ b \in synced /\ (b \in Offered \/ Archived(b))
                    /\ ArchivedAt(archive[b]) =< token.archive
      <3>1. Candidates(r, token) = page
        BY <1>11, <2>4
      <3>2. CASE b \in page
        BY <1>11, <2>1, <2>4, <3>2 DEF Given
      <3>3. CASE b \notin page
        BY <1>4, <2>4, <3>1, <3>3, LeftOut
      <3> QED
        BY <3>2, <3>3
    <2>5. \A s \in Shelves : TagNews(s, token.tags)' = TagNews(s, token.tags)
      BY <1>12, NamesStay, <1>1 DEF TagNews
    <2>6. \A b \in Given : b \in Books
      BY DEF Given, Uploaded
    <2>7. /\ y.live \cup y.gone \subseteq Given' /\ y.live \cap y.gone = {}
          /\ y.fresh \subseteq y.live \cup y.gone /\ y.orphans \subseteq y.gone
          /\ y.live \cup y.gone \subseteq synced' \cup y.fresh
      BY <1>1, <1>11, <1>12, <2>1, NamesStay
    <2>8. /\ \A b \in y.live : b \in Offered' /\ ~Archived(b)'
          /\ \A b \in y.gone : Archived(b)' \/ b \in Waiting(q)'
      BY <1>1, <1>11, <1>13, <2>1, <2>2, <2>6, NamesStay
    <2>9. ~y.more => \A b \in Given' \cap (Offered' \cup synced') :
            \/ b \in y.live \cup y.gone
            \/ /\ b \in synced' /\ (b \in Offered' \/ Archived(b)')
               /\ ArchivedAt(archive'[b]) =< token'.archive
      BY <1>1, <1>12, <1>13, <2>4, <2>6, NamesStay
    <2>10. /\ DOMAIN y.tagged \subseteq Shelves
           /\ \A s \in DOMAIN y.tagged : Enabled(s)' /\ y.tagged[s] = On(s)' \cap Uploaded'
           /\ \A s \in Shelves : Enabled(s)' /\ TagNews(s, token.tags)' => s \in DOMAIN y.tagged
      BY <1>1, <1>11, <2>1, <2>5, NamesStay
    <2> QED
      BY <1>11, <1>12, <2>3, <2>7, <2>8, <2>9, <2>10 DEF AnswerOK, Writing, y
  <1>15. RunOK(q)'
    <2>1. CurrentOK(q)'
      BY <1>11 DEF CurrentOK, HasShelves, HasListed, HasBooks
    <2> QED
      BY <1>1, <1>2, <1>11, <1>12, <1>14, <2>1 DEF RunOK
  <1> QED
    BY <1>1, <1>3, <1>9, <1>15, GatherTurn

(* A step that leaves what the answer shows as it is *)
LEMMA AnswerGoes ==
  ASSUME NEW q \in Syncs, AnswerOK(q), sync[q].step \in Answering,
         SameSent(sync'[q], sync[q]), RowsStay, archive' = archive, synced' = synced, token' = token,
         sync'[q].orphans # {} => Waiting(q) \subseteq Waiting(q)',
         sync'[q].orphans = {} => Waiting(q) = {},
         sync'[q].step = "answer" => sync[q].fresh \subseteq synced,
         sync'[q].step \in {"update", "insert"} =>
           sync'[q].rows = {b \in sync[q].orphans : archive[b] # <<>>},
         sync'[q].step # "dropped" =>
           \A s \in Shelves : shelf[s].deleted > token.tags => s \in sync'[q].dropped,
         sync'[q].step \in Writing =>
           \A s \in Shelves : ~shelf[s].enabled /\ shelf[s].disabled > token.tags => s \in sync'[q].dropped
  PROVE  AnswerOK(q)'
  <1> DEFINE x == sync[q]
             y == sync'[q]
  <1>1. /\ y.live = x.live /\ y.gone = x.gone /\ y.fresh = x.fresh /\ y.orphans = x.orphans
        /\ y.tagged = x.tagged /\ y.now = x.now /\ y.more = x.more
    BY DEF SameSent
  <1>2. /\ x.live \cup x.gone \subseteq Given /\ x.live \cap x.gone = {}
        /\ x.fresh \subseteq x.live \cup x.gone /\ x.orphans \subseteq x.gone
        /\ x.live \cup x.gone \subseteq synced \cup x.fresh
        /\ \A b \in x.live : b \in Offered /\ ~Archived(b)
        /\ \A b \in x.gone : Archived(b) \/ b \in Waiting(q)
        /\ x.orphans # {} => x.now > token.archive
        /\ ~x.more => \A b \in Given \cap (Offered \cup synced) :
             \/ b \in x.live \cup x.gone
             \/ /\ b \in synced /\ (b \in Offered \/ Archived(b))
                /\ ArchivedAt(archive[b]) <= token.archive
        /\ DOMAIN x.tagged \subseteq Shelves
        /\ \A s \in DOMAIN x.tagged : Enabled(s) /\ x.tagged[s] = On(s) \cap Uploaded
        /\ \A s \in Shelves : Enabled(s) /\ TagNews(s, token.tags) => s \in DOMAIN x.tagged
    BY DEF AnswerOK
  <1>3. /\ Given' = Given /\ Offered' = Offered /\ Uploaded' = Uploaded
        /\ \A s \in Shelves : On(s)' = On(s) /\ Enabled(s)' = Enabled(s)
        /\ shelf' = shelf /\ listed' = listed
    BY NamesStay DEF RowsStay
  <1>4. \A b \in Books : Archived(b)' = Archived(b)
    BY DEF Archived
  <1>5. \A b \in Given : b \in Books
    BY DEF Given, Uploaded
  <1>6. \A s \in Shelves : TagNews(s, token.tags)' = TagNews(s, token.tags)
    BY <1>3 DEF TagNews
  <1>7. \A b \in y.gone : Archived(b)' \/ b \in Waiting(q)'
    BY <1>1, <1>2, <1>4, <1>5
  <1>8. ~y.more => \A b \in Given' \cap (Offered' \cup synced') :
          \/ b \in y.live \cup y.gone
          \/ /\ b \in synced' /\ (b \in Offered' \/ Archived(b)')
             /\ ArchivedAt(archive'[b]) <= token'.archive
    BY <1>1, <1>2, <1>3, <1>4, <1>5
  <1>9. /\ y.live \cup y.gone \subseteq Given' /\ y.live \cap y.gone = {}
        /\ y.fresh \subseteq y.live \cup y.gone /\ y.orphans \subseteq y.gone
        /\ y.live \cup y.gone \subseteq synced' \cup y.fresh
        /\ \A b \in y.live : b \in Offered' /\ ~Archived(b)'
        /\ y.orphans # {} => y.now > token'.archive
    BY <1>1, <1>2, <1>3, <1>4, <1>5
  <1>10. /\ DOMAIN y.tagged \subseteq Shelves
         /\ \A s \in DOMAIN y.tagged : Enabled(s)' /\ y.tagged[s] = On(s)' \cap Uploaded'
         /\ \A s \in Shelves : Enabled(s)' /\ TagNews(s, token.tags)' => s \in DOMAIN y.tagged
    BY <1>1, <1>2, <1>3, <1>6
  <1>11. /\ y.step = "answer" => y.fresh \subseteq synced'
         /\ y.step = "update" => y.rows = {b \in y.orphans : archive'[b] # <<>>}
         /\ y.step = "insert" => y.rows = {b \in y.orphans : archive'[b] # <<>>}
    BY <1>1
  <1> QED
    BY <1>3, <1>7, <1>8, <1>9, <1>10, <1>11 DEF AnswerOK

LEMMA DropsTurn ==
  ASSUME SyncInvariant, TakingTurns, TurnInvariant, NEW q \in Syncs, ReadDropped(q) \/ ReadDisabled(q)
  PROVE  TurnInvariant' /\ (ArchiveOK => ArchiveOK')
  <1> DEFINE x == sync[q]
             y == sync'[q]
  <1>1. /\ UNCHANGED libraryVars /\ UNCHANGED <<synced, deviceVars, losses, quiet>>
        /\ sync[q].step \in {"dropped", "disabled"}
    BY DEF ReadDropped, ReadDisabled, Reads, At
  <1>2. /\ RowsStay /\ archive' = archive /\ task' = task /\ deaths' = deaths
        /\ token' = token /\ synced' = synced /\ losses' = losses
    BY <1>1, LibraryStill DEF deviceVars
  <1>3. Running(q) /\ RunOK(q) /\ AnswerOK(q) /\ x.token = token /\ x.step \in Answering
    BY <1>1 DEF Running, TurnInvariant, RunOK, Answering
  <1>4. (\A e \in Editors : ~Busy(e)) /\ \A p \in Syncs : p # q => ~Running(p)
    BY <1>3, Turns
  <1>5. \A s \in Shelves : shelf[s].deleted \in 0..clock /\ shelf[s].disabled \in 0..clock
    BY InvariantIs DEF ShelfTable, ShelfRow
  <1>6. CASE ReadDropped(q)
    <2> DEFINE at == [s \in Shelves |-> shelf[s].deleted]
    <2>1. (\A s \in Shelves : at[s] \in 0..clock) /\ "disabled" \in Steps
      BY <1>5 DEF Steps
    <2>2. Drops(q, Shelves, at, "disabled")
      BY <1>6 DEF ReadDropped
    <2> HIDE DEF at
    <2>3. Beside(q) /\ Dropped(q, {s \in Shelves : at[s] > x.token.tags}, "disabled")
      BY <2>1, <2>2, InvariantIs, DropsIs
    <2>4. /\ y.step = "disabled" /\ SameSent(y, x) /\ y.wanted = x.wanted
          /\ \A s \in Shelves : shelf[s].deleted > token.tags => s \in y.dropped
      BY <1>3, <2>3 DEF Dropped, at
    <2>5. x.step = "dropped"
      BY <1>6 DEF ReadDropped, At
    <2>6. Waiting(q)' = x.orphans /\ Waiting(q) = x.orphans /\ y.orphans = x.orphans
      BY <2>4, <2>5 DEF Waiting, SameSent
    <2>7. AnswerOK(q)'
      BY <1>2, <1>3, <2>4, <2>6, AnswerGoes DEF Writing
    <2>8. RunOK(q)'
      BY <1>2, <1>3, <2>4, <2>7 DEF RunOK, CurrentOK, HasShelves, HasListed, HasBooks, SameSent
    <2> QED
      BY <1>1, <1>2, <1>4, <2>3, <2>8, GatherTurn
  <1>7. CASE ReadDisabled(q)
    <2> DEFINE at == [s \in Shelves |-> shelf[s].disabled]
               off == {s \in Shelves : ~shelf[s].enabled}
               step == IF x.orphans # {} THEN "orphans"
                       ELSE IF x.fresh # {} THEN "mark" ELSE "answer"
    <2>1. (\A s \in Shelves : at[s] \in 0..clock) /\ off \in SUBSET Shelves /\ step \in Steps
      BY <1>5 DEF Steps
    <2>2. Drops(q, off, at, step)
      BY <1>7 DEF ReadDisabled
    <2>3. \/ step = "orphans" /\ x.orphans # {}
          \/ step \in {"mark", "answer"} /\ x.orphans = {} /\ (step = "answer" => x.fresh = {})
      OBVIOUS
    <2> HIDE DEF at, off, step
    <2>4. Beside(q) /\ Dropped(q, {s \in off : at[s] > x.token.tags}, step)
      BY <2>1, <2>2, InvariantIs, DropsIs
    <2>5. /\ y.step = step /\ SameSent(y, x) /\ y.wanted = x.wanted /\ x.dropped \subseteq y.dropped
          /\ \A s \in Shelves : ~shelf[s].enabled /\ shelf[s].disabled > token.tags => s \in y.dropped
      BY <1>3, <2>4 DEF Dropped, at, off
    <2>6. x.step = "disabled" /\ step \in {"orphans", "mark", "answer"}
      BY <1>7, <2>3 DEF ReadDisabled, At
    <2>7. \A s \in Shelves : shelf[s].deleted > token.tags => s \in y.dropped
      BY <1>3, <2>5, <2>6 DEF AnswerOK
    <2>8. /\ Waiting(q) = x.orphans /\ y.orphans = x.orphans
          /\ x.orphans # {} => Waiting(q)' = x.orphans
      BY <2>3, <2>5, <2>6 DEF Waiting, SameSent
    <2>9. y.step = "answer" => x.fresh \subseteq synced
      BY <2>3, <2>5
    <2>10. y.step \notin {"update", "insert"}
      BY <2>5, <2>6
    <2>11. AnswerOK(q)'
      BY <1>2, <1>3, <2>5, <2>7, <2>8, <2>9, <2>10, AnswerGoes
    <2>12. RunOK(q)'
      BY <1>2, <1>3, <2>5, <2>6, <2>11 DEF RunOK, CurrentOK, HasShelves, HasListed, HasBooks, SameSent
    <2> QED
      BY <1>1, <1>2, <1>4, <2>4, <2>12, GatherTurn
  <1> QED
    BY <1>6, <1>7

LEMMA FindTurn ==
  ASSUME SyncInvariant, TakingTurns, TurnInvariant, NEW q \in Syncs, FindOrphans(q)
  PROVE  TurnInvariant' /\ (ArchiveOK => ArchiveOK')
  <1> DEFINE x == sync[q]
             y == sync'[q]
             rows == {b \in x.orphans : archive[b] # <<>>}
  <1>1. /\ UNCHANGED libraryVars /\ UNCHANGED <<synced, deviceVars, losses, quiet>>
        /\ x.step = "orphans"
    BY DEF FindOrphans, Reads, At
  <1>2. /\ RowsStay /\ archive' = archive /\ task' = task /\ deaths' = deaths
        /\ token' = token /\ synced' = synced /\ losses' = losses
    BY <1>1, LibraryStill DEF deviceVars
  <1>3. Running(q) /\ RunOK(q) /\ AnswerOK(q) /\ x.token = token /\ x.step \in Answering
    BY <1>1 DEF Running, TurnInvariant, RunOK, Answering
  <1>4. (\A e \in Editors : ~Busy(e)) /\ \A p \in Syncs : p # q => ~Running(p)
    BY <1>3, Turns
  <1>5. /\ Beside(q) /\ y.rows = rows /\ y.step = (IF rows # {} THEN "update" ELSE "insert")
        /\ SameSent(y, x) /\ y.dropped = x.dropped /\ y.wanted = x.wanted
    BY InvariantIs, FindOrphansIs
  <1>6. y.step \in {"update", "insert"} /\ y.orphans = x.orphans
    BY <1>5 DEF SameSent
  <1>7. Waiting(q) = x.orphans /\ Waiting(q)' = x.orphans
    BY <1>1, <1>5, <1>6 DEF Waiting
  <1>8. /\ \A s \in Shelves : shelf[s].deleted > token.tags => s \in y.dropped
        /\ \A s \in Shelves : ~shelf[s].enabled /\ shelf[s].disabled > token.tags => s \in y.dropped
    BY <1>1, <1>3, <1>5 DEF AnswerOK, Writing
  <1>9. AnswerOK(q)'
    BY <1>2, <1>3, <1>5, <1>6, <1>7, <1>8, AnswerGoes
  <1>10. RunOK(q)'
    BY <1>2, <1>3, <1>5, <1>6, <1>9 DEF RunOK, CurrentOK, HasShelves, HasListed, HasBooks, SameSent
  <1>11. x.step # "answer"
    BY <1>1
  <1> QED
    BY <1>1, <1>2, <1>4, <1>5, <1>10, <1>11, GatherTurn

(* The orphans a statement archives *)
Orphans(q) == IF UpdateOrphans(q) THEN sync[q].rows ELSE sync[q].orphans \ sync[q].rows

LEMMA OneRow ==
  ASSUME NEW c \in Nat, NEW rows \in Seq(ArchiveRow(c)), Len(rows) =< 1, NEW row \in ArchiveRow(c), row.is
  PROVE  /\ rows = <<>> => LET t == Append(rows, row) IN
              Len(t) =< 1 /\ t # <<>> /\ IsArchived(t) /\ ArchivedAt(t) = row.at
         /\ rows # <<>> => LET t == [i \in DOMAIN rows |-> row] IN
              Len(t) =< 1 /\ t # <<>> /\ IsArchived(t) /\ ArchivedAt(t) = row.at
  <1>1. ASSUME rows = <<>>
        PROVE  LET t == Append(rows, row) IN
               Len(t) =< 1 /\ t # <<>> /\ IsArchived(t) /\ ArchivedAt(t) = row.at
    <2> DEFINE t == Append(rows, row)
    <2>1. t = <<row>> /\ t # <<>>
      BY <1>1
    <2>2. Len(<<row>>) = 1 /\ <<row>>[1] = row
      OBVIOUS
    <2> HIDE DEF t
    <2>3. Latest(t) = row
      BY <2>1, <2>2 DEF Latest
    <2> QED
      BY <2>1, <2>2, <2>3 DEF IsArchived, ArchivedAt, t
  <1>2. ASSUME rows # <<>>
        PROVE  LET t == [i \in DOMAIN rows |-> row] IN
               Len(t) =< 1 /\ t # <<>> /\ IsArchived(t) /\ ArchivedAt(t) = row.at
    <2> DEFINE t == [i \in DOMAIN rows |-> row]
    <2>1. t = [i \in DOMAIN rows |-> t[i]] /\ \A i \in DOMAIN rows : t[i] \in ArchiveRow(c) /\ t[i] = row
      OBVIOUS
    <2>2. DOMAIN rows = 1..Len(rows) /\ Len(rows) \in Nat /\ Len(rows) # 0
      BY <1>2
    <2> HIDE DEF t
    <2>3. t \in Seq(ArchiveRow(c)) /\ Len(t) = Len(rows)
      BY <2>1, RowsKept
    <2>4. Len(t) = 1 /\ t # <<>> /\ Latest(t) = row
      BY <2>1, <2>2, <2>3 DEF Latest
    <2> QED
      BY <2>4 DEF IsArchived, ArchivedAt, t
  <1> QED
    BY <1>1, <1>2

LEMMA OrphanRows ==
  ASSUME SyncInvariant, OneArchiveRow, NEW q \in Syncs, AnswerOK(q), UpdateOrphans(q) \/ InsertOrphans(q),
         NEW b \in Books
  PROVE  /\ b \notin Orphans(q) => archive'[b] = archive[b]
         /\ b \in Orphans(q) =>
              /\ Len(archive'[b]) =< 1 /\ archive'[b] # <<>>
              /\ IsArchived(archive'[b]) /\ ArchivedAt(archive'[b]) = sync[q].now
         /\ Orphans(q) \subseteq sync[q].orphans
         /\ UpdateOrphans(q) => (b \in Orphans(q) => archive[b] # <<>>)
  <1> DEFINE row == [is |-> TRUE, at |-> sync[q].now]
  <1>1. sync[q].now \in 0..clock /\ clock \in Nat
    BY InvariantIs DEF SyncRec
  <1>2. row \in ArchiveRow(clock) /\ row.is /\ row.at = sync[q].now
    BY <1>1 DEF ArchiveRow
  <1>3. archive[b] \in Seq(ArchiveRow(clock)) /\ Len(archive[b]) =< 1
    BY InvariantIs DEF ArchiveTable, OneArchiveRow
  <1>4. sync[q].rows = {d \in sync[q].orphans : archive[d] # <<>>}
    BY DEF AnswerOK, UpdateOrphans, InsertOrphans, At, Answering
  <1> HIDE DEF row
  <1>5. CASE UpdateOrphans(q)
    <2>1. archive'[b] = IF b \in sync[q].rows THEN [i \in DOMAIN archive[b] |-> row] ELSE archive[b]
      BY <1>5, ArchiveWritten DEF row
    <2>2. (b \in sync[q].rows => archive[b] # <<>>) /\ sync[q].rows \subseteq sync[q].orphans
      BY <1>4
    <2>3. archive[b] # <<>> => LET t == [i \in DOMAIN archive[b] |-> row] IN
            Len(t) =< 1 /\ t # <<>> /\ IsArchived(t) /\ ArchivedAt(t) = row.at
      BY <1>1, <1>2, <1>3, OneRow
    <2>4. Orphans(q) = sync[q].rows
      BY <1>5 DEF Orphans
    <2> QED
      BY <1>2, <2>1, <2>2, <2>3, <2>4
  <1>6. CASE ~UpdateOrphans(q)
    <2>1. archive'[b] = IF b \in sync[q].orphans \ sync[q].rows THEN Append(archive[b], row) ELSE archive[b]
      BY <1>6, ArchiveWritten DEF row
    <2>2. b \in sync[q].orphans \ sync[q].rows => archive[b] = <<>>
      BY <1>4
    <2> QED
      BY <1>1, <1>2, <1>3, <1>6, <2>1, <2>2, OneRow DEF Orphans
  <1> QED
    BY <1>5, <1>6

LEMMA WrittenTurn ==
  ASSUME SyncInvariant, TakingTurns, TurnInvariant, NEW q \in Syncs, UpdateOrphans(q) \/ InsertOrphans(q)
  PROVE  TurnInvariant' /\ (ArchiveOK => ArchiveOK')
  <1> DEFINE x == sync[q]
             y == sync'[q]
             W == Orphans(q)
  <1>1. /\ x.step \in {"update", "insert"} /\ RowsStay /\ task' = task /\ deaths' = deaths
        /\ UNCHANGED <<synced, deviceVars, losses>> /\ quiet' = FALSE
        /\ UpdateOrphans(q) => x.step = "update"
        /\ InsertOrphans(q) => x.step = "insert"
    BY DEF UpdateOrphans, InsertOrphans, At, RowsStay, Disturb
  <1>2. token' = token /\ has' = has /\ tags' = tags /\ synced' = synced /\ losses' = losses
        /\ shelf' = shelf /\ listed' = listed /\ passed' = passed
    BY <1>1 DEF deviceVars, RowsStay
  <1>3. Running(q) /\ RunOK(q) /\ AnswerOK(q) /\ x.token = token /\ x.step \in Answering
        /\ LibraryOK /\ DeviceOK /\ OneArchiveRow
    BY <1>1 DEF Running, TurnInvariant, RunOK, Answering, LibraryOK
  <1>4. (\A e \in Editors : ~Busy(e)) /\ \A p \in Syncs : p # q => ~Running(p)
    BY <1>3, Turns
  <1>5. /\ \A b \in Books \ W : archive'[b] = archive[b]
        /\ \A b \in Books \cap W :
             /\ Len(archive'[b]) =< 1 /\ archive'[b] # <<>>
             /\ IsArchived(archive'[b]) /\ ArchivedAt(archive'[b]) = x.now
    BY <1>3, OrphanRows
  <1>6. x.rows = {b \in x.orphans : archive[b] # <<>>} /\ W \subseteq x.orphans
    BY <1>1, <1>3 DEF AnswerOK, Orphans
  <1>7. /\ x.live \cup x.gone \subseteq Given /\ x.live \cap x.gone = {}
        /\ x.fresh \subseteq x.live \cup x.gone /\ x.orphans \subseteq x.gone
        /\ x.live \cup x.gone \subseteq synced \cup x.fresh
        /\ \A b \in x.live : b \in Offered /\ ~Archived(b)
        /\ \A b \in x.gone : Archived(b) \/ b \in Waiting(q)
        /\ x.orphans # {} => x.now > token.archive
        /\ ~x.more => \A b \in Given \cap (Offered \cup synced) :
             \/ b \in x.live \cup x.gone
             \/ /\ b \in synced /\ (b \in Offered \/ Archived(b))
                /\ ArchivedAt(archive[b]) <= token.archive
        /\ DOMAIN x.tagged \subseteq Shelves
        /\ \A s \in DOMAIN x.tagged : Enabled(s) /\ x.tagged[s] = On(s) \cap Uploaded
        /\ \A s \in Shelves : Enabled(s) /\ TagNews(s, token.tags) => s \in DOMAIN x.tagged
        /\ \A s \in Shelves : shelf[s].deleted > token.tags => s \in x.dropped
        /\ \A s \in Shelves : ~shelf[s].enabled /\ shelf[s].disabled > token.tags => s \in x.dropped
    BY <1>1, <1>3 DEF AnswerOK, Writing
  <1>8. \A b \in Given : b \in Books
    BY DEF Given, Uploaded
  <1>9. /\ Beside(q) /\ Goes(q, y.step) /\ y.step \in {"insert", "mark", "answer"}
        /\ y.step = "insert" => UpdateOrphans(q)
        /\ y.step \in {"mark", "answer"} /\ UpdateOrphans(q) => x.orphans = x.rows
        /\ y.step = "answer" => x.fresh = {}
    <2>1. CASE UpdateOrphans(q)
      <3> DEFINE step == IF x.orphans # x.rows THEN "insert" ELSE IF x.fresh # {} THEN "mark" ELSE "answer"
      <3>1. AfterWrite(q, step) /\ step \in Steps
        BY <2>1 DEF UpdateOrphans, Steps
      <3>2. Beside(q) /\ Goes(q, step)
        BY <3>1, InvariantIs, AfterWriteIs
      <3> QED
        BY <2>1, <3>2 DEF Goes
    <2>2. CASE ~UpdateOrphans(q)
      <3> DEFINE step == IF x.fresh # {} THEN "mark" ELSE "answer"
      <3>1. AfterWrite(q, step) /\ step \in Steps
        BY <2>2 DEF InsertOrphans, Steps
      <3>2. Beside(q) /\ Goes(q, step)
        BY <3>1, InvariantIs, AfterWriteIs
      <3> QED
        BY <2>2, <3>2 DEF Goes
    <2> QED
      BY <2>1, <2>2
  <1>10. /\ y.live = x.live /\ y.gone = x.gone /\ y.fresh = x.fresh /\ y.orphans = x.orphans
         /\ y.tagged = x.tagged /\ y.now = x.now /\ y.more = x.more /\ y.rows = x.rows
         /\ y.dropped = x.dropped /\ y.token = x.token /\ y.wanted = x.wanted
    BY <1>9 DEF Goes, SameAnswer
  <1>11. \A b \in x.gone : Archived(b)' \/ b \in Waiting(q)'
    <2> SUFFICES ASSUME NEW b \in x.gone PROVE Archived(b)' \/ b \in Waiting(q)'
      OBVIOUS
    <2>1. b \in Books
      BY <1>7, <1>8
    <2>2. CASE b \in W
      BY <1>5, <2>1, <2>2 DEF Archived
    <2>3. CASE b \notin W /\ Archived(b)
      BY <1>5, <2>1, <2>3 DEF Archived
    <2>4. CASE b \notin W /\ b \in Waiting(q)
      BY <1>1, <1>6, <1>9, <1>10, <2>4 DEF Waiting, Orphans
    <2> QED
      BY <1>7, <2>2, <2>3, <2>4
  <1>12. \A b \in Given : b \notin x.gone => archive'[b] = archive[b] /\ Archived(b)' = Archived(b)
    BY <1>5, <1>6, <1>7, <1>8 DEF Archived
  <1>13. AnswerOK(q)'
    <2>1. /\ Given' = Given /\ Offered' = Offered /\ Uploaded' = Uploaded
          /\ \A s \in Shelves : On(s)' = On(s) /\ Enabled(s)' = Enabled(s)
      BY <1>1, NamesStay
    <2>2. \A s \in Shelves : TagNews(s, token.tags)' = TagNews(s, token.tags)
      BY <1>2, <2>1 DEF TagNews
    <2>3. ~y.more => \A b \in Given' \cap (Offered' \cup synced') :
            \/ b \in y.live \cup y.gone
            \/ /\ b \in synced' /\ (b \in Offered' \/ Archived(b)')
               /\ ArchivedAt(archive'[b]) <= token'.archive
      BY <1>2, <1>7, <1>10, <1>12, <2>1
    <2>4. /\ y.live \cup y.gone \subseteq Given' /\ y.live \cap y.gone = {}
          /\ y.fresh \subseteq y.live \cup y.gone /\ y.orphans \subseteq y.gone
          /\ y.live \cup y.gone \subseteq synced' \cup y.fresh
          /\ y.orphans # {} => y.now > token'.archive
      BY <1>2, <1>7, <1>10, <2>1
    <2>5. \A b \in y.live : b \in Offered' /\ ~Archived(b)'
      BY <1>7, <1>10, <1>12, <2>1
    <2>6. \A b \in y.gone : Archived(b)' \/ b \in Waiting(q)'
      BY <1>10, <1>11
    <2>7. /\ DOMAIN y.tagged \subseteq Shelves
          /\ \A s \in DOMAIN y.tagged : Enabled(s)' /\ y.tagged[s] = On(s)' \cap Uploaded'
          /\ \A s \in Shelves : Enabled(s)' /\ TagNews(s, token.tags)' => s \in DOMAIN y.tagged
      BY <1>7, <1>10, <2>1, <2>2
    <2>8. /\ y.step = "answer" => y.fresh \subseteq synced'
          /\ y.step # "update"
          /\ y.step = "insert" => y.rows = {b \in y.orphans : archive'[b] # <<>>}
      <3>1. ASSUME y.step = "insert" PROVE y.rows = {b \in y.orphans : archive'[b] # <<>>}
        <4>1. W = x.rows
          BY <1>9, <3>1 DEF Orphans
        <4>2. \A b \in x.orphans : archive'[b] # <<>> <=> archive[b] # <<>>
          BY <1>5, <1>6, <1>7, <1>8, <4>1
        <4> QED
          BY <1>6, <1>10, <4>2
      <3> QED
        BY <1>9, <1>10, <3>1
    <2> QED
      BY <1>2, <1>7, <1>10, <2>3, <2>4, <2>5, <2>6, <2>7, <2>8 DEF AnswerOK
  <1>14. RunOK(q)'
    BY <1>2, <1>3, <1>9, <1>10, <1>13 DEF RunOK, CurrentOK, HasShelves, HasListed, HasBooks
  <1>15. LibraryOK'
    <2>1. OneArchiveRow'
      BY <1>3, <1>5 DEF OneArchiveRow
    <2> QED
      BY <1>1, <1>3, <1>4, <2>1, LibraryStays
  <1>16. DeviceOK'
    <2>1. \A p \in Syncs, b \in Books : ~InFlight(p, b)
      BY <1>1, <1>4, <1>9, RestIdle DEF InFlight
    <2>2. losses = 0 => \A b \in synced : has[b] # "unknown"
      BY <1>3, <2>1 DEF DeviceOK, Given, Uploaded
    <2>3. \A s \in Shelves : TagOK(s) => TagOK(s)'
      BY <1>1, <1>2, NamesStay DEF TagOK, TagNews, Touches, Busy, Due1
    <2>4. \A b \in Books : has[b] = "archived" => archive'[b] # <<>>
      BY <1>3, <1>5 DEF DeviceOK
    <2>5. Given' = Given
      BY <1>1, NamesStay
    <2> QED
      BY <1>1, <1>2, <1>3, <2>2, <2>3, <2>4, <2>5 DEF DeviceOK
  <1>17. NewBooksArrive' /\ TagsAreCurrent' /\ RestoresArrive' /\ RemovedBooksGo'
    BY <1>1 DEF NewBooksArrive, TagsAreCurrent, RestoresArrive, RemovedBooksGo
  <1>18. ASSUME ArchiveOK PROVE ArchiveOK'
    <2>1. x.orphans # {} => x.now > token.archive
      BY <1>7
    <2>2. \A b \in Books \ passed : has[b] = "live" /\ IsArchived(archive'[b]) => ArchivedAt(archive'[b]) > token.archive
      BY <1>5, <1>6, <1>18, <2>1 DEF ArchiveOK, Archived
    <2>3. \A b \in Books \ passed : has[b] = "archived" =>
            IsArchived(archive'[b]) \/ ArchivedAt(archive'[b]) > token.archive
      BY <1>5, <1>18 DEF ArchiveOK, Archived
    <2> QED
      BY <1>2, <1>17, <2>2, <2>3 DEF ArchiveOK, Archived
  <1>19. \A p \in Syncs : RunOK(p)'
    BY <1>4, <1>9, <1>14, RestIdle
  <1> QED
    BY <1>15, <1>16, <1>17, <1>18, <1>19 DEF TurnInvariant

LEMMA MarkTurn ==
  ASSUME SyncInvariant, TakingTurns, TurnInvariant, NEW q \in Syncs, MarkSynced(q)
  PROVE  TurnInvariant' /\ (ArchiveOK => ArchiveOK')
  <1> DEFINE x == sync[q]
             y == sync'[q]
  <1>1. /\ x.step = "mark" /\ UNCHANGED libraryVars
        /\ UNCHANGED <<deviceVars, losses>> /\ quiet' = FALSE /\ synced' = synced \cup x.fresh
    BY DEF MarkSynced, At, Disturb
  <1>2. /\ RowsStay /\ archive' = archive /\ task' = task /\ deaths' = deaths
        /\ token' = token /\ has' = has /\ tags' = tags /\ losses' = losses
        /\ shelf' = shelf /\ listed' = listed /\ passed' = passed
    BY <1>1, LibraryStill DEF deviceVars, RowsStay
  <1>3. Running(q) /\ RunOK(q) /\ AnswerOK(q) /\ x.token = token /\ LibraryOK /\ DeviceOK
    BY <1>1 DEF Running, TurnInvariant, RunOK
  <1>4. (\A e \in Editors : ~Busy(e)) /\ \A p \in Syncs : p # q => ~Running(p)
    BY <1>3, Turns
  <1>5. Beside(q) /\ Goes(q, "answer")
    BY InvariantIs, AfterWriteIs DEF MarkSynced, Steps
  <1>6. /\ y.step = "answer" /\ y.live = x.live /\ y.gone = x.gone /\ y.fresh = x.fresh
        /\ y.orphans = x.orphans /\ y.tagged = x.tagged /\ y.now = x.now /\ y.more = x.more
        /\ y.dropped = x.dropped /\ y.token = x.token /\ y.wanted = x.wanted
    BY <1>5 DEF Goes, SameAnswer
  <1>7. /\ x.live \cup x.gone \subseteq Given /\ x.live \cap x.gone = {}
        /\ x.fresh \subseteq x.live \cup x.gone /\ x.orphans \subseteq x.gone
        /\ x.live \cup x.gone \subseteq synced \cup x.fresh
        /\ \A b \in x.live : b \in Offered /\ ~Archived(b)
        /\ \A b \in x.gone : Archived(b) \/ b \in Waiting(q)
        /\ x.orphans # {} => x.now > token.archive
        /\ ~x.more => \A b \in Given \cap (Offered \cup synced) :
             \/ b \in x.live \cup x.gone
             \/ /\ b \in synced /\ (b \in Offered \/ Archived(b))
                /\ ArchivedAt(archive[b]) <= token.archive
        /\ DOMAIN x.tagged \subseteq Shelves
        /\ \A s \in DOMAIN x.tagged : Enabled(s) /\ x.tagged[s] = On(s) \cap Uploaded
        /\ \A s \in Shelves : Enabled(s) /\ TagNews(s, token.tags) => s \in DOMAIN x.tagged
        /\ \A s \in Shelves : shelf[s].deleted > token.tags => s \in x.dropped
        /\ \A s \in Shelves : ~shelf[s].enabled /\ shelf[s].disabled > token.tags => s \in x.dropped
    BY <1>1, <1>3 DEF AnswerOK, Answering, Writing
  <1>8. Waiting(q) = {}
    BY <1>1 DEF Waiting
  <1>9. \A b \in Given : b \in Books /\ Archived(b)' = Archived(b)
    BY <1>2 DEF Given, Uploaded, Archived
  <1>10. /\ Given' = Given /\ Offered' = Offered /\ Uploaded' = Uploaded
         /\ \A s \in Shelves : On(s)' = On(s) /\ Enabled(s)' = Enabled(s)
    BY <1>2, NamesStay
  <1>11. AnswerOK(q)'
    <2>1. \A s \in Shelves : TagNews(s, token.tags)' = TagNews(s, token.tags)
      BY <1>2, <1>10 DEF TagNews
    <2>2. ~y.more => \A b \in Given' \cap (Offered' \cup synced') :
            \/ b \in y.live \cup y.gone
            \/ /\ b \in synced' /\ (b \in Offered' \/ Archived(b)')
               /\ ArchivedAt(archive'[b]) <= token'.archive
      BY <1>1, <1>2, <1>6, <1>7, <1>9, <1>10
    <2>3. /\ y.live \cup y.gone \subseteq Given' /\ y.live \cap y.gone = {}
          /\ y.fresh \subseteq y.live \cup y.gone /\ y.orphans \subseteq y.gone
          /\ y.live \cup y.gone \subseteq synced' \cup y.fresh
          /\ y.orphans # {} => y.now > token'.archive
          /\ y.fresh \subseteq synced'
      BY <1>1, <1>2, <1>6, <1>7, <1>10
    <2>4. /\ \A b \in y.live : b \in Offered' /\ ~Archived(b)'
          /\ \A b \in y.gone : Archived(b)'
      BY <1>6, <1>7, <1>8, <1>9, <1>10
    <2>5. /\ DOMAIN y.tagged \subseteq Shelves
          /\ \A s \in DOMAIN y.tagged : Enabled(s)' /\ y.tagged[s] = On(s)' \cap Uploaded'
          /\ \A s \in Shelves : Enabled(s)' /\ TagNews(s, token.tags)' => s \in DOMAIN y.tagged
      BY <1>6, <1>7, <1>10, <2>1
    <2> QED
      BY <1>2, <1>6, <1>7, <2>2, <2>3, <2>4, <2>5 DEF AnswerOK
  <1>12. RunOK(q)'
    BY <1>2, <1>3, <1>6, <1>11 DEF RunOK, CurrentOK, HasShelves, HasListed, HasBooks
  <1>13. LibraryOK'
    BY <1>2, <1>3, <1>4, LibraryStays DEF LibraryOK, OneArchiveRow
  <1>14. DeviceOK'
    <2>1. \A p \in Syncs, b \in Books : ~InFlight(p, b)
      BY <1>1, <1>4, <1>5, RestIdle DEF InFlight
    <2>2. losses = 0 => \A b \in synced : has[b] # "unknown"
      BY <1>3, <2>1 DEF DeviceOK, Given, Uploaded
    <2>3. \A b \in x.fresh : InFlight(q, b)'
      BY <1>6, <1>7 DEF InFlight
    <2>4. \A s \in Shelves : TagOK(s) => TagOK(s)'
      BY <1>2, NamesStay DEF TagOK, TagNews, Touches, Busy, Due1
    <2>5. synced' \subseteq Given'
      BY <1>1, <1>3, <1>7, <1>10 DEF DeviceOK
    <2>6. losses' = 0 => \A b \in synced' : has'[b] # "unknown" \/ \E p \in Syncs : InFlight(p, b)'
      BY <1>1, <1>2, <2>2, <2>3
    <2> QED
      BY <1>1, <1>2, <1>3, <2>4, <2>5, <2>6 DEF DeviceOK
  <1>15. NewBooksArrive' /\ TagsAreCurrent' /\ RestoresArrive' /\ RemovedBooksGo'
    BY <1>1 DEF NewBooksArrive, TagsAreCurrent, RestoresArrive, RemovedBooksGo
  <1>16. ArchiveOK => ArchiveOK'
    BY <1>2, <1>15 DEF ArchiveOK, Archived
  <1>17. \A p \in Syncs : RunOK(p)'
    BY <1>4, <1>5, <1>12, RestIdle
  <1> QED
    BY <1>13, <1>14, <1>15, <1>16, <1>17 DEF TurnInvariant

LEMMA ReceiveTurn ==
  ASSUME SyncInvariant, TakingTurns, TurnInvariant, NEW q \in Syncs, Receive(q)
  PROVE  TurnInvariant' /\ (ArchiveOK => ArchiveOK')
  <1> DEFINE x == sync[q]
             t == token.archive
  <1>1. /\ x.step = "answer" /\ UNCHANGED libraryVars /\ synced' = synced /\ losses' = losses
        /\ quiet' = (x.clean /\ ~x.more) /\ token' = Header(x.next)
        /\ passed' = (passed \ (x.live \cup x.gone)) \cup Overtaken(x)
        /\ has' = [b \in Books |-> IF b \in x.live THEN "live"
                                   ELSE IF b \in x.gone THEN "archived" ELSE has[b]]
        /\ tags' = [s \in Shelves |->
             IF s \in x.dropped THEN NoTag
             ELSE IF s \in DOMAIN x.tagged THEN [on |-> TRUE, books |-> x.tagged[s]] ELSE tags[s]]
    BY DEF Receive, At
  <1>2. /\ RowsStay /\ archive' = archive /\ task' = task /\ deaths' = deaths
        /\ shelf' = shelf /\ listed' = listed
    BY <1>1, LibraryStill DEF RowsStay
  <1>3. Running(q) /\ RunOK(q) /\ AnswerOK(q) /\ LibraryOK /\ DeviceOK
    BY <1>1 DEF Running, TurnInvariant, RunOK
  <1>4. (\A e \in Editors : ~Busy(e)) /\ \A p \in Syncs : p # q => ~Running(p)
    BY <1>3, Turns
  <1>5. Beside(q) /\ sync'[q] = NoSync
    BY InvariantIs, EndIs DEF Receive
  <1>6. Waiting(q) = {}
    BY <1>1 DEF Waiting
  <1>7. /\ x.live \cup x.gone \subseteq Given /\ x.live \cap x.gone = {}
        /\ x.live \cup x.gone \subseteq synced
        /\ \A b \in x.live : b \in Offered /\ ~Archived(b)
        /\ \A b \in x.gone : Archived(b)
        /\ ~x.more => \A b \in Given \cap (Offered \cup synced) :
             \/ b \in x.live \cup x.gone
             \/ /\ b \in synced /\ (b \in Offered \/ Archived(b))
                /\ ArchivedAt(archive[b]) <= t
        /\ \A s \in DOMAIN x.tagged : Enabled(s) /\ x.tagged[s] = On(s) \cap Uploaded
        /\ \A s \in Shelves : Enabled(s) /\ TagNews(s, token.tags) => s \in DOMAIN x.tagged
        /\ \A s \in Shelves : shelf[s].deleted > token.tags => s \in x.dropped
        /\ \A s \in Shelves : ~shelf[s].enabled /\ shelf[s].disabled > token.tags => s \in x.dropped
    BY <1>1, <1>3, <1>6 DEF AnswerOK, Answering, Writing
  <1>8. /\ Given' = Given /\ Offered' = Offered /\ Uploaded' = Uploaded
        /\ \A s \in Shelves : On(s)' = On(s) /\ Enabled(s)' = Enabled(s)
        /\ \A b \in Books : Archived(b)' = Archived(b)
    BY <1>2, NamesStay DEF Archived
  <1>9. \A b \in Given : b \in Books
    BY DEF Given, Uploaded
  <1>10. /\ synced \subseteq Given
         /\ \A b \in Books : has[b] # "unknown" => b \in synced
         /\ \A b \in Books : has[b] = "archived" => archive[b] # <<>>
         /\ has \in [Books -> {"unknown", "live", "archived"}] /\ losses \in Nat
    BY <1>3, InvariantIs, Bounds DEF DeviceOK, DeviceTypes
  <1>11. \A b \in Books : Archived(b) => archive[b] # <<>>
    BY DEF Archived, IsArchived
  <1>12. losses = 0 => \A b \in synced : has[b] # "unknown" \/ b \in x.live \cup x.gone
    <2>1. \A p \in Syncs, b \in Books : InFlight(p, b) => b \in x.live \cup x.gone
      BY <1>4, <1>5, RestIdle DEF InFlight
    <2> QED
      BY <1>3, <1>9, <1>10, <2>1 DEF DeviceOK
  <1>13. \A b \in Books : /\ b \in x.live => has'[b] = "live"
                          /\ b \in x.gone => has'[b] = "archived"
                          /\ b \notin x.live \cup x.gone => has'[b] = has[b]
    BY <1>1, <1>7
  <1>14. ASSUME deaths = 0, NEW s \in Shelves, tags'[s].on
         PROVE  Enabled(s) /\ tags'[s].books = On(s) \cap Uploaded
    <2>1. s \notin x.dropped
      BY <1>1, <1>14 DEF NoTag
    <2>2. CASE s \in DOMAIN x.tagged
      BY <1>1, <1>7, <2>1, <2>2
    <2>3. CASE s \notin DOMAIN x.tagged
      <3>1. tags'[s] = tags[s] /\ TagOK(s)
        BY <1>1, <1>3, <1>14, <2>1, <2>3 DEF DeviceOK
      <3>2. Enabled(s)
        BY <1>7, <1>14, <2>1, <3>1 DEF TagOK
      <3>3. ~TagNews(s, token.tags)
        BY <1>7, <2>3, <3>2
      <3>4. \A e \in Editors : ~Touches(e, s)
        BY <1>4 DEF Touches
      <3> QED
        BY <1>14, <3>1, <3>2, <3>3, <3>4 DEF TagOK
    <2> QED
      BY <2>2, <2>3
  <1>15. \A p \in Syncs : RunOK(p)'
    <2>1. ~Running(q)'
      BY <1>5, NoSyncTypes DEF Running
    <2> QED
      BY <1>4, <1>5, <2>1, RestIdle DEF RunOK
  <1>16. LibraryOK'
    BY <1>2, <1>3, <1>4, LibraryStays DEF LibraryOK, OneArchiveRow
  <1>17. DeviceOK'
    <2>1. \A b \in Books : has'[b] # "unknown" => b \in synced
      BY <1>7, <1>10, <1>13
    <2>2. \A b \in Books : has'[b] = "archived" => archive[b] # <<>>
      BY <1>7, <1>10, <1>11, <1>13
    <2>3. losses = 0 => \A b \in synced : has'[b] # "unknown"
      BY <1>9, <1>10, <1>12, <1>13
    <2>4. deaths = 0 => \A s \in Shelves : TagOK(s)'
      BY <1>8, <1>14 DEF TagOK
    <2> QED
      BY <1>1, <1>2, <1>8, <1>10, <2>1, <2>2, <2>3, <2>4 DEF DeviceOK
  <1>18. NewBooksArrive'
    <2> SUFFICES ASSUME quiet', losses = 0, NEW b \in Offered \cap Readable \cap Uploaded, archive[b] = <<>>
                 PROVE  has'[b] = "live"
      BY <1>1, <1>2, <1>8 DEF NewBooksArrive
    <2>1. ~x.more /\ b \in Given /\ b \in Books /\ b \in Offered
      BY <1>1, <1>9 DEF Given
    <2>2. b \notin x.gone /\ has[b] # "archived"
      BY <1>7, <1>10, <1>11, <2>1
    <2>3. CASE b \in x.live
      BY <1>13, <2>1, <2>3
    <2>4. CASE b \notin x.live
      <3>1. b \in synced
        BY <1>7, <2>1, <2>2, <2>4
      <3> QED
        BY <1>10, <1>12, <1>13, <2>1, <2>2, <2>4, <3>1
    <2> QED
      BY <2>3, <2>4
  <1>19. TagsAreCurrent'
    BY <1>2, <1>8, <1>14 DEF TagsAreCurrent
  <1>20. \A b \in Books : ArchivedAt(archive[b]) \in Nat /\ t \in Nat
    BY InvariantIs, ArchivedAtIs DEF ArchiveTable, Token
  <1>21. \A b \in Books \ passed' : b \notin x.live \cup x.gone => b \notin passed
    BY <1>1
  <1>22. ASSUME ArchiveOK, ~x.more PROVE ArchiveOK'
    <2>1. ~x.more
      BY <1>22
    <2>3. ASSUME NEW b \in Books, b \in synced, b \notin x.live \cup x.gone
          PROVE  (b \in Offered \/ Archived(b)) /\ ~(ArchivedAt(archive[b]) > t)
      <3>1. b \in Given \cap (Offered \cup synced)
        BY <1>10, <2>3
      <3> QED
        BY <1>7, <1>20, <2>1, <2>3, <3>1
    <2>4. ASSUME NEW b \in Books \ passed', has'[b] = "live"
          PROVE  b \in Offered /\ ~Archived(b)
      <3>1. CASE b \in x.live
        BY <1>7, <3>1
      <3>2. CASE b \notin x.live \cup x.gone
        <4>1. has[b] = "live" /\ b \in synced
          BY <1>10, <1>13, <2>4, <3>2
        <4>2. Archived(b) => ArchivedAt(archive[b]) > t
          BY <1>21, <1>22, <3>2, <4>1 DEF ArchiveOK
        <4> QED
          BY <2>3, <3>2, <4>1, <4>2
      <3>3. CASE b \in x.gone
        BY <1>13, <2>4, <3>3
      <3> QED
        BY <3>1, <3>2, <3>3
    <2>5. ASSUME NEW b \in Books \ passed', has'[b] = "archived" PROVE Archived(b)
      <3>1. CASE b \in x.gone
        BY <1>7, <3>1
      <3>2. CASE b \notin x.live \cup x.gone
        <4>1. has[b] = "archived" /\ b \in synced
          BY <1>10, <1>13, <2>5, <3>2
        <4>2. Archived(b) \/ ArchivedAt(archive[b]) > t
          BY <1>21, <1>22, <3>2, <4>1 DEF ArchiveOK
        <4> QED
          BY <2>3, <3>2, <4>1, <4>2
      <3>3. CASE b \in x.live
        BY <1>13, <2>5, <3>3
      <3> QED
        BY <3>1, <3>2, <3>3
    <2>6. RemovedBooksGo'
      BY <1>8, <2>4 DEF RemovedBooksGo
    <2>7. RestoresArrive'
      <3> SUFFICES ASSUME quiet', NEW b \in (Offered \cap Readable \cap Uploaded) \ passed', ~Archived(b)
                   PROVE  has'[b] = "live" \/ (has'[b] = "unknown" /\ losses > 0)
        BY <1>1, <1>2, <1>8 DEF RestoresArrive, Archived, Uploaded
      <3>1. b \in Books /\ b \in Given /\ b \in Offered
        BY <1>9 DEF Given
      <3>2. has'[b] # "archived"
        BY <2>5, <3>1
      <3>3. CASE b \in x.live
        BY <1>13, <3>1, <3>3
      <3>4. CASE b \notin x.live
        <4>1. b \notin x.gone /\ b \in synced
          BY <1>7, <2>1, <3>1, <3>4
        <4>2. has'[b] = has[b] /\ has[b] \in {"unknown", "live", "archived"}
          BY <1>10, <1>13, <3>1, <3>4, <4>1
        <4>3. has[b] = "unknown" => losses # 0
          BY <1>12, <3>4, <4>1
        <4> QED
          BY <1>10, <3>2, <4>2, <4>3
      <3> QED
        BY <3>3, <3>4
    <2> QED
      BY <1>8, <2>4, <2>5, <2>6, <2>7 DEF ArchiveOK
  <1>23. ASSUME ArchiveOK, x.more PROVE ArchiveOK'
    <2>1. ASSUME NEW b \in Books \ passed', b \notin x.live \cup x.gone, ArchivedAt(archive[b]) > t
          PROVE  ArchivedAt(archive[b]) > token'.archive
      <3>1. ~(ArchivedAt(archive[b]) =< Header(x.next).archive)
        BY <1>1, <1>23, <2>1 DEF Overtaken
      <3>2. Header(x.next).archive \in Nat
        BY InvariantIs, HeaderIs DEF SyncRec, Token
      <3> QED
        BY <1>1, <1>20, <3>1, <3>2
    <2>2. ASSUME NEW b \in Books \ passed', has'[b] = "live", Archived(b)
          PROVE  ArchivedAt(archive[b]) > token'.archive
      <3>1. b \notin x.live \cup x.gone
        BY <1>7, <1>13, <2>2
      <3> QED
        BY <1>13, <1>21, <1>23, <2>1, <2>2, <3>1 DEF ArchiveOK
    <2>3. ASSUME NEW b \in Books \ passed', has'[b] = "archived"
          PROVE  Archived(b) \/ ArchivedAt(archive[b]) > token'.archive
      <3>1. CASE b \in x.gone
        BY <1>7, <3>1
      <3>2. CASE b \notin x.gone
        <4>1. b \notin x.live \cup x.gone
          BY <1>13, <2>3, <3>2
        <4> QED
          BY <1>13, <1>21, <1>23, <2>1, <2>3, <4>1 DEF ArchiveOK
      <3> QED
        BY <3>1, <3>2
    <2>4. RestoresArrive' /\ RemovedBooksGo'
      BY <1>1, <1>23 DEF RestoresArrive, RemovedBooksGo
    <2> QED
      BY <1>2, <1>8, <2>2, <2>3, <2>4 DEF ArchiveOK
  <1> QED
    BY <1>15, <1>16, <1>17, <1>18, <1>19, <1>22, <1>23 DEF TurnInvariant

(* A synchronisation whose answer is lost, or that nobody waits for any more *)
LEMMA LostTurn ==
  ASSUME SyncInvariant, TakingTurns, TurnInvariant, NEW q \in Syncs, Late(q) \/ Lose(q)
  PROVE  TurnInvariant' /\ (ArchiveOK => ArchiveOK')
  <1> DEFINE x == sync[q]
             y == sync'[q]
  <1>1. UNCHANGED libraryVars /\ UNCHANGED <<synced, deviceVars, quiet>>
    BY DEF Late, Lose, Reads
  <1>2. /\ RowsStay /\ archive' = archive /\ task' = task /\ deaths' = deaths
        /\ token' = token /\ has' = has /\ tags' = tags /\ synced' = synced /\ quiet' = quiet
        /\ passed' = passed
    BY <1>1, LibraryStill DEF deviceVars
  <1>3. Running(q) /\ RunOK(q) /\ LibraryOK /\ DeviceOK
    BY DEF Late, Lose, At, Running, TurnInvariant
  <1>4. (\A e \in Editors : ~Busy(e)) /\ \A p \in Syncs : p # q => ~Running(p)
    BY <1>3, Turns
  <1>5. losses \in Nat /\ losses' \in Nat /\ losses' # 0 /\ losses =< losses'
    BY <1>3, InvariantIs, Bounds DEF Late, Lose, Reads, RunOK
  <1>6. /\ Beside(q)
        /\ \/ y = NoSync
           \/ y.step = x.step /\ y.read = x.read /\ SameAnswer(y, x)
    BY InvariantIs, EndIs, LoseIs DEF Late
  <1>7. RunOK(q)'
    <2>1. CASE y = NoSync
      BY <2>1, NoSyncTypes DEF RunOK, Running
    <2>2. CASE y.step = x.step /\ y.read = x.read /\ SameAnswer(y, x)
      <3>1. CurrentOK(q)'
        <4>1. CurrentShelves' = CurrentShelves
          BY <1>2, NamesStay DEF CurrentShelves, RowsStay
        <4> QED
          BY <1>2, <1>3, <2>2, <4>1 DEF RunOK, CurrentOK, RowsStay
      <3>2. AnswerOK(q)'
        <4>1. CASE x.step \in Answering
          <5>1. SameSent(y, x) /\ y.rows = x.rows /\ y.dropped = x.dropped
            BY <2>2 DEF SameAnswer, SameSent
          <5>2. Waiting(q)' = Waiting(q) /\ (y.orphans = {} => Waiting(q) = {})
            BY <2>2 DEF Waiting, SameAnswer
          <5>3. AnswerOK(q)
            BY <1>3 DEF RunOK
          <5> QED
            BY <1>2, <2>2, <4>1, <5>1, <5>2, <5>3, AnswerGoes DEF AnswerOK
        <4>2. CASE x.step \notin Answering
          BY <2>2, <4>2 DEF AnswerOK
        <4> QED
          BY <4>1, <4>2
      <3> QED
        BY <1>2, <1>3, <1>5, <2>2, <3>1, <3>2 DEF RunOK, SameAnswer
    <2> QED
      BY <1>6, <2>1, <2>2
  <1>8. \A p \in Syncs : RunOK(p)'
    BY <1>4, <1>6, <1>7, RestIdle
  <1>9. LibraryOK'
    BY <1>2, <1>3, <1>4, LibraryStays DEF LibraryOK, OneArchiveRow
  <1>10. DeviceOK'
    <2>1. \A s \in Shelves : TagOK(s) => TagOK(s)'
      BY <1>2, NamesStay DEF TagOK, TagNews, Touches, Busy, Due1, RowsStay
    <2> QED
      BY <1>2, <1>3, <1>5, <2>1, NamesStay DEF DeviceOK
  <1>11. NewBooksArrive' /\ TagsAreCurrent'
    BY <1>2, <1>5, NamesStay DEF TurnInvariant, NewBooksArrive, TagsAreCurrent
  <1>12. ArchiveOK => ArchiveOK'
    <2>1. losses > 0 => losses' > 0
      BY <1>5
    <2>2. RestoresArrive => RestoresArrive'
      BY <1>2, <2>1, NamesStay DEF RestoresArrive, Archived
    <2>3. RemovedBooksGo => RemovedBooksGo'
      BY <1>2, NamesStay DEF RemovedBooksGo, Archived
    <2> QED
      BY <1>2, <2>2, <2>3 DEF ArchiveOK, Archived
  <1> QED
    BY <1>8, <1>9, <1>10, <1>11, <1>12 DEF TurnInvariant

LEMMA NextTurn ==
  ASSUME SyncInvariant, TakingTurns, TakingTurns', TurnInvariant, Next
  PROVE  TurnInvariant' /\ (ArchiveOK => ArchiveOK')
  <1>1. CASE Library
    BY <1>1, LibraryTurns
  <1>2. ASSUME NEW q \in Syncs, Ask(q) \/ Serve(q) \/ Lose(q)
        PROVE  TurnInvariant' /\ (ArchiveOK => ArchiveOK')
    <2>1. CASE Ask(q)
      BY <2>1, AskTurn
    <2>2. CASE ReadShelves(q) \/ ReadListed(q) \/ ReadSynced(q) \/ ReadBooks(q) \/ ReadArchived(q)
      BY <2>2, ReadTurn
    <2>3. CASE Compute(q)
      BY <2>3, ComputeTurn
    <2>4. CASE ReadDropped(q) \/ ReadDisabled(q)
      BY <2>4, DropsTurn
    <2>5. CASE FindOrphans(q)
      BY <2>5, FindTurn
    <2>6. CASE UpdateOrphans(q) \/ InsertOrphans(q)
      BY <2>6, WrittenTurn
    <2>7. CASE MarkSynced(q)
      BY <2>7, MarkTurn
    <2>8. CASE Receive(q)
      BY <2>8, ReceiveTurn
    <2>9. CASE Late(q) \/ Lose(q)
      BY <2>9, LostTurn
    <2> QED
      BY <1>2, <2>1, <2>2, <2>3, <2>4, <2>5, <2>6, <2>7, <2>8, <2>9 DEF Serve
  <1> QED
    BY <1>1, <1>2 DEF Next

LEMMA StutterTurn ==
  ASSUME TurnInvariant, UNCHANGED vars
  PROVE  TurnInvariant' /\ (ArchiveOK => ArchiveOK')
  <1>1. /\ RowsStay /\ archive' = archive /\ task' = task /\ deaths' = deaths /\ synced' = synced
        /\ token' = token /\ has' = has /\ tags' = tags /\ sync' = sync /\ losses' = losses
        /\ quiet' = quiet /\ passed' = passed /\ shelf' = shelf /\ listed' = listed /\ book' = book
    BY DEF vars, libraryVars, rowVars, deviceVars, historyVars, RowsStay
  <1>2. /\ Uploaded' = Uploaded /\ Given' = Given /\ Offered' = Offered
        /\ \A s \in Shelves : On(s)' = On(s) /\ Enabled(s)' = Enabled(s)
        /\ \A b \in Books : Archived(b)' = Archived(b)
    BY <1>1, NamesStay DEF Archived
  <1>3. LibraryOK'
    <2>1. \A e \in Editors : TaskOK(e)'
      BY <1>1, <1>2 DEF TurnInvariant, LibraryOK, TaskOK, Due1
    <2>2. \A s \in Shelves : RowOK(s)'
      BY <1>1, <1>2 DEF TurnInvariant, LibraryOK, RowOK
    <2> QED
      BY <1>1, <2>1, <2>2 DEF TurnInvariant, LibraryOK, OneArchiveRow
  <1>4. ASSUME NEW q \in Syncs PROVE RunOK(q)'
    <2>1. RunOK(q)
      BY DEF TurnInvariant
    <2>2. Running(q) => CurrentOK(q)'
      <3>1. CurrentShelves' = CurrentShelves
        BY <1>1, <1>2 DEF CurrentShelves
      <3> QED
        BY <1>1, <2>1, <3>1 DEF RunOK, CurrentOK
    <2>3. Running(q) => AnswerOK(q)'
      <3>1. ASSUME sync[q].step \in Answering, AnswerOK(q) PROVE AnswerOK(q)'
        <4>1. SameSent(sync'[q], sync[q]) /\ Waiting(q)' = Waiting(q)
          BY <1>1 DEF SameSent, Waiting
        <4>2. sync[q].orphans = {} => Waiting(q) = {}
          BY DEF Waiting
        <4> QED
          BY <1>1, <3>1, <4>1, <4>2, AnswerGoes DEF AnswerOK
      <3>2. sync[q].step \notin Answering => AnswerOK(q)'
        BY <1>1 DEF AnswerOK
      <3> QED
        BY <2>1, <3>1, <3>2 DEF RunOK
    <2> QED
      BY <1>1, <2>1, <2>2, <2>3 DEF RunOK, Running
  <1>5. DeviceOK'
    <2>1. \A s \in Shelves : TagOK(s) => TagOK(s)'
      BY <1>1, <1>2 DEF TagOK, TagNews, Touches, Busy, Due1
    <2>2. \A p \in Syncs, b \in Books : InFlight(p, b)' = InFlight(p, b)
      BY <1>1 DEF InFlight
    <2>3. DeviceOK /\ \A b \in Given : b \in Books
      BY DEF TurnInvariant, Given, Uploaded
    <2>4. losses = 0 => \A b \in synced : has[b] # "unknown" \/ \E p \in Syncs : InFlight(p, b)'
      BY <2>2, <2>3 DEF DeviceOK
    <2> QED
      BY <1>1, <1>2, <2>1, <2>3, <2>4 DEF DeviceOK
  <1>6. NewBooksArrive' /\ TagsAreCurrent'
    BY <1>1, <1>2 DEF TurnInvariant, NewBooksArrive, TagsAreCurrent
  <1>7. ArchiveOK => ArchiveOK'
    <2>1. RestoresArrive => RestoresArrive'
      BY <1>1, <1>2 DEF RestoresArrive, Uploaded
    <2>2. RemovedBooksGo => RemovedBooksGo'
      BY <1>1, <1>2 DEF RemovedBooksGo
    <2> QED
      BY <1>1, <1>2, <2>1, <2>2 DEF ArchiveOK
  <1> QED
    BY <1>3, <1>4, <1>5, <1>6, <1>7 DEF TurnInvariant

LEMMA InitRows ==
  ASSUME LibraryInit
  PROVE  /\ \A s \in Shelves : RowOK(s)
         /\ \A e \in Editors : TaskOK(e) /\ ~Busy(e)
  <1>1. PICK B \in SUBSET Books, S \in SUBSET Shelves, on \in BOOLEAN : \E L \in SUBSET (S \X B) :
          /\ book = [b \in Books |-> LET at == IF b \in B THEN 2 ELSE 0 IN [born |-> at, modified |-> at]]
          /\ shelf = [s \in Shelves |-> LET at == IF s \in S THEN 2 ELSE 0 IN
                        [created |-> at, updated |-> at, deleted |-> 0,
                         enabled |-> on /\ s \in S, disabled |-> 0]]
          /\ listed = [s \in Shelves |-> [b \in Books |-> IF <<s, b>> \in L THEN 2 ELSE 0]]
    BY DEF LibraryInit
  <1>4. PICK L \in SUBSET (S \X B) :
          /\ book = [b \in Books |-> LET at == IF b \in B THEN 2 ELSE 0 IN [born |-> at, modified |-> at]]
          /\ shelf = [s \in Shelves |-> LET at == IF s \in S THEN 2 ELSE 0 IN
                        [created |-> at, updated |-> at, deleted |-> 0,
                         enabled |-> on /\ s \in S, disabled |-> 0]]
          /\ listed = [s \in Shelves |-> [b \in Books |-> IF <<s, b>> \in L THEN 2 ELSE 0]]
    BY <1>1
  <1>5. Uploaded = B
    BY <1>4 DEF Uploaded
  <1>6. ASSUME NEW s \in Shelves PROVE RowOK(s)
    <2>1. On(s) \subseteq B
      BY <1>4 DEF On
    <2>2. shelf[s].created = 0 => s \notin S
      BY <1>4
    <2>3. s \notin S => shelf[s].deleted = 0 /\ ~shelf[s].enabled /\ shelf[s].disabled = 0
      BY <1>4
    <2> QED
      BY <1>5, <2>1, <2>2, <2>3 DEF RowOK
  <1>7. ASSUME NEW e \in Editors PROVE TaskOK(e) /\ ~Busy(e)
    <2>1. task[e] = Idle
      BY DEF LibraryInit
    <2> QED
      BY <2>1, IdleTask DEF TaskOK, Busy
  <1> QED
    BY <1>6, <1>7

LEMMA InitTurn ==
  ASSUME Init
  PROVE  TurnInvariant /\ ArchiveOK
  <1>1. LibraryInit /\ losses = 0 /\ quiet = FALSE /\ (NewDevice \/ DeviceInUse)
        /\ \A q \in Syncs : ~Running(q)
    BY NoSyncTypes DEF Init, Running
  <1>2. (\A s \in Shelves : RowOK(s)) /\ \A e \in Editors : TaskOK(e) /\ ~Busy(e)
    BY <1>1, InitRows
  <1> DEFINE row == <<[is |-> FALSE, at |-> 2]>>
  <1>3. /\ Len(<<>>) =< 1 /\ ~IsArchived(<<>>)
        /\ Len(row) =< 1 /\ ~IsArchived(row)
    BY DEF IsArchived, Latest
  <1>4. \A b \in Books : Len(archive[b]) =< 1 /\ ~Archived(b)
    <2>1. \A b \in Books : archive[b] = <<>> \/ archive[b] = row
      <3>1. CASE NewDevice
        BY <3>1 DEF NewDevice
      <3>2. CASE DeviceInUse
        <4>1. archive = [b \in Books |-> IF b \in Offered \cap Readable THEN row ELSE <<>>]
          BY <3>2 DEF DeviceInUse
        <4> HIDE DEF row
        <4>2. \A b \in Books : archive[b] = <<>> \/ archive[b] = row
          BY <4>1
        <4> QED
          BY <4>2
      <3> QED
        BY <1>1, <3>1, <3>2
    <2> HIDE DEF row
    <2> QED
      BY <1>3, <2>1, Zenon DEF Archived
  <1>5. \A b \in Books : has[b] \in {"unknown", "live"}
    BY <1>1 DEF NewDevice, DeviceInUse
  <1>6. synced \subseteq Given
    <2>1. Offered \subseteq Uploaded
      BY <1>2 DEF Offered, RowOK
    <2> QED
      BY <1>1, <2>1 DEF NewDevice, DeviceInUse, Given
  <1>7. \A b \in Books : has[b] # "unknown" <=> b \in synced
    BY <1>1 DEF NewDevice, DeviceInUse
  <1>8. ASSUME NEW s \in Shelves PROVE TagOK(s)
    <2>1. CASE NewDevice
      BY <2>1 DEF NewDevice, NoTag, TagOK
    <2>2. CASE DeviceInUse
      <3>1. tags[s] = IF Enabled(s) THEN [on |-> TRUE, books |-> On(s)] ELSE NoTag
        BY <2>2 DEF DeviceInUse
      <3>2. On(s) \cap Uploaded = On(s)
        BY <1>2 DEF RowOK
      <3> QED
        BY <3>1, <3>2 DEF NoTag, TagOK
    <2> QED
      BY <1>1, <2>1, <2>2
  <1>9. DeviceOK
    BY <1>5, <1>6, <1>7, <1>8 DEF DeviceOK, Given, Uploaded
  <1>10. LibraryOK
    BY <1>2, <1>4 DEF LibraryOK, OneArchiveRow
  <1>11. NewBooksArrive /\ TagsAreCurrent /\ RestoresArrive /\ RemovedBooksGo
    BY <1>1 DEF NewBooksArrive, TagsAreCurrent, RestoresArrive, RemovedBooksGo
  <1>12. ArchiveOK
    BY <1>4, <1>5, <1>11 DEF ArchiveOK
  <1> QED
    BY <1>1, <1>9, <1>10, <1>11, <1>12 DEF TurnInvariant, RunOK

-----------------------------------------------------------------------------
(* While requests and synchronisations take turns: what a synchronisation has read is   *)
(* what there is, its answer is of the rows as they are against the token of the device, *)
(* and the device has no book that is not marked and no collection without news that is  *)
(* not as the shelf is.                                                             *)
THEOREM TurnInvariantHolds == Spec /\ []TakingTurns => []TurnInvariant
  <1>1. Init => TurnInvariant
    BY InitTurn
  <1>2. SyncInvariant /\ TakingTurns /\ TakingTurns' /\ TurnInvariant /\ [Next]_vars => TurnInvariant'
    BY NextTurn, StutterTurn
  <1> QED
    BY <1>1, <1>2, SyncInvariantHolds, PTL DEF Spec

(* A device that no answer was lost of has every book of its shelves that was never    *)
(* archived, once it has been given every page: also with pages smaller than the       *)
(* changes, and with times cut to seconds in the token.                               *)
THEOREM NewBooksArriveHolds == Spec /\ []TakingTurns => []NewBooksArrive
  <1>1. TurnInvariant => NewBooksArrive
    BY DEF TurnInvariant
  <1> QED
    BY <1>1, TurnInvariantHolds, PTL

(* Its collections are then enabled shelves with the books now on them, if no request  *)
(* died between the rows it wrote and the touch that makes them news.                  *)
THEOREM TagsAreCurrentHolds == Spec /\ []TakingTurns => []TagsAreCurrent
  <1>1. TurnInvariant => TagsAreCurrent
    BY DEF TurnInvariant
  <1> QED
    BY <1>1, TurnInvariantHolds, PTL

(* What was archived or restored after the device was told of a book is later than its *)
(* token, unless a page that cut the book off has overtaken it.                       *)
THEOREM ArchiveHolds == Spec /\ []TakingTurns => []ArchiveOK
  <1>1. Init => ArchiveOK
    BY InitTurn
  <1>2. SyncInvariant /\ TakingTurns /\ TakingTurns' /\ TurnInvariant /\ ArchiveOK /\ [Next]_vars
          => ArchiveOK'
    BY NextTurn, StutterTurn
  <1> QED
    BY <1>1, <1>2, SyncInvariantHolds, TurnInvariantHolds, PTL DEF Spec

(* Whatever the size of a page, a book that was archived and restored is on the device  *)
(* again, unless it was overtaken; one it never had can be missing if an answer was lost. *)
THEOREM RestoresArriveHolds == Spec /\ []TakingTurns => []RestoresArrive
  <1>1. ArchiveOK => RestoresArrive
    BY DEF ArchiveOK
  <1> QED
    BY <1>1, ArchiveHolds, PTL

(* Whatever the size of a page, the device keeps no book that has left its shelves or was *)
(* archived, unless it was overtaken.                                                *)
THEOREM RemovedBooksGoHolds == Spec /\ []TakingTurns => []RemovedBooksGo
  <1>1. ArchiveOK => RemovedBooksGo
    BY DEF ArchiveOK
  <1> QED
    BY <1>1, ArchiveHolds, PTL

-----------------------------------------------------------------------------
(* However requests and synchronisations interleave: rows of archived_books *)

WillInsert(e, b)  == Due(e, "discard") /\ ~task[e].was /\ b \in task[e].books
WillArchive(q, b) == sync[q].step \in {"update", "insert"} /\ b \in sync[q].orphans \ sync[q].rows

LEMMA InsertersAre ==
  ASSUME NEW b
  PROVE  /\ \A x : x \in Inserters(b) <=>
              (x \in Editors /\ WillInsert(x, b)) \/ (x \in Syncs /\ WillArchive(x, b))
         /\ \A x : x \in Inserters(b)' <=>
              (x \in Editors /\ WillInsert(x, b)') \/ (x \in Syncs /\ WillArchive(x, b)')
  BY DEF Inserters, WillInsert, WillArchive, Due, Busy

(* Who is about to insert a row of a book that has one was not alone with that. *)
RaceOK(b) ==
  b \notin raced =>
    /\ Len(archive[b]) =< 1
    /\ archive[b] = <<>> \/ Inserters(b) = {}
    /\ \A x, y \in Inserters(b) : x = y

(* They get fewer, unless the book has no row; a row is inserted by one of them, who *)
(* is then done.                                                                  *)
Moves(b) ==
  \/ /\ Len(archive'[b]) = Len(archive[b])
     /\ archive[b] = <<>> \/ Inserters(b)' \subseteq Inserters(b)
  \/ \E x \in Inserters(b) :
       /\ Len(archive'[b]) = Len(archive[b]) + 1
       /\ Inserters(b)' \subseteq Inserters(b) \ {x}

LEMMA RaceStep ==
  ASSUME NEW b \in Books, NEW c \in Nat, NEW d \in Nat,
         archive \in ArchiveTable(c), archive' \in ArchiveTable(d), RaceOK(b), Moves(b),
         raced \subseteq raced', \A x, y \in Inserters(b)' : x # y => b \in raced'
  PROVE  RaceOK(b)'
  <1> SUFFICES ASSUME b \notin raced'
               PROVE  /\ Len(archive'[b]) =< 1
                      /\ archive'[b] = <<>> \/ Inserters(b)' = {}
                      /\ \A x, y \in Inserters(b)' : x = y
    BY DEF RaceOK
  <1>1. archive[b] \in Seq(ArchiveRow(c)) /\ archive'[b] \in Seq(ArchiveRow(d))
    BY DEF ArchiveTable
  <1>2. /\ Len(archive[b]) \in Nat /\ Len(archive'[b]) \in Nat
        /\ archive[b] = <<>> <=> Len(archive[b]) = 0
        /\ archive'[b] = <<>> <=> Len(archive'[b]) = 0
    BY <1>1
  <1>3. /\ Len(archive[b]) =< 1
        /\ archive[b] = <<>> \/ Inserters(b) = {}
        /\ \A x, y \in Inserters(b) : x = y
    BY DEF RaceOK
  <1>4. CASE /\ Len(archive'[b]) = Len(archive[b])
             /\ archive[b] = <<>> \/ Inserters(b)' \subseteq Inserters(b)
    BY <1>2, <1>3, <1>4
  <1>5. CASE \E x \in Inserters(b) :
               /\ Len(archive'[b]) = Len(archive[b]) + 1
               /\ Inserters(b)' \subseteq Inserters(b) \ {x}
    <2>1. PICK x \in Inserters(b) :
               /\ Len(archive'[b]) = Len(archive[b]) + 1
               /\ Inserters(b)' \subseteq Inserters(b) \ {x}
      BY <1>5
    <2>2. Inserters(b)' = {} /\ Len(archive[b]) = 0
      BY <1>2, <1>3, <2>1
    <2> QED
      BY <1>2, <2>1, <2>2
  <1> QED
    BY <1>4, <1>5 DEF Moves

(* A request that has more to do after a statement does not discard a book. *)
LEMMA StatementLeaves ==
  ASSUME NEW e \in Editors, LibraryTypes(clock), clock \in Nat, Statement(e) \/ Abandon(e)
  PROVE  Others(e) /\ ~Due(e, "discard")'
  <1> DEFINE t == task[e].todo
             Safe(u) == u # <<>> => Head(u) # "discard"
  <1>1. Busy(e) /\ task \in [Editors -> Task(clock)]
    BY StatementIs DEF Abandon, LibraryTypes
  <1>2. t \in Todos /\ t # <<>> /\ Tail(t) \in Todos /\ task[e].books \subseteq Books /\ task[e].fresh \subseteq Books
    BY <1>1, DueIs
  <1>3. /\ Safe(Tail(t)) /\ Safe(<<>>) /\ Safe(<<"touch">>) /\ Safe(<<"archived", "unarchive">>)
        /\ Head(t) = "archived" => Tail(Tail(t)) \in Todos /\ Safe(Tail(Tail(t)))
    BY <1>2, TailTodo, NextHeads, MadeTodos
  <1>4. ASSUME NEW u \in Todos, Safe(u), Follow(e, u) PROVE Others(e) /\ ~Due(e, "discard")'
    BY <1>1, <1>4, FollowTypes, IdleTask DEF Due, Busy
  <1>5. ASSUME NEW u \in Todos, Safe(u), NEW field, NEW B \in SUBSET Books, Keep(e, field, B, u)
        PROVE  Others(e) /\ ~Due(e, "discard")'
    BY <1>1, <1>5, KeepTypes, IdleTask DEF Due, Busy
  <1>6. CASE Links(e)
    <2> DEFINE fresh == task[e].books \ On(Here(e))
               u == IF fresh # {} THEN Tail(t)
                    ELSE IF task[e].op = "tagAdd" THEN <<"archived", "unarchive">> ELSE <<>>
    <2>1. Keep(e, "fresh", fresh, u) /\ u \in Todos /\ Safe(u) /\ fresh \in SUBSET Books
      BY <1>2, <1>3, <1>6, MadeTodos DEF Links
    <2> HIDE DEF fresh, u, Safe
    <2> QED
      BY <1>5, <2>1
  <1>7. CASE FindArchived(e)
    <2> DEFINE asked == IF task[e].op = "add" THEN task[e].fresh ELSE task[e].books
               found == {b \in asked : RowsArchived(b)}
               u == IF found = {} THEN Tail(Tail(t)) ELSE Tail(t)
    <2>1. Keep(e, "books", found, u) /\ found \in SUBSET Books
      BY <1>2, <1>7 DEF FindArchived
    <2>2. u \in Todos /\ Safe(u)
      BY <1>2, <1>3, <1>7 DEF FindArchived, Due
    <2> HIDE DEF found, u, Safe
    <2> QED
      BY <1>5, <2>1, <2>2
  <1>8. CASE Removable(e)
    <2> DEFINE left == task[e].books \cap On(Here(e))
               u == IF left = {} THEN <<>> ELSE Tail(t)
    <2>1. Keep(e, "books", left, u) /\ u \in Todos /\ Safe(u) /\ left \in SUBSET Books
      BY <1>2, <1>3, <1>8, MadeTodos DEF Removable
    <2> HIDE DEF left, u, Safe
    <2> QED
      BY <1>5, <2>1
  <1>9. CASE Spare(e)
    <2> DEFINE left == {b \in task[e].books : archive[b] = <<>> \/ Archived(b)}
               u == IF left = {} THEN <<>> ELSE Tail(t)
    <2>1. Keep(e, "books", left, u) /\ u \in Todos /\ Safe(u) /\ left \in SUBSET Books
      BY <1>2, <1>3, <1>9, MadeTodos DEF Spare
    <2> HIDE DEF left, u, Safe
    <2> QED
      BY <1>5, <2>1
  <1>10. CASE InsertShelf(e)
    <2> DEFINE new == [task[e] EXCEPT !.at = Now, !.todo = Tail(t)]
    <2>1. task[e] \in Task(clock)
      BY <1>1
    <2>2. new.todo = Tail(t)
      BY <2>1 DEF Task
    <2>3. task' = [task EXCEPT ![e] = new]
      BY <1>10, <2>1 DEF InsertShelf, Task
    <2> HIDE DEF new
    <2>4. Others(e) /\ task'[e].todo = Tail(t)
      BY <1>1, <2>2, <2>3 DEF Others
    <2> QED
      BY <1>3, <2>4 DEF Due, Busy
  <1>11. CASE Member(e)
    <2>1. Follow(e, Tail(t)) \/ Follow(e, <<"touch">>)
      BY <1>11 DEF Member
    <2> HIDE DEF Safe
    <2> QED
      BY <1>2, <1>3, <1>4, <2>1, MadeTodos
  <1>12. CASE Proceed(e) \/ Follow(e, <<>>)
    <2>1. Follow(e, Tail(t)) \/ Follow(e, <<>>)
      BY <1>12 DEF Proceed
    <2> HIDE DEF Safe
    <2> QED
      BY <1>2, <1>3, <1>4, <2>1, MadeTodos
  <1>13. \/ Links(e) \/ FindArchived(e) \/ Removable(e) \/ Spare(e) \/ InsertShelf(e) \/ Member(e)
         \/ Proceed(e) \/ Follow(e, <<>>)
    BY DEF Abandon, Statement, Insert, Unarchive, Touch, Delete, Enable, Toggle, Drop, InsertMember,
       WriteDiscard, Modify, InsertBook
  <1> QED
    BY <1>6, <1>7, <1>8, <1>9, <1>10, <1>11, <1>12, <1>13

(* Only the editor e gains or loses an insertion. *)
LEMMA EditorMoves ==
  ASSUME SyncInvariant, Library, NEW e \in Editors, Others(e), NEW b
  PROVE  \A x \in Inserters(b)' : x # e => x \in Inserters(b)
  <1>1. \A q \in Syncs : WillArchive(q, b)' => WillArchive(q, b)
    BY InvariantIs, LibraryLeaves DEF Kept, SameAnswer, WillArchive
  <1>2. \A f \in Editors : f # e /\ WillInsert(f, b)' => WillInsert(f, b)
    BY DEF Others, WillInsert, Due, Busy
  <1>3. \A x \in Syncs : x \notin Editors
    BY SyncAssumption
  <1> QED
    BY <1>1, <1>2, <1>3, InsertersAre

LEMMA LibraryMoves ==
  ASSUME SyncInvariant, Library, NEW b \in Books
  PROVE  Moves(b)
  <1>1. PICK e \in Editors : Request(e) \/ Statement(e) \/ Abandon(e)
    BY DEF Library, LibraryNext
  <1>2. /\ LibraryTypes(clock) /\ clock \in Nat /\ task \in [Editors -> Task(clock)]
        /\ archive \in [Books -> Seq(ArchiveRow(clock))] /\ archive[b] \in Seq(ArchiveRow(clock))
    BY InvariantIs DEF LibraryTypes, ArchiveTable
  <1>3. e \notin Syncs
    BY SyncAssumption
  <1>4. CASE Request(e)
    <2>1. PICK op, todo, S, B, was : Start(e, op, todo, S, B, was) /\ Plan(op, todo, S, B, was)
      BY <1>2, <1>4, RequestStarts DEF Starts
    <2>2. Others(e) /\ task'[e].todo = todo /\ task'[e].books = B /\ task'[e].was = was
      BY <1>2, <2>1, StartTypes
    <2>3. archive' = archive
      BY <2>1 DEF Start, rowVars
    <2>4. e \in Inserters(b)' => archive[b] = <<>>
      <3> SUFFICES ASSUME WillInsert(e, b)' PROVE archive[b] = <<>>
        BY <1>3, InsertersAre
      <3>1. Head(todo) = "discard" /\ ~was /\ b \in B
        BY <2>2 DEF WillInsert, Due
      <3>2. \E d \in Books : B = {d} /\ was = (archive[d] # <<>>)
        BY <2>1, <3>1 DEF Plan
      <3> QED
        BY <3>1, <3>2
    <2>5. \A x \in Inserters(b)' : x # e => x \in Inserters(b)
      BY <2>2, EditorMoves
    <2> QED
      BY <2>3, <2>4, <2>5 DEF Moves
  <1>5. CASE Statement(e) \/ Abandon(e)
    <2>1. Others(e) /\ ~Due(e, "discard")'
      BY <1>2, <1>5, StatementLeaves
    <2>2. e \notin Inserters(b)'
      BY <1>3, <2>1, InsertersAre DEF WillInsert
    <2>3. Inserters(b)' \subseteq Inserters(b) \ {e}
      BY <2>1, <2>2, EditorMoves
    <2>4. CASE archive'[b] = archive[b]
      BY <2>3, <2>4 DEF Moves
    <2>5. CASE Unarchive(e) /\ archive'[b] # archive[b]
      <3> DEFINE row(i) == IF archive[b][i].is THEN [is |-> FALSE, at |-> Now] ELSE archive[b][i]
                 s == [i \in DOMAIN archive[b] |-> row(i)]
      <3>1. archive'[b] = s
        BY <2>5 DEF Unarchive
      <3>2. Len(s) = Len(archive[b])
        <4>1. Len(archive[b]) \in Nat /\ DOMAIN archive[b] = 1..Len(archive[b])
          BY <1>2
        <4> HIDE DEF row
        <4> QED
          BY <4>1
      <3> HIDE DEF s
      <3> QED
        BY <2>3, <3>1, <3>2 DEF Moves
    <2>6. CASE WriteDiscard(e) /\ archive'[b] # archive[b]
      <3> DEFINE row == [is |-> TRUE, at |-> Now]
      <3>1. PICK x \in task[e].books : archive' = [archive EXCEPT ![x] =
              IF task[e].was THEN [@ EXCEPT ![1] = row] ELSE Append(@, row)]
        BY <2>6 DEF WriteDiscard
      <3> HIDE DEF row
      <3>2. x = b
        BY <1>2, <2>6, <3>1
      <3>3. CASE task[e].was
        <4>1. archive'[b] = [archive[b] EXCEPT ![1] = row]
          BY <1>2, <3>1, <3>2, <3>3
        <4>2. Len(archive'[b]) = Len(archive[b])
          BY <1>2, <4>1
        <4> QED
          BY <2>3, <4>2 DEF Moves
      <3>4. CASE ~task[e].was
        <4>1. archive'[b] = Append(archive[b], row)
          BY <1>2, <3>1, <3>2, <3>4
        <4>2. Len(archive'[b]) = Len(archive[b]) + 1
          <5> DEFINE r == archive[b]
          <5>1. r \in Seq(ArchiveRow(clock))
            BY <1>2
          <5> HIDE DEF r
          <5>2. Len(Append(r, row)) = Len(r) + 1
            BY <5>1
          <5> QED
            BY <4>1, <5>2 DEF r
        <4>3. e \in Inserters(b)
          BY <2>6, <3>1, <3>2, <3>4, InsertersAre DEF WillInsert, WriteDiscard
        <4> QED
          BY <2>3, <4>2, <4>3 DEF Moves
      <3> QED
        BY <3>3, <3>4
    <2>7. Unarchive(e) \/ WriteDiscard(e) \/ archive' = archive
      BY <1>5 DEF Statement, Links, Insert, Member, FindArchived, Touch, Delete, Removable,
         Spare, Enable, Toggle, Drop, InsertShelf, InsertMember, Modify, InsertBook, Abandon, rowVars
    <2> QED
      BY <2>4, <2>5, <2>6, <2>7
  <1> QED
    BY <1>1, <1>4, <1>5

(* Only the synchronisation q gains or loses an insertion. *)
LEMMA SyncMoves ==
  ASSUME NEW q \in Syncs, Beside(q), task' = task, NEW b
  PROVE  \A x \in Inserters(b)' : x # q => x \in Inserters(b)
  <1>1. \A p \in Syncs : p # q /\ WillArchive(p, b)' => WillArchive(p, b)
    BY DEF Beside, Kept, SameAnswer, WillArchive
  <1>2. \A f \in Editors : WillInsert(f, b)' => WillInsert(f, b)
    BY DEF WillInsert, Due, Busy
  <1> QED
    BY <1>1, <1>2, InsertersAre

LEMMA ArchiveLeft ==
  ASSUME SyncInvariant, NEW q \in Syncs, Beside(q), task' = task, archive' = archive, NEW b \in Books,
         WillArchive(q, b)' => WillArchive(q, b) \/ archive[b] = <<>>
  PROVE  Moves(b)
  <1>1. \A x \in Inserters(b)' : x # q => x \in Inserters(b)
    BY SyncMoves
  <1>2. q \notin Editors
    BY SyncAssumption
  <1>3. archive[b] = <<>> \/ (q \in Inserters(b)' => q \in Inserters(b))
    BY <1>2, InsertersAre
  <1> QED
    BY <1>1, <1>3 DEF Moves

LEMMA SyncRaces ==
  ASSUME SyncInvariant, NEW q \in Syncs, Ask(q) \/ Serve(q) \/ Lose(q), NEW b \in Books
  PROVE  Moves(b)
  <1>1. ReadShape(q) /\ clock \in Nat /\ sync \in [Syncs -> SyncRec(clock)]
        /\ archive[b] \in Seq(ArchiveRow(clock))
    BY InvariantIs DEF ArchiveTable
  <1>2. task' = task
    BY DEF Ask, Serve, Lose, ReadShelves, ReadListed, ReadSynced, ReadBooks, ReadArchived, Compute,
       ReadDropped, ReadDisabled, FindOrphans, UpdateOrphans, InsertOrphans, MarkSynced, Receive, Late,
       Reads, libraryVars
  <1>3. ASSUME Beside(q), archive' = archive, sync'[q].step \notin {"update", "insert"} PROVE Moves(b)
    BY <1>2, <1>3, ArchiveLeft DEF WillArchive
  <1>4. CASE Ask(q)
    <2>1. Beside(q) /\ sync'[q].step = "shelves"
      BY <1>4, InvariantIs, AskIs
    <2>2. archive' = archive
      BY <1>4, LibraryStill DEF Ask, Reads
    <2> QED
      BY <1>3, <2>1, <2>2
  <1>5. CASE ReadShelves(q) \/ ReadListed(q) \/ ReadSynced(q) \/ ReadBooks(q) \/ ReadArchived(q)
    <2>1. sync[q].step \in HasShelves => DOMAIN sync[q].read.shelf \subseteq Shelves
      BY <1>1 DEF ReadShape, SomeShelves
    <2>2. Beside(q) /\ sync'[q].step \in {"listed", "synced", "books", "archived", "compute"}
      BY InvariantIs, ReadingIs, <1>5, <2>1
         DEF Goes, ReadShelves, ReadListed, ReadSynced, ReadBooks, ReadArchived, At, HasShelves
    <2>3. archive' = archive
      BY <1>5, LibraryStill
         DEF ReadShelves, ReadListed, ReadSynced, ReadBooks, ReadArchived, Reads
    <2> QED
      BY <1>3, <2>2, <2>3
  <1>6. CASE Compute(q)
    <2>1. \E x : sync' = [sync EXCEPT ![q] = x] /\ x.step = "dropped"
      <3> DEFINE r == sync[q].read
                 t == sync[q].token
      <3>1. PICK page \in Pages(r, t) : LET a == Answered(r, t, page, Now) IN
              sync' = [sync EXCEPT ![q] = [sync[q] EXCEPT
                !.step = "dropped", !.read = NoRead, !.live = a.live, !.gone = a.gone,
                !.fresh = a.fresh, !.orphans = a.orphans, !.tagged = a.tagged, !.next = a.next,
                !.now = IF a.orphans = {} THEN 0 ELSE Now,
                !.more = Candidates(r, t) # page]]
        BY <1>1, <1>6 DEF Compute
      <3> DEFINE a == Answered(r, t, page, Now)
                 now == IF a.orphans = {} THEN 0 ELSE Now
                 more == Candidates(r, t) # page
                 y == [sync[q] EXCEPT
                   !.step = "dropped", !.read = NoRead, !.live = a.live, !.gone = a.gone,
                   !.fresh = a.fresh, !.orphans = a.orphans, !.tagged = a.tagged, !.next = a.next,
                   !.now = now, !.more = more]
      <3>2. sync' = [sync EXCEPT ![q] = y]
        BY <3>1
      <3> HIDE DEF a, now, more
      <3>3. sync[q] \in SyncRec(clock)
        BY <1>1
      <3>4. y.step = "dropped"
        BY <3>3 DEF SyncRec
      <3> HIDE DEF y
      <3> QED
        BY <3>2, <3>4
    <2>2. sync'[q].step = "dropped" /\ \A p \in Syncs : p # q => sync'[p] = sync[p]
      BY <1>1, <2>1
    <2>3. Beside(q) /\ archive' = archive
      BY <1>6, <2>2, KeptAll DEF Beside, Compute
    <2> QED
      BY <1>3, <2>2, <2>3
  <1>7. CASE ReadDropped(q) \/ ReadDisabled(q)
    <2>1. PICK step \in {"disabled", "orphans", "mark", "answer"} : \E gone, at : Drops(q, gone, at, step)
      <3>1. CASE ReadDropped(q)
        BY <3>1 DEF ReadDropped
      <3>2. CASE ReadDisabled(q)
        BY <3>2 DEF ReadDisabled
      <3> QED
        BY <1>7, <3>1, <3>2
    <2>2. sync'[q].step = step /\ \A p \in Syncs : p # q => sync'[p] = sync[p]
      BY <1>1, <2>1 DEF Drops, SyncRec
    <2>3. Beside(q)
      BY <2>2, KeptAll DEF Beside
    <2>4. archive' = archive
      BY <1>7, LibraryStill DEF ReadDropped, ReadDisabled, Reads
    <2> QED
      BY <1>3, <2>2, <2>3, <2>4
  <1>8. CASE FindOrphans(q)
    <2>1. /\ Beside(q) /\ sync'[q].rows = {c \in sync[q].orphans : archive[c] # <<>>}
          /\ sync'[q].orphans = sync[q].orphans
      BY <1>1, <1>8, FindOrphansIs DEF SameSent
    <2>2. archive' = archive
      BY <1>8, LibraryStill DEF FindOrphans, Reads
    <2>3. WillArchive(q, b)' => archive[b] = <<>>
      BY <2>1 DEF WillArchive
    <2> QED
      BY <1>2, <2>1, <2>2, <2>3, ArchiveLeft
  <1>9. CASE UpdateOrphans(q) \/ InsertOrphans(q)
    <2>1. PICK step \in Steps : AfterWrite(q, step) /\ (step = "insert" => UpdateOrphans(q)) /\ step # "update"
      <3>1. CASE UpdateOrphans(q)
        BY <3>1 DEF UpdateOrphans, Steps
      <3>2. CASE InsertOrphans(q)
        BY <3>2 DEF InsertOrphans, Steps
      <3> QED
        BY <1>9, <3>1, <3>2
    <2>2. /\ Beside(q) /\ sync'[q].step = step
          /\ sync'[q].orphans = sync[q].orphans /\ sync'[q].rows = sync[q].rows
      BY <1>1, <2>1, AfterWriteIs DEF Goes, SameAnswer
    <2>3. \A x \in Inserters(b)' : x # q => x \in Inserters(b)
      BY <1>2, <2>2, SyncMoves
    <2>4. q \notin Editors /\ sync[q].step \in {"update", "insert"}
      BY <1>9, SyncAssumption DEF UpdateOrphans, InsertOrphans, At
    <2>5. Inserters(b)' \subseteq Inserters(b)
      <3>1. WillArchive(q, b)' => WillArchive(q, b)
        BY <2>2, <2>4 DEF WillArchive
      <3> QED
        BY <2>3, <2>4, <3>1, InsertersAre
    <2>6. CASE archive'[b] = archive[b]
      BY <2>5, <2>6 DEF Moves
    <2>7. CASE archive'[b] # archive[b] /\ UpdateOrphans(q)
      <3> DEFINE row == [is |-> TRUE, at |-> sync[q].now]
                 s == [i \in DOMAIN archive[b] |-> row]
      <3>1. archive'[b] = s
        BY <2>7, ArchiveWritten
      <3>2. Len(s) = Len(archive[b])
        <4>1. Len(archive[b]) \in Nat /\ DOMAIN archive[b] = 1..Len(archive[b])
          BY <1>1
        <4> HIDE DEF row
        <4> QED
          BY <4>1
      <3> HIDE DEF s
      <3> QED
        BY <2>5, <3>1, <3>2 DEF Moves
    <2>8. CASE archive'[b] # archive[b] /\ ~UpdateOrphans(q)
      <3> DEFINE row == [is |-> TRUE, at |-> sync[q].now]
                 r == archive[b]
      <3>1. archive'[b] = Append(r, row) /\ b \in sync[q].orphans \ sync[q].rows
        BY <1>9, <2>8, ArchiveWritten
      <3>2. r \in Seq(ArchiveRow(clock))
        BY <1>1
      <3>3. q \in Inserters(b) /\ q \notin Inserters(b)'
        BY <2>1, <2>2, <2>4, <2>8, <3>1, InsertersAre DEF WillArchive
      <3> HIDE DEF row, r
      <3>4. Len(Append(r, row)) = Len(r) + 1
        BY <3>2
      <3>5. Len(archive'[b]) = Len(archive[b]) + 1
        BY <3>1, <3>4 DEF r
      <3> QED
        BY <2>5, <3>3, <3>5 DEF Moves
    <2> QED
      BY <2>6, <2>7, <2>8
  <1>10. CASE MarkSynced(q)
    <2>1. Beside(q) /\ sync'[q].step = "answer"
      BY <1>1, <1>10, AfterWriteIs DEF MarkSynced, Steps, Goes
    <2>2. archive' = archive
      BY <1>10, LibraryStill DEF MarkSynced
    <2> QED
      BY <1>3, <2>1, <2>2
  <1>11. CASE Receive(q) \/ Late(q) \/ Lose(q)
    <2>1. archive' = archive
      BY <1>11, LibraryStill DEF Receive, Late, Lose, Reads
    <2>2. CASE sync' = [sync EXCEPT ![q] = NoSync]
      <3>1. Beside(q) /\ sync'[q].step = "idle"
        BY <1>1, <2>2, EndIs, NoSyncTypes
      <3> QED
        BY <1>3, <2>1, <3>1
    <2>3. CASE Lose(q) /\ sync'[q] # NoSync
      <3>1. Beside(q) /\ WillArchive(q, b)' = WillArchive(q, b)
        BY <1>1, <2>3, LoseIs DEF WillArchive, SameAnswer
      <3> QED
        BY <1>2, <2>1, <3>1, ArchiveLeft
    <2>4. CASE Lose(q) /\ sync'[q] = NoSync
      <3>1. Beside(q) /\ sync'[q].step = "idle"
        BY <1>1, <2>4, LoseIs, NoSyncTypes
      <3> QED
        BY <1>3, <2>1, <3>1
    <2> QED
      BY <1>11, <2>2, <2>3, <2>4 DEF Receive, Late
  <1> QED
    BY <1>4, <1>5, <1>6, <1>7, <1>8, <1>9, <1>10, <1>11 DEF Serve

LEMMA InitRaces ==
  ASSUME Init, NEW b \in Books
  PROVE  RaceOK(b)
  <1>1. \A x : x \notin Inserters(b)
    <2>1. \A e \in Editors : ~WillInsert(e, b)
      BY IdleTask DEF Init, LibraryInit, WillInsert, Due, Busy
    <2>2. \A q \in Syncs : ~WillArchive(q, b)
      BY NoSyncTypes DEF Init, WillArchive
    <2> QED
      BY <2>1, <2>2, InsertersAre
  <1>2. LibraryOK
    BY InitTurn DEF TurnInvariant
  <1> QED
    BY <1>1, <1>2 DEF RaceOK, LibraryOK, OneArchiveRow

(* However the statements of requests and synchronisations fall, a book gets a second   *)
(* row of archived_books only after two of them had both found it without one.          *)
THEOREM SecondRowNeedsRaceHolds == Spec => []SecondRowNeedsRace
  <1> DEFINE Races == \A b \in Books : RaceOK(b)
  <1>1. Init => Races
    BY InitRaces
  <1>2. ASSUME SyncInvariant, SyncInvariant', Races, [Next]_vars PROVE Races'
    <2> SUFFICES ASSUME NEW b \in Books PROVE RaceOK(b)'
      OBVIOUS
    <2>1. CASE Next
      <3>1. Moves(b)
        BY <1>2, <2>1, LibraryMoves, SyncRaces DEF Next
      <3>2. raced \subseteq raced' /\ \A x, y \in Inserters(b)' : x # y => b \in raced'
        BY <2>1 DEF Next, Remember
      <3>3. clock \in Nat /\ archive \in ArchiveTable(clock)
        BY <1>2, InvariantIs
      <3>4. clock' \in Nat /\ archive' \in ArchiveTable(clock')
        BY <1>2 DEF SyncInvariant, OtherTypes, LibraryTypes
      <3>5. RaceOK(b)
        BY <1>2
      <3> QED
        BY <3>1, <3>2, <3>3, <3>4, <3>5, RaceStep
    <2>2. CASE UNCHANGED vars
      <3>1. archive' = archive /\ raced' = raced /\ task' = task /\ sync' = sync
        BY <2>2 DEF vars, libraryVars, rowVars, historyVars
      <3>2. Inserters(b)' = Inserters(b)
        BY <3>1 DEF Inserters, Due, Busy
      <3> QED
        BY <1>2, <3>1, <3>2 DEF RaceOK
    <2> QED
      BY <1>2, <2>1, <2>2
  <1>3. Races => SecondRowNeedsRace
    <2> SUFFICES ASSUME Races, NEW b \in Books, Len(archive[b]) > 1, b \notin raced
                 PROVE  FALSE
      BY DEF SecondRowNeedsRace
    <2>1. Len(archive[b]) =< 1
      BY DEF RaceOK
    <2> QED
      BY <2>1
  <1> QED
    BY <1>1, <1>2, <1>3, SyncInvariantHolds, PTL DEF Spec
=============================================================================
