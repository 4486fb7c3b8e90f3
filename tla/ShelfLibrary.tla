---------------------------- MODULE ShelfLibrary ----------------------------
(***************************************************************************)
(* What one member's Kobo synchronisation reads: books, shelves, the rows   *)
(* that put books on shelves and the rows that say a book is archived, and  *)
(* every request that writes them: the shelf pages of the web application,  *)
(* the tag endpoints of the device, its DELETE of a book, edits and uploads *)
(* of books.                                                                *)
(*                                                                         *)
(* A request is the list of the statements it has still to make, because D1 *)
(* commits each on its own; what it read before stands in its record.  It   *)
(* may die between two of them.  Names, ranks and rights are left out: the  *)
(* member owns every shelf.  Times are counted in ticks, Gap to a write, so *)
(* no two writes carry the same time.                                       *)
(* A definition named Mutant... is a plausible slip in the definition that  *)
(* follows it; no specification uses it.                                    *)
(***************************************************************************)
EXTENDS Integers, Sequences, FiniteSets

CONSTANTS
  Books, Shelves,
  Editors,      \* requests that can be under way at a time
  Ops,          \* kinds of requests that are made
  Gap,          \* ticks between two writes
  MaxEdits,     \* bound: requests in a behaviour
  MaxDeaths     \* bound: requests that die half-way

AllOps == {"add", "remove", "rename", "drop", "enable", "disable", "create",
           "tagAdd", "tagRemove", "tagRename", "tagDelete", "tagCreate",
           "discard", "edit", "upload"}

ASSUME LibraryAssumption ==
  /\ Ops \subseteq AllOps
  /\ Gap \in Nat \ {0}
  /\ MaxEdits \in Nat /\ MaxDeaths \in Nat

VARIABLES
  clock,
  book,      \* books.timestamp and last_modified; born is 0 before the upload
  shelf,     \* the shelves row and the member's shelf_members row
  listed,    \* shelf_books.added_at, 0 without a row
  archive,   \* the archived_books rows of a book, oldest first
  task,      \* what each request has still to do
  edits, deaths

rowVars     == <<book, shelf, listed, archive>>
libraryVars == <<clock, rowVars, task, edits, deaths>>

-----------------------------------------------------------------------------
Uploaded == {b \in Books : book[b].born # 0}
Exists(s)  == shelf[s].created # 0 /\ shelf[s].deleted = 0
Enabled(s) == Exists(s) /\ shelf[s].enabled
On(s)      == {b \in Books : listed[s][b] # 0}
Offered    == {b \in Books : \E s \in Shelves : Enabled(s) /\ b \in On(s)}

(* A reader that builds a map of the rows keeps the last one. *)
Latest(rows)   == rows[Len(rows)]
IsArchived(rows) == rows # <<>> /\ Latest(rows).is
ArchivedAt(rows) == IF rows = <<>> THEN 0 ELSE Latest(rows).at
Archived(b)    == IsArchived(archive[b])

Idle == [todo |-> <<>>, op |-> "none", shelf |-> {}, books |-> {}, fresh |-> {},
         was |-> FALSE, at |-> 0]
Busy(e) == task[e].todo # <<>>
Editing == \E e \in Editors : Busy(e)

(* Time passes with every write; a statement stamps its rows with Now. *)
Now == clock + Gap
Stamp == clock' = Now

LibraryInit ==
  /\ clock \in {2, 3}
  /\ \E B \in SUBSET Books, S \in SUBSET Shelves, on \in BOOLEAN : \E L \in SUBSET (S \X B) :
       /\ book = [b \in Books |-> LET at == IF b \in B THEN 2 ELSE 0 IN
                    [born |-> at, modified |-> at]]
       /\ shelf = [s \in Shelves |-> LET at == IF s \in S THEN 2 ELSE 0 IN
                     [created |-> at, updated |-> at, deleted |-> 0,
                      enabled |-> on /\ s \in S, disabled |-> 0]]
       /\ listed = [s \in Shelves |-> [b \in Books |-> IF <<s, b>> \in L THEN 2 ELSE 0]]
  /\ task = [e \in Editors |-> Idle]
  /\ edits = 0 /\ deaths = 0

-----------------------------------------------------------------------------
(* The first statement of every request reads the shelf, or the membership, *)
(* and refuses the rest when there is none.                                 *)
Start(e, op, todo, S, B, was) ==
  /\ op \in Ops /\ edits < MaxEdits /\ ~Busy(e)
  /\ task' = [task EXCEPT ![e] =
       [Idle EXCEPT !.todo = todo, !.op = op, !.shelf = S, !.books = B, !.was = was]]
  /\ edits' = edits + 1
  /\ UNCHANGED <<clock, rowVars, deaths>>

Selections == SUBSET Uploaded \ {{}}

(* The shelf pages *)
AddBooks(e, s, B) ==
  /\ Exists(s)
  /\ Start(e, "add", <<"links", "insert", "member", "archived", "unarchive", "touch">>,
           {s}, B, FALSE)

MutantNoTouch(e, s, b) ==
  Exists(s) /\ Start(e, "remove", <<"delete">>, {s}, {b}, FALSE)

RemoveBook(e, s, b) ==
  Exists(s) /\ Start(e, "remove", <<"delete", "touch">>, {s}, {b}, FALSE)

UpdateShelf(e, s) == Exists(s) /\ Start(e, "rename", <<"touch">>, {s}, {}, FALSE)
DeleteShelf(e, s) == Exists(s) /\ Start(e, "drop", <<"drop">>, {s}, {}, FALSE)

SetKoboSync(e, s, op) ==
  Exists(s) /\ Start(e, op, <<"toggle">>, {s}, {}, shelf[s].enabled)

CreateShelf(e, s) ==
  shelf[s].created = 0 /\ Start(e, "create", <<"row", "found">>, {s}, {}, FALSE)

(* The tag endpoints: each first sees to it that the shelf is synchronised. *)
Ensured(s, todo) == IF shelf[s].enabled THEN todo ELSE <<"enable">> \o todo

TagAdd(e, s, B) ==
  /\ Exists(s)
  /\ Start(e, "tagAdd",
           Ensured(s, <<"links", "insert", "touch", "archived", "unarchive">>), {s}, B, FALSE)

TagRemove(e, s, B) ==
  /\ Exists(s)
  /\ Start(e, "tagRemove", Ensured(s, <<"removable", "spare", "delete", "touch">>),
           {s}, B, FALSE)

TagRename(e, s) == Exists(s) /\ Start(e, "tagRename", Ensured(s, <<"touch">>), {s}, {}, FALSE)
TagDelete(e, s) == Exists(s) /\ Start(e, "tagDelete", Ensured(s, <<"drop">>), {s}, {}, FALSE)

TagCreate(e, s, B) ==
  \/ /\ Exists(s)
     /\ Start(e, "tagCreate", Ensured(s, <<"links", "insert", "touch">>), {s}, B, FALSE)
  \/ /\ shelf[s].created = 0
     /\ Start(e, "tagCreate", <<"row", "found", "links", "insert", "touch">>, {s}, B, TRUE)

(* The device's DELETE of a book looks for a row before it writes one. *)
Discard(e, b) ==
  b \in Uploaded /\ Start(e, "discard", <<"discard">>, {}, {b}, archive[b] # <<>>)

EditBook(e, b) == b \in Uploaded /\ Start(e, "edit", <<"modify">>, {}, {b}, FALSE)
Upload(e, b)   == b \notin Uploaded /\ Start(e, "upload", <<"upload">>, {}, {b}, FALSE)

-----------------------------------------------------------------------------
Due(e, statement) == Busy(e) /\ Head(task[e].todo) = statement
Here(e)  == CHOOSE s \in task[e].shelf : TRUE
Follow(e, todo) == task' = [task EXCEPT ![e] = IF todo = <<>> THEN Idle
                                               ELSE [@ EXCEPT !.todo = todo]]
Proceed(e) == Follow(e, Tail(task[e].todo))
Keep(e, field, B, todo) ==
  task' = [task EXCEPT ![e] = IF todo = <<>> THEN Idle
                              ELSE IF field = "fresh"
                                   THEN [@ EXCEPT !.fresh = B, !.todo = todo]
                                   ELSE [@ EXCEPT !.books = B, !.todo = todo]]

(* Which of the books have no row on the shelf yet.  The web request stops   *)
(* when there is none; a tag request goes on to what comes after the insert. *)
Links(e) ==
  LET fresh == task[e].books \ On(Here(e))
      rest  == Tail(task[e].todo) IN
  /\ Due(e, "links")
  /\ Keep(e, "fresh", fresh,
          IF fresh # {} THEN rest
          ELSE IF task[e].op = "tagAdd" THEN <<"archived", "unarchive">> ELSE <<>>)
  /\ UNCHANGED <<clock, rowVars, edits, deaths>>

(* The rows' key is (shelf, book): the statement fails, and the request with *)
(* it, when another request has inserted one of them since.                 *)
Insert(e) ==
  LET s == Here(e) IN
  /\ Due(e, "insert")
  /\ \/ /\ task[e].fresh \cap On(s) = {}
        /\ listed' = [listed EXCEPT ![s] =
             [b \in Books |-> IF b \in task[e].fresh THEN Now ELSE @[b]]]
        /\ Proceed(e) /\ Stamp
     \/ /\ task[e].fresh \cap On(s) # {}
        /\ Follow(e, <<>>)
        /\ UNCHANGED <<clock, listed>>
  /\ UNCHANGED <<book, shelf, archive, edits, deaths>>

(* The web request restores the books it put on a synchronised shelf. *)
Member(e) ==
  /\ Due(e, "member")
  /\ Follow(e, IF shelf[Here(e)].enabled THEN Tail(task[e].todo) ELSE <<"touch">>)
  /\ UNCHANGED <<clock, rowVars, edits, deaths>>

RowsArchived(b) == \E i \in DOMAIN archive[b] : archive[b][i].is

FindArchived(e) ==
  LET asked == IF task[e].op = "add" THEN task[e].fresh ELSE task[e].books
      found == {b \in asked : RowsArchived(b)}
      rest  == Tail(task[e].todo) IN
  /\ Due(e, "archived")
  /\ Keep(e, "books", found, IF found = {} THEN Tail(rest) ELSE rest)
  /\ UNCHANGED <<clock, rowVars, edits, deaths>>

MutantKeepsTime(e) ==
  /\ Due(e, "unarchive")
  /\ archive' = [b \in Books |->
       IF b \in task[e].books
       THEN [i \in DOMAIN archive[b] |-> [archive[b][i] EXCEPT !.is = FALSE]]
       ELSE archive[b]]
  /\ Proceed(e)
  /\ UNCHANGED <<clock, book, shelf, listed, edits, deaths>>

Unarchive(e) ==
  /\ Due(e, "unarchive")
  /\ archive' = [b \in Books |->
       IF b \in task[e].books
       THEN [i \in DOMAIN archive[b] |->
               IF archive[b][i].is THEN [is |-> FALSE, at |-> Now] ELSE archive[b][i]]
       ELSE archive[b]]
  /\ Proceed(e) /\ Stamp
  /\ UNCHANGED <<book, shelf, listed, edits, deaths>>

Touch(e) ==
  /\ Due(e, "touch")
  /\ shelf' = [shelf EXCEPT ![Here(e)].updated = Now]
  /\ Proceed(e) /\ Stamp
  /\ UNCHANGED <<book, listed, archive, edits, deaths>>

Delete(e) ==
  /\ Due(e, "delete")
  /\ listed' = [listed EXCEPT ![Here(e)] =
       [b \in Books |-> IF b \in task[e].books THEN 0 ELSE @[b]]]
  /\ Proceed(e)
  /\ UNCHANGED <<clock, book, shelf, archive, edits, deaths>>

(* A tag request removes no book that was restored after an archive.  With   *)
(* nothing to remove it does not touch the shelf either.                     *)
Removable(e) ==
  LET left == task[e].books \cap On(Here(e)) IN
  /\ Due(e, "removable")
  /\ Keep(e, "books", left, IF left = {} THEN <<>> ELSE Tail(task[e].todo))
  /\ UNCHANGED <<clock, rowVars, edits, deaths>>

Spare(e) ==
  LET left == {b \in task[e].books : archive[b] = <<>> \/ Archived(b)} IN
  /\ Due(e, "spare")
  /\ Keep(e, "books", left, IF left = {} THEN <<>> ELSE Tail(task[e].todo))
  /\ UNCHANGED <<clock, rowVars, edits, deaths>>

Enable(e) ==
  /\ Due(e, "enable")
  /\ shelf' = [shelf EXCEPT ![Here(e)].enabled = TRUE, ![Here(e)].disabled = 0]
  /\ Proceed(e)
  /\ UNCHANGED <<clock, book, listed, archive, edits, deaths>>

(* Disabling notes the time only when the membership read before was enabled. *)
Toggle(e) ==
  LET on == task[e].op = "enable"
      since == IF on THEN 0 ELSE IF task[e].was THEN Now ELSE shelf[Here(e)].disabled IN
  /\ Due(e, "toggle")
  /\ shelf' = [shelf EXCEPT ![Here(e)].enabled = on, ![Here(e)].disabled = since]
  /\ Proceed(e) /\ Stamp
  /\ UNCHANGED <<book, listed, archive, edits, deaths>>

(* updated_at follows every UPDATE of the row. *)
Drop(e) ==
  /\ Due(e, "drop")
  /\ shelf' = [shelf EXCEPT ![Here(e)].deleted = Now, ![Here(e)].updated = Now]
  /\ Proceed(e) /\ Stamp
  /\ UNCHANGED <<book, listed, archive, edits, deaths>>

(* A shelf without its member's row is seen by no query. *)
InsertShelf(e) ==
  /\ Due(e, "row")
  /\ task' = [task EXCEPT ![e].at = Now, ![e].todo = Tail(@)]
  /\ Stamp
  /\ UNCHANGED <<book, shelf, listed, archive, edits, deaths>>

InsertMember(e) ==
  /\ Due(e, "found")
  /\ shelf' = [shelf EXCEPT ![Here(e)] =
       [created |-> task[e].at, updated |-> task[e].at, deleted |-> 0,
        enabled |-> task[e].was, disabled |-> 0]]
  /\ Proceed(e)
  /\ UNCHANGED <<clock, book, listed, archive, edits, deaths>>

(* UPDATE the row that was found (the oldest), or INSERT one. *)
WriteDiscard(e) ==
  LET row == [is |-> TRUE, at |-> Now] IN
  /\ Due(e, "discard")
  /\ \E b \in task[e].books :
       archive' = [archive EXCEPT ![b] =
         IF task[e].was THEN [@ EXCEPT ![1] = row] ELSE Append(@, row)]
  /\ Proceed(e) /\ Stamp
  /\ UNCHANGED <<book, shelf, listed, edits, deaths>>

Modify(e) ==
  /\ Due(e, "modify")
  /\ book' = [b \in Books |-> IF b \in task[e].books THEN [book[b] EXCEPT !.modified = Now]
                              ELSE book[b]]
  /\ Proceed(e) /\ Stamp
  /\ UNCHANGED <<shelf, listed, archive, edits, deaths>>

InsertBook(e) ==
  /\ Due(e, "upload")
  /\ book' = [b \in Books |-> IF b \in task[e].books THEN [born |-> Now, modified |-> Now]
                              ELSE book[b]]
  /\ Proceed(e) /\ Stamp
  /\ UNCHANGED <<shelf, listed, archive, edits, deaths>>

(* A request dies, or a statement of it fails; what it wrote stays. *)
Abandon(e) ==
  /\ Busy(e) /\ deaths < MaxDeaths
  /\ Follow(e, <<>>)
  /\ deaths' = deaths + 1
  /\ UNCHANGED <<clock, rowVars, edits>>

Statement(e) ==
  \/ Links(e) \/ Insert(e) \/ Member(e) \/ FindArchived(e) \/ Unarchive(e) \/ Touch(e)
  \/ Delete(e) \/ Removable(e) \/ Spare(e) \/ Enable(e) \/ Toggle(e) \/ Drop(e)
  \/ InsertShelf(e) \/ InsertMember(e) \/ WriteDiscard(e) \/ Modify(e) \/ InsertBook(e)

Request(e) ==
  \/ \E s \in Shelves :
       \/ UpdateShelf(e, s) \/ DeleteShelf(e, s) \/ CreateShelf(e, s)
       \/ \E op \in {"enable", "disable"} : SetKoboSync(e, s, op)
       \/ TagRename(e, s) \/ TagDelete(e, s)
       \/ \E b \in Uploaded : RemoveBook(e, s, b)
       \/ \E B \in Selections : AddBooks(e, s, B) \/ TagAdd(e, s, B) \/ TagRemove(e, s, B)
       \/ \E B \in SUBSET Uploaded : TagCreate(e, s, B)
  \/ \E b \in Books : Discard(e, b) \/ EditBook(e, b) \/ Upload(e, b)

LibraryNext == \E e \in Editors : Request(e) \/ Statement(e) \/ Abandon(e)

=============================================================================
