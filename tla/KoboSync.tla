------------------------------ MODULE KoboSync ------------------------------
(***************************************************************************)
(* The library synchronisation of a Kobo device: what buildLocalLibrarySync *)
(* reads, the page of changes it answers with, the sync token that comes    *)
(* back in a header with its times cut to seconds, the two tables it writes *)
(* before the answer leaves, and the device that asks for pages until none  *)
(* is announced.  Every statement of a synchronisation is an action, so the *)
(* requests of ShelfLibrary and other synchronisations run in between.      *)
(*                                                                         *)
(* The reading states in the answer have a table and a token field of their *)
(* own and are left out, as are the conversions a synchronisation orders    *)
(* (see ConversionJobs) and the store the last page is completed from.      *)
(* A definition named Mutant... is a plausible slip in the definition that  *)
(* follows it; no specification uses it.                                    *)
(***************************************************************************)
EXTENDS ShelfLibrary, FiniteSetsExt

CONSTANTS
  Syncs,        \* synchronisations the server can be working on at a time
  Readable,     \* books with an epub or a kepub file
  Limit,        \* SYNC_ITEM_LIMIT
  Second,       \* ticks to a second
  MaxLosses     \* bound: answers lost, synchronisations that die or are given up

ASSUME SyncAssumption ==
  /\ Readable \subseteq Books
  /\ Editors \cap Syncs = {}
  /\ Limit \in Nat \ {0} /\ Second \in Nat \ {0} /\ MaxLosses \in Nat

VARIABLES
  synced,    \* books with a kobo_synced_books row
  token,     \* the times of the sync token the device holds
  has,       \* the device's view of each book
  tags,      \* its collections
  sync,      \* the synchronisations
  losses,
  quiet,     \* history: nothing was written since the last complete answer was begun
  passed,    \* history: archived or restored books that a page cut off before them has overtaken
  seen,      \* history: what held at some moment of each synchronisation
  raced      \* history: books that two writers were about to insert an archived_books row of

deviceVars  == <<token, has, tags, passed>>
historyVars == <<quiet, seen, raced>>
vars == <<libraryVars, synced, deviceVars, sync, losses, historyVars>>

-----------------------------------------------------------------------------
NoToken == [modified |-> 0, created |-> 0, archive |-> 0, tags |-> 0]
NoTag   == [on |-> FALSE, books |-> {}]
NoRead  == [shelf |-> <<>>, listed |-> <<>>, synced |-> {}, book |-> <<>>, archive |-> <<>>]
Unseen  == [enabled |-> {}, on |-> {}, free |-> {}]
NoSync  == [step |-> "idle", token |-> NoToken, read |-> NoRead, next |-> NoToken,
            live |-> {}, gone |-> {}, fresh |-> {}, tagged |-> <<>>, dropped |-> {},
            orphans |-> {}, rows |-> {}, now |-> 0, more |-> FALSE,
            wanted |-> FALSE, clean |-> FALSE]

Running(q) == sync[q].step # "idle"
Syncing == \E q \in Syncs : Running(q)

(* The header carries whole seconds. *)
Floor(t) == t - (t % Second)

(* The device is new, or has all of a library whose books it once deleted and *)
(* were restored for it.                                                     *)
NewDevice ==
  /\ archive = [b \in Books |-> <<>>]
  /\ synced = {}
  /\ token = NoToken
  /\ has = [b \in Books |-> "unknown"]
  /\ tags = [s \in Shelves |-> NoTag]

DeviceInUse ==
  LET given == Offered \cap Readable IN
  /\ given # {}
  /\ archive = [b \in Books |-> IF b \in given THEN <<[is |-> FALSE, at |-> 2]>> ELSE <<>>]
  /\ synced = given
  /\ token = [f \in DOMAIN NoToken |-> Floor(2)]
  /\ has = [b \in Books |-> IF b \in given THEN "live" ELSE "unknown"]
  /\ tags = [s \in Shelves |-> IF Enabled(s) THEN [on |-> TRUE, books |-> On(s)] ELSE NoTag]

Init ==
  /\ LibraryInit
  /\ NewDevice \/ DeviceInUse
  /\ sync = [q \in Syncs |-> NoSync]
  /\ losses = 0
  /\ quiet = FALSE
  /\ passed = {}
  /\ seen = [q \in Syncs |-> Unseen]
  /\ raced = {}

-----------------------------------------------------------------------------
(* What one synchronisation makes of what it has read *)

Header(next) == [f \in DOMAIN next |-> Floor(next[f])]

Latter(t, T) == Max({t} \cup T)

Active(r) == {b \in Books : \E s \in DOMAIN r.shelf : r.listed[s][b] # 0}
Orphaned(r) == r.synced \ Active(r)
Scope(r) == {b \in Active(r) \cup r.synced : r.book[b].born # 0}
IsNew(r, b) == b \notin r.synced
ShouldArchive(r, b) == b \in Orphaned(r) /\ ~IsArchived(r.archive[b])
Changed(r, t, b) ==
  \/ ShouldArchive(r, b)
  \/ r.book[b].modified > t.modified
  \/ r.book[b].born > t.created
  \/ ArchivedAt(r.archive[b]) > t.archive
MutantForgetsNew(r, t) == {b \in Scope(r) : Changed(r, t, b)}
Candidates(r, t) == {b \in Scope(r) : IsNew(r, b) \/ Changed(r, t, b)}

(* The first Limit of them in the order of last_modified, which may tie *)
Pages(r, t) ==
  LET C == Candidates(r, t)
      n == Min({Limit, Cardinality(C)}) IN
  {P \in kSubset(n, C) :
     \A b \in P, c \in C \ P : r.book[b].modified =< r.book[c].modified}

MutantKeepsOrphans(r, b) == IsArchived(r.archive[b])
SentArchived(r, b) == b \in Orphaned(r) \/ IsArchived(r.archive[b])

Activity(r, s) ==
  Latter(r.shelf[s].updated, {r.listed[s][b] : b \in {c \in Books : r.book[c].born # 0}})
NewsOfTag(r, t, s) == r.shelf[s].created > t.tags \/ Activity(r, s) > t.tags

(* What is sent of page P, at time now.  A book without a readable file is   *)
(* passed over: no token follows it and it is not marked as synchronised.   *)
MutantStands(r, t, P, now) ==
  [t EXCEPT !.created = Latter(t.created, {r.book[b].born : b \in P})]
Advance(r, t, P, now) ==
  [modified |-> Latter(t.modified, {r.book[b].modified : b \in P}),
   created  |-> Latter(t.created, {r.book[b].born : b \in P}),
   archive  |-> Latter(t.archive,
                       {IF ShouldArchive(r, b) THEN now ELSE ArchivedAt(r.archive[b]) : b \in P}),
   tags     |-> Latter(t.tags, {Activity(r, s) : s \in {u \in DOMAIN r.shelf : NewsOfTag(r, t, u)}})]

Answered(r, t, page, now) ==
  LET P == page \cap Readable IN
  [live    |-> {b \in P : ~SentArchived(r, b)},
   gone    |-> {b \in P : SentArchived(r, b)},
   fresh   |-> {b \in P : IsNew(r, b)},
   orphans |-> {b \in P : ShouldArchive(r, b)},
   tagged  |-> [s \in {u \in DOMAIN r.shelf : NewsOfTag(r, t, u)} |->
                  {b \in Books : r.listed[s][b] # 0 /\ r.book[b].born # 0}],
   next    |-> Advance(r, t, P, now)]

-----------------------------------------------------------------------------
At(q, step) == sync[q].step = step
Goto(q, step) == sync' = [sync EXCEPT ![q].step = step]
Reads == UNCHANGED <<libraryVars, synced, deviceVars, losses, quiet>>

(* The device asks for a page when no other request of its is outstanding. *)
Ask(q) ==
  /\ ~Running(q) /\ \A p \in Syncs : ~sync[p].wanted
  /\ sync' = [sync EXCEPT ![q] =
       [NoSync EXCEPT !.step = "shelves", !.token = token, !.wanted = TRUE,
                      !.clean = ~Editing /\ ~Syncing]]
  /\ Reads

MutantAllShelves(q) ==
  /\ At(q, "shelves")
  /\ sync' = [sync EXCEPT ![q].step = "listed",
       ![q].read.shelf = [s \in {u \in Shelves : Exists(u)} |-> shelf[s]]]
  /\ Reads

ReadShelves(q) ==
  /\ At(q, "shelves")
  /\ sync' = [sync EXCEPT ![q].step = "listed",
       ![q].read.shelf = [s \in {u \in Shelves : Enabled(u)} |-> shelf[s]]]
  /\ Reads

ReadListed(q) ==
  /\ At(q, "listed")
  /\ sync' = [sync EXCEPT ![q].step = "synced",
       ![q].read.listed = [s \in DOMAIN sync[q].read.shelf |-> listed[s]]]
  /\ Reads

ReadSynced(q) ==
  /\ At(q, "synced")
  /\ sync' = [sync EXCEPT ![q].step = "books", ![q].read.synced = synced]
  /\ Reads

ReadBooks(q) ==
  /\ At(q, "books")
  /\ sync' = [sync EXCEPT ![q].step = "archived", ![q].read.book = book]
  /\ Reads

ReadArchived(q) ==
  /\ At(q, "archived")
  /\ sync' = [sync EXCEPT ![q].step = "compute", ![q].read.archive = archive]
  /\ Reads

(* After the last of these reads the page is put together; the orphans on it *)
(* will be archived as of this moment.                                       *)
Compute(q) ==
  LET r == sync[q].read
      t == sync[q].token IN
  /\ At(q, "compute")
  /\ \E page \in Pages(r, t) :
       LET a == Answered(r, t, page, Now) IN
       /\ sync' = [sync EXCEPT ![q] = [@ EXCEPT
            !.step = "dropped", !.read = NoRead, !.live = a.live, !.gone = a.gone,
            !.fresh = a.fresh, !.orphans = a.orphans, !.tagged = a.tagged, !.next = a.next,
            !.now = IF a.orphans = {} THEN 0 ELSE Now,
            !.more = Candidates(r, t) # page]]
       /\ clock' = IF a.orphans = {} THEN clock ELSE Now
  /\ UNCHANGED <<book, shelf, listed, archive, task, edits, deaths, synced, deviceVars, losses, quiet>>

(* Deleted shelves, then shelves whose synchronisation was disabled *)
Drops(q, gone, at, step) ==
  LET news == {s \in gone : at[s] > sync[q].token.tags} IN
  sync' = [sync EXCEPT ![q].step = step, ![q].dropped = @ \cup news,
                       ![q].next.tags = Latter(@, {at[s] : s \in news})]

ReadDropped(q) ==
  /\ At(q, "dropped")
  /\ Drops(q, Shelves, [s \in Shelves |-> shelf[s].deleted], "disabled")
  /\ Reads

ReadDisabled(q) ==
  /\ At(q, "disabled")
  /\ Drops(q, {s \in Shelves : ~shelf[s].enabled}, [s \in Shelves |-> shelf[s].disabled],
           IF sync[q].orphans # {} THEN "orphans"
           ELSE IF sync[q].fresh # {} THEN "mark" ELSE "answer")
  /\ Reads

MutantFindsNone(q) ==
  /\ At(q, "orphans")
  /\ Goto(q, "insert")
  /\ Reads

FindOrphans(q) ==
  LET rows == {b \in sync[q].orphans : archive[b] # <<>>} IN
  /\ At(q, "orphans")
  /\ sync' = [sync EXCEPT ![q].rows = rows,
                          ![q].step = IF rows # {} THEN "update" ELSE "insert"]
  /\ Reads

(* What a synchronisation writes is news to every other one. *)
Disturb(q) == quiet' = FALSE
AfterWrite(q, step) ==
  sync' = [p \in Syncs |-> IF p = q THEN [sync[p] EXCEPT !.step = step]
                           ELSE [sync[p] EXCEPT !.clean = FALSE]]

UpdateOrphans(q) ==
  /\ At(q, "update")
  /\ archive' = [b \in Books |->
       IF b \in sync[q].rows
       THEN [i \in DOMAIN archive[b] |-> [is |-> TRUE, at |-> sync[q].now]]
       ELSE archive[b]]
  /\ AfterWrite(q, IF sync[q].orphans # sync[q].rows THEN "insert"
                   ELSE IF sync[q].fresh # {} THEN "mark" ELSE "answer")
  /\ Disturb(q)
  /\ UNCHANGED <<clock, book, shelf, listed, task, edits, deaths, synced, deviceVars, losses>>

InsertOrphans(q) ==
  /\ At(q, "insert")
  /\ archive' = [b \in Books |->
       IF b \in sync[q].orphans \ sync[q].rows
       THEN Append(archive[b], [is |-> TRUE, at |-> sync[q].now]) ELSE archive[b]]
  /\ AfterWrite(q, IF sync[q].fresh # {} THEN "mark" ELSE "answer")
  /\ Disturb(q)
  /\ UNCHANGED <<clock, book, shelf, listed, task, edits, deaths, synced, deviceVars, losses>>

MarkSynced(q) ==
  /\ At(q, "mark")
  /\ synced' = synced \cup sync[q].fresh
  /\ AfterWrite(q, "answer")
  /\ Disturb(q)
  /\ UNCHANGED <<libraryVars, deviceVars, losses>>

(* Books left for the next page whose archived_books row is newer than the    *)
(* device's token but not than the one it is now given.                       *)
Overtaken(a) ==
  {b \in Books \ (a.live \cup a.gone) :
     /\ a.more
     /\ ArchivedAt(archive[b]) > token.archive
     /\ ArchivedAt(archive[b]) =< Header(a.next).archive}

(* The device takes the answer over; nobody reads a late one. *)
Receive(q) ==
  LET a == sync[q] IN
  /\ At(q, "answer") /\ a.wanted
  /\ has' = [b \in Books |-> IF b \in a.live THEN "live"
                             ELSE IF b \in a.gone THEN "archived" ELSE has[b]]
  /\ tags' = [s \in Shelves |->
       IF s \in a.dropped THEN NoTag
       ELSE IF s \in DOMAIN a.tagged THEN [on |-> TRUE, books |-> a.tagged[s]] ELSE tags[s]]
  /\ token' = Header(a.next)
  /\ passed' = (passed \ (a.live \cup a.gone)) \cup Overtaken(a)
  /\ quiet' = (a.clean /\ ~a.more)
  /\ sync' = [sync EXCEPT ![q] = NoSync]
  /\ UNCHANGED <<libraryVars, synced, losses>>

Late(q) ==
  /\ At(q, "answer") /\ ~sync[q].wanted
  /\ sync' = [sync EXCEPT ![q] = NoSync]
  /\ Reads

(* A statement fails or the Worker dies, and what is written stays; the       *)
(* answer is lost; or the device stops waiting and the server goes on.       *)
Lose(q) ==
  /\ Running(q) /\ losses < MaxLosses
  /\ \E after \in {NoSync, [sync[q] EXCEPT !.wanted = FALSE]} :
       sync' = [sync EXCEPT ![q] = after]
  /\ losses' = losses + 1
  /\ UNCHANGED <<libraryVars, synced, deviceVars, quiet>>

Serve(q) ==
  \/ ReadShelves(q) \/ ReadListed(q) \/ ReadSynced(q) \/ ReadBooks(q) \/ ReadArchived(q)
  \/ Compute(q) \/ ReadDropped(q) \/ ReadDisabled(q)
  \/ FindOrphans(q) \/ UpdateOrphans(q) \/ InsertOrphans(q) \/ MarkSynced(q)
  \/ Receive(q) \/ Late(q)

Library ==
  /\ LibraryNext
  /\ quiet' = FALSE
  /\ sync' = [q \in Syncs |-> [sync[q] EXCEPT !.clean = FALSE]]
  /\ UNCHANGED <<synced, deviceVars, losses>>

(* Who has found no archived_books row of the book and will insert one *)
Inserters(b) ==
  {e \in Editors : Due(e, "discard") /\ ~task[e].was /\ b \in task[e].books} \cup
  {q \in Syncs : sync[q].step \in {"update", "insert"} /\ b \in sync[q].orphans \ sync[q].rows}

(* The shelves that were enabled, the places books had and the books that     *)
(* were not archived at some moment of a synchronisation                     *)
Remember ==
  /\ raced' = raced \cup {b \in Books : \E x, y \in Inserters(b)' : x # y}
  /\ seen' = [q \in Syncs |->
      IF sync'[q].step = "idle" THEN Unseen
      ELSE [enabled |-> seen[q].enabled \cup
              {s \in Shelves : shelf'[s].created # 0 /\ shelf'[s].deleted = 0 /\ shelf'[s].enabled},
            on |-> seen[q].on \cup {p \in Shelves \X Books : listed'[p[1]][p[2]] # 0},
            free |-> seen[q].free \cup {b \in Books : ~IsArchived(archive'[b])}]]

Next ==
  /\ Library \/ \E q \in Syncs : Ask(q) \/ Serve(q) \/ Lose(q)
  /\ Remember

Spec == Init /\ [][Next]_vars

-----------------------------------------------------------------------------
Times == [modified : Nat, created : Nat, archive : Nat, tags : Nat]
Steps == {"idle", "shelves", "listed", "synced", "books", "archived", "compute", "dropped",
          "disabled", "orphans", "update", "insert", "mark", "answer"}

(* Every row, token and answer has the shape the code gives it. *)
TypeOK ==
  /\ clock \in Nat /\ edits \in 0..MaxEdits /\ deaths \in 0..MaxDeaths /\ losses \in 0..MaxLosses
  /\ book \in [Books -> [born : Nat, modified : Nat]]
  /\ shelf \in [Shelves -> [created : Nat, updated : Nat, deleted : Nat,
                           enabled : BOOLEAN, disabled : Nat]]
  /\ listed \in [Shelves -> [Books -> Nat]]
  /\ \A b \in Books : archive[b] \in Seq([is : BOOLEAN, at : Nat])
  /\ synced \subseteq Books
  /\ token \in Times /\ \A f \in DOMAIN token : token[f] % Second = 0
  /\ has \in [Books -> {"unknown", "live", "archived"}]
  /\ tags \in [Shelves -> [on : BOOLEAN, books : SUBSET Books]]
  /\ passed \subseteq Books /\ raced \subseteq Books
  /\ \A q \in Syncs :
       /\ sync[q].step \in Steps
       /\ sync[q].token \in Times /\ sync[q].next \in Times
       /\ sync[q].live \cup sync[q].gone \cup sync[q].fresh \cup sync[q].orphans
            \subseteq Readable
       /\ sync[q].rows \subseteq sync[q].orphans

(* "Only shelves explicitly enabled by this member are included in Kobo      *)
(* sync", and a book the device deleted stays deleted until it is restored:  *)
(* whatever runs in between, an answer shows a book only if some shelf was   *)
(* enabled at one moment of the synchronisation and had the book at one, and *)
(* the book was not archived at one.                                         *)
ShowsOnlyOffered ==
  \A q \in Syncs : \A b \in sync[q].live :
    b \in seen[q].free /\ \E s \in seen[q].enabled : <<s, b>> \in seen[q].on

(* A library that nobody writes to while a device synchronises: requests and  *)
(* synchronisations take turns.                                             *)
TakingTurns ==
  /\ \A e \in Editors, q \in Syncs : ~(Busy(e) /\ Running(q))
  /\ \A e, f \in Editors : Busy(e) /\ Busy(f) => e = f
  /\ \A p, q \in Syncs : Running(p) /\ Running(q) => p = q

(* When the device has been given every page of a library nobody has        *)
(* written to since it asked for the last one:                              *)
(* - it has every book of its shelves that was never archived for it, if no  *)
(* answer was lost.                                                         *)
NewBooksArrive ==
  quiet /\ losses = 0 => \A b \in Offered \cap Readable \cap Uploaded :
    archive[b] = <<>> => has[b] = "live"

(* - it has every book that was archived and restored since: "Keep synced    *)
(* markers for archived books so a later restore is sent as                 *)
(* ChangedEntitlement".  A book it has never had may be missing if an answer *)
(* was lost; and a book may be missing that was overtaken: pages are cut in   *)
(* the order of last_modified, but the token moves to the latest archive      *)
(* time of a page, past that of books which wait for the next one.           *)
RestoresArrive ==
  quiet => \A b \in (Offered \cap Readable \cap Uploaded) \ passed :
    archive[b] # <<>> /\ ~Archived(b) =>
      has[b] = "live" \/ (has[b] = "unknown" /\ losses > 0)

(* - it keeps no book that has left its shelves or was archived, unless that  *)
(* book was overtaken on its way.                                           *)
RemovedBooksGo ==
  quiet => \A b \in Books \ passed : has[b] = "live" => b \in Offered /\ ~Archived(b)

(* - each collection it has is an enabled shelf, with the books now on it, if  *)
(* no request died half-way.                                                *)
TagsAreCurrent ==
  quiet /\ deaths = 0 => \A s \in Shelves :
    tags[s].on => Enabled(s) /\ tags[s].books = On(s) \cap Uploaded

(* The device's DELETE of a book and the archiving of orphans look for a row  *)
(* of archived_books before they insert one, and there is no unique index: a  *)
(* book gets a second row only when two of them had looked before either       *)
(* inserted, whatever else runs in between.                                  *)
SecondRowNeedsRace == \A b \in Books : Len(archive[b]) > 1 => b \in raced

(* A device that follows "x-kobo-sync: continue" does not ask for the same page    *)
(* again: a page that is not the last, and that nobody wrote beside, moves the    *)
(* token, marks a book or archives one, and none of these is ever undone by       *)
(* synchronising.  It holds for readable books written to a second apart.         *)
PagesAdvance ==
  [][\A q \in Syncs :
       LET a == sync[q] IN
       (a.step = "answer" /\ a.wanted /\ a.clean /\ a.more /\ sync'[q].step = "idle")
         => token' # token \/ a.fresh # {} \/ a.orphans # {}]_vars
=============================================================================
