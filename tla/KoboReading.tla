----------------------------- MODULE KoboReading -----------------------------
(***************************************************************************)
(* The reading states of one member's books, as the devices of the member   *)
(* read and write them: a row of kobo_reading_states with a row each of      *)
(* kobo_bookmarks and kobo_statistics, found or inserted at the first        *)
(* contact.  No key says that a book has one state, so that first contacts   *)
(* which overlap insert several.                                            *)
(*                                                                         *)
(* A call is the list of the statements it has still to make.  A PUT takes   *)
(* its time before its first statement, an INSERT before it is sent, and D1  *)
(* commits them later.  Positions and minutes are left out: a row of a side   *)
(* carries the time of the PUT that wrote it.                               *)
(***************************************************************************)
EXTENDS Integers, Sequences, FiniteSets

CONSTANTS
  Books,        \* books that a device may name
  Known,        \* those of the library, all of them in the scope of every synchronisation
  Calls,        \* requests that can be under way at a time
  Devices,
  Second        \* ticks of a second, the unit of a token's times

ASSUME ReadingAssumption ==
  /\ Known \subseteq Books
  /\ Second \in Nat \ {0}

VARIABLES
  clock,
  begun,     \* requests begun so far, which numbers them
  state,     \* the kobo_reading_states rows of a book, oldest first
  call,      \* what each request has still to do
  issued     \* the latest time of a state shown to any device

readingVars == <<clock, begun, state, call, issued>>

-----------------------------------------------------------------------------
Sides    == {"bookmark", "statistics"}
Statuses == {"ReadyToRead", "Reading", "Finished"}

(* getStatusOrDefault: a PUT without a status asks for the first one. *)
NoStatus == "absent"
StatusOrDefault(s) == IF s \in Statuses THEN s ELSE "ReadyToRead"

(* Rows.  side is the time of the PUT that filled the side's row, 0 for an   *)
(* inserted one and -1 without one.  The last three fields are not columns:  *)
(* starts counts the changes to Reading, owner and since number the call     *)
(* that inserted the row and the latest call begun by then; late says that a *)
(* later state had been shown to a device when the row was written.         *)
NewState(at, n) ==
  [status |-> "ReadyToRead", times |-> 0, at |-> at,
   side |-> [s \in Sides |-> -1],
   starts |-> 0, owner |-> n, since |-> begun, late |-> at =< issued]

NoPut  == [readable |-> FALSE, status |-> NoStatus, sides |-> {}]

Idle == [phase |-> "idle", n |-> 0, route |-> "none", device |-> "none", auth |-> 0,
         books |-> <<>>, todo |-> <<>>, put |-> NoPut, at |-> 0, stamp |-> 0, row |-> 0,
         status |-> NoStatus, times |-> 0, shown |-> [b \in Books |-> 0],
         token |-> 0, raw |-> 0, source |-> "none"]

Serving(c) == call[c].phase = "local"
Due(c, statement) ==
  /\ Serving(c)
  /\ call[c].todo # <<>> /\ Head(call[c].todo) = statement
Rest(c) == Tail(call[c].todo)
Book(c) == Head(call[c].books)
Rows(c) == state[Book(c)]

(* What getOrCreateReadingStateByBookUuid does for one book. *)
Contact == <<"find", "seekBookmark", "seekStatistics", "read">>

(* The statements of a PUT, which looks the state up again before it answers. *)
Writes(put) ==
  <<"status">>
    \o (IF "bookmark" \in put.sides THEN <<"bookmark">> ELSE <<>>)
    \o (IF "statistics" \in put.sides THEN <<"statistics">> ELSE <<>>)

(* A body that does not parse is answered with success and changes nothing. *)
Update(put) == IF put.readable THEN Contact \o Writes(put) \o Contact ELSE <<>>

Follow(c, todo) == call' = [call EXCEPT ![c].todo = todo]
Refuse(c) == call' = [call EXCEPT ![c].phase = "refused", ![c].todo = <<>>]

-----------------------------------------------------------------------------
MutantAlwaysInserts(c) ==
  /\ Due(c, "find") /\ Book(c) \in Known
  /\ clock' = clock + 1
  /\ call' = [call EXCEPT ![c].stamp = clock', ![c].todo = <<"insert">> \o Rest(c)]
  /\ UNCHANGED <<begun, state, issued>>

(* SELECT the book, then the state, of which LIMIT 1 returns the oldest row.  *)
(* Without one an INSERT is prepared.                                       *)
Find(c) ==
  /\ Due(c, "find")
  /\ \/ Book(c) \notin Known /\ Refuse(c) /\ UNCHANGED clock
     \/ /\ Book(c) \in Known /\ Rows(c) # <<>>
        /\ call' = [call EXCEPT ![c].row = 1, ![c].todo = Rest(c)]
        /\ UNCHANGED clock
     \/ /\ Book(c) \in Known /\ Rows(c) = <<>>
        /\ clock' = clock + 1
        /\ call' = [call EXCEPT ![c].stamp = clock', ![c].todo = <<"insert">> \o Rest(c)]
  /\ UNCHANGED <<begun, state, issued>>

InsertState(c) ==
  /\ Due(c, "insert")
  /\ state' = [state EXCEPT ![Book(c)] = Append(@, NewState(call[c].stamp, call[c].n))]
  /\ call' = [call EXCEPT ![c].row = Len(Rows(c)) + 1, ![c].stamp = 0, ![c].todo = Rest(c)]
  /\ UNCHANGED <<clock, begun, issued>>

(* SELECT the row of a side; without one an INSERT follows, which fails when  *)
(* another call has inserted it since: the state's id is its primary key.     *)
Seek(c, side, seek, insert) ==
  /\ Due(c, seek)
  /\ Follow(c, IF Rows(c)[call[c].row].side[side] # -1 THEN Rest(c)
               ELSE <<insert>> \o Rest(c))
  /\ UNCHANGED <<clock, begun, state, issued>>

InsertSide(c, side, insert) ==
  /\ Due(c, insert)
  /\ \/ /\ Rows(c)[call[c].row].side[side] = -1
        /\ state' = [state EXCEPT ![Book(c)][call[c].row].side[side] = 0]
        /\ Follow(c, Rest(c))
     \/ /\ Rows(c)[call[c].row].side[side] # -1
        /\ Refuse(c) /\ UNCHANGED state
  /\ UNCHANGED <<clock, begun, issued>>

(* The SELECT that joins the three rows.  A GET goes on to its next book. *)
Read(c) ==
  LET row == Rows(c)[call[c].row]
      seen == [call[c] EXCEPT !.shown[Book(c)] = row.at] IN
  /\ Due(c, "read")
  /\ call' = [call EXCEPT ![c] =
       IF call[c].route = "GET state"
       THEN [seen EXCEPT !.books = Tail(call[c].books),
                         !.todo = IF Len(call[c].books) > 1 THEN Contact ELSE <<>>]
       ELSE [seen EXCEPT !.status = row.status, !.times = row.times, !.todo = Rest(c)]]
  /\ UNCHANGED <<clock, begun, state, issued>>

MutantCountsEveryPut(c) == StatusOrDefault(call[c].put.status) = "Reading"

(* A PUT counts a start when the state it read was not Reading. *)
Begins(c) == StatusOrDefault(call[c].put.status) = "Reading" /\ call[c].status # "Reading"

UpdateStatus(c) ==
  LET next == StatusOrDefault(call[c].put.status)
      row == Rows(c)[call[c].row] IN
  /\ Due(c, "status")
  /\ state' = [state EXCEPT ![Book(c)][call[c].row] =
       [row EXCEPT !.status = next, !.at = call[c].at,
                   !.times = call[c].times + (IF Begins(c) THEN 1 ELSE 0),
                   !.starts = row.starts + (IF next = "Reading" /\ row.status # "Reading"
                                            THEN 1 ELSE 0),
                   !.late = call[c].at =< issued]]
  /\ Follow(c, Rest(c))
  /\ UNCHANGED <<clock, begun, issued>>

UpdateSide(c, side) ==
  /\ Due(c, side)
  /\ state' = [state EXCEPT ![Book(c)][call[c].row].side[side] = call[c].at]
  /\ Follow(c, Rest(c))
  /\ UNCHANGED <<clock, begun, issued>>

-----------------------------------------------------------------------------
(* A synchronisation reads every state of the books in its scope in one        *)
(* statement, builds a map in which the last row of a book wins, shows those   *)
(* that changed after the token's time and moves the time on; the encoded      *)
(* token cuts it to whole seconds.                                          *)
Last(rows) == rows[Len(rows)]
Changed(b, after) == state[b] # <<>> /\ Last(state[b]).at > after
MutantRoundsUp(t) == t + (Second - (t % Second))
ToSecond(t) == t - (t % Second)

Latest(S, from) ==
  CHOOSE t \in S \cup {from} : \A u \in S \cup {from} : u =< t

SelectStates(c) ==
  LET changed == {b \in Known : Changed(b, call[c].token)}
      latest == Latest({Last(state[b]).at : b \in changed}, call[c].token) IN
  /\ Due(c, "states")
  /\ call' = [call EXCEPT
       ![c].shown = [b \in Books |-> IF b \in changed THEN Last(state[b]).at ELSE 0],
       ![c].token = ToSecond(latest),
       ![c].todo = Rest(c)]
  /\ issued' = IF latest > issued THEN latest ELSE issued
  /\ UNCHANGED <<clock, begun, state>>

Statement(c) ==
  \/ Find(c) \/ InsertState(c) \/ Read(c) \/ UpdateStatus(c) \/ SelectStates(c)
  \/ Seek(c, "bookmark", "seekBookmark", "insertBookmark")
  \/ Seek(c, "statistics", "seekStatistics", "insertStatistics")
  \/ InsertSide(c, "bookmark", "insertBookmark")
  \/ InsertSide(c, "statistics", "insertStatistics")
  \/ \E side \in Sides : UpdateSide(c, side)
=============================================================================
