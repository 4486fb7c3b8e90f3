-------------------------- MODULE KoboGatewayProofs --------------------------
(***************************************************************************)
(* Proofs about KoboGateway, for any number of books, devices and requests:  *)
(* first the types, what a call has still to do, the times and the access    *)
(* tokens; then what the endpoints keep for a device, the store's token it   *)
(* carries and the reading states of its books; last that reading progress    *)
(* arrives, so that a state a device's token covers is one the device has,   *)
(* or older than one it has.                                                *)
(***************************************************************************)
EXTENDS KoboGateway, TLAPS, SequenceTheorems, WellFoundedInduction

TokenRoutes == {"create token", "revoke token"}
StateRoutes == {"GET state", "PUT state"}
BookRoutes  == {"GET state", "PUT state", "GET metadata", "local"}

(* Statements about the state row that was found, and all those of GET and PUT. *)
RowSteps == {"seekBookmark", "insertBookmark", "seekStatistics", "insertStatistics", "read",
             "status", "bookmark", "statistics"}
StateSteps == {"find", "insert"} \cup RowSteps

TodoOK(r, s) ==
  /\ r = "create token" => s \in {<<"revokeAll", "insertToken">>, <<"insertToken">>}
  /\ r = "revoke token" => s \in {<<"revokeAll">>, <<"revokeOne">>}
  /\ r = "sync" => s \in {<<"states">>, <<>>}
  /\ r = "GET metadata" => s \in {<<"files">>, <<>>}
  /\ r = "local" => s \in {<<"file">>, <<"cover">>, <<>>}
  /\ r \in {"none", "store first"} => s = <<>>
  /\ r \in StateRoutes => s \in Seq(StateSteps)

(* What is true of a call, of the states of the books and the requests begun. *)
CallOK(k, rows, n) ==
  /\ TodoOK(k.route, k.todo)
  /\ k.phase # "idle" => (k.device = "none" <=> k.route \in TokenRoutes)
  /\ k.phase = "idle" => k = Idle
  /\ k.route \in TokenRoutes => k.phase = "local"
  /\ k.n =< n
  /\ k.todo # <<>> /\ k.route \in BookRoutes => k.books # <<>>
  /\ k.todo # <<>> /\ Head(k.todo) \in RowSteps => k.row \in 1..Len(rows[Head(k.books)])

StepsOK == \A c \in Calls : CallOK(call[c], state, begun)

-----------------------------------------------------------------------------
LEMMA Bounds == MaxCalls \in Nat /\ MaxFaults \in Nat /\ "none" \notin Devices
  BY Zenon, GatewayAssumption

(* A bounded set of numbers that is not empty has a greatest one. *)
LEMMA Greatest ==
  ASSUME NEW S, NEW N \in Nat, S \subseteq 0..N, S # {}
  PROVE  \E t \in S : \A u \in S : u =< t
  <1> DEFINE T == {N - x : x \in S}
  <1>1. \A x \in S : x \in Nat /\ x =< N /\ N - x \in Nat /\ N - x \in T
    OBVIOUS
  <1>2. T \subseteq Nat /\ T # {}
    BY <1>1
  <1>3. PICK m \in T : \A y \in T : ~(<<y, m>> \in OpToRel(<, Nat))
    <2> HIDE DEF T
    <2> QED
      BY <1>2, NatLessThanWellFounded, WFMin
  <1>4. \A y \in T : ~(y < m)
    BY <1>2, <1>3 DEF OpToRel
  <1>5. PICK t \in S : m = N - t
    OBVIOUS
  <1>6. ASSUME NEW u \in S PROVE u =< t
    <2>1. ~(N - u < N - t)
      BY <1>1, <1>4, <1>5
    <2> QED
      BY <1>1, <2>1
  <1> QED
    BY <1>6

(* Latest is the greatest of the times, ToSecond cuts off less than a second. *)
LEMMA LatestIs ==
  ASSUME NEW S, NEW N \in Nat, S \subseteq 0..N, NEW from \in 0..N
  PROVE  /\ Latest(S, from) \in S \cup {from}
         /\ \A u \in S \cup {from} : u =< Latest(S, from)
  <1>1. \E t \in S \cup {from} : \A u \in S \cup {from} : u =< t
    BY Greatest
  <1>2. QED
    BY <1>1 DEF Latest

LEMMA SecondIs ==
  ASSUME NEW t \in Nat
  PROVE  ToSecond(t) \in Nat /\ ToSecond(t) =< t
  BY ReadingAssumption DEF ToSecond

LEMMA InsertTodo ==
  ASSUME NEW S, NEW s \in Seq(S), s # <<>>, NEW x \in S
  PROVE  /\ Tail(s) \in Seq(S)
         /\ <<x>> \o Tail(s) \in Seq(S)
         /\ Head(<<x>> \o Tail(s)) = x
         /\ <<x>> \o Tail(s) # <<>>
         /\ Tail(<<x>> \o Tail(s)) = Tail(s)
  OBVIOUS

LEMMA IdleCall == Idle \in Call /\ \A n \in Nat : \A rows : CallOK(Idle, rows, n)
  BY DEF Idle, Call, Routes, Put, Sources, CallOK, TodoOK, NoPut, NoStatus, TokenRoutes, StateRoutes, BookRoutes

LEMMA HeadOf ==
  ASSUME NEW x, NEW y
  PROVE  Head(<<x>>) = x /\ Head(<<x, y>>) = x /\ Tail(<<x>>) = <<>> /\ Tail(<<x, y>>) = <<y>>
  OBVIOUS

LEMMA ShortSeq ==
  ASSUME NEW S
  PROVE  <<>> \in Seq(S) /\ \A x \in S : <<x>> \in Seq(S)
  OBVIOUS

LEMMA TailSome ==
  ASSUME NEW S, NEW s \in Seq(S), Len(s) > 1
  PROVE  Tail(s) # <<>> /\ Tail(s) \in Seq(S)
  <1>1. s # <<>> /\ Len(s) \in Nat
    OBVIOUS
  <1>2. Tail(s) \in Seq(S) /\ Len(Tail(s)) = Len(s) - 1
    BY <1>1, HeadTailProperties
  <1>3. Len(Tail(s)) # 0
    BY <1>1, <1>2
  <1>4. Len(<<>>) = 0
    OBVIOUS
  <1> QED
    BY <1>2, <1>3, <1>4, Zenon

(* Which route a statement belongs to. *)
LEMMA RouteOf ==
  ASSUME NEW r \in Routes,
         NEW s \in Seq(Statements), TodoOK(r, s), s # <<>>
  PROVE  /\ Head(s) \in StateSteps <=> r \in StateRoutes
         /\ Head(s) \in {"revokeAll", "revokeOne", "insertToken"} <=> r \in TokenRoutes
         /\ Head(s) = "states" <=> r = "sync"
         /\ Head(s) = "files" <=> r = "GET metadata"
         /\ Head(s) \in {"file", "cover"} <=> r = "local"
  <1>1. CASE r \in StateRoutes
    <2>0. s \in Seq(StateSteps)
      BY <1>1 DEF TodoOK
    <2>1. Head(s) \in StateSteps
      BY <2>0, HeadTailProperties
    <2> QED
      BY <1>1, <2>1 DEF StateRoutes, StateSteps, RowSteps, TokenRoutes
  <1>2. CASE r \notin StateRoutes
    <2>1. CASE r = "create token"
      <3>0. s = <<"revokeAll", "insertToken">> \/ s = <<"insertToken">>
        BY <2>1 DEF TodoOK
      <3>1. Head(s) \in {"revokeAll", "insertToken"}
        BY <3>0, HeadOf
      <3> QED
        BY <2>1, <3>1 DEF StateSteps, RowSteps, TokenRoutes, StateRoutes
    <2>2. CASE r = "revoke token"
      <3>0. s = <<"revokeAll">> \/ s = <<"revokeOne">>
        BY <2>2 DEF TodoOK
      <3>1. Head(s) \in {"revokeAll", "revokeOne"}
        BY <3>0, HeadOf
      <3> QED
        BY <2>2, <3>1 DEF StateSteps, RowSteps, TokenRoutes, StateRoutes
    <2>3. CASE r = "sync"
      <3>0. s = <<"states">>
        BY <2>3 DEF TodoOK
      <3>1. Head(s) = "states"
        BY <3>0, HeadOf
      <3> QED
        BY <2>3, <3>1 DEF StateSteps, RowSteps, TokenRoutes, StateRoutes
    <2>4. CASE r = "GET metadata"
      <3>0. s = <<"files">>
        BY <2>4 DEF TodoOK
      <3>1. Head(s) = "files"
        BY <3>0, HeadOf
      <3> QED
        BY <2>4, <3>1 DEF StateSteps, RowSteps, TokenRoutes, StateRoutes
    <2>5. CASE r = "local"
      <3>0. s = <<"file">> \/ s = <<"cover">>
        BY <2>5 DEF TodoOK
      <3>1. Head(s) \in {"file", "cover"}
        BY <3>0, HeadOf
      <3> QED
        BY <2>5, <3>1 DEF StateSteps, RowSteps, TokenRoutes, StateRoutes
    <2> QED
      BY <1>2, <2>1, <2>2, <2>3, <2>4, <2>5 DEF Routes, LocalOrStore, StoreFirst, StateRoutes, TodoOK
  <1> QED
    BY <1>1, <1>2

LEMMA OneCall ==
  ASSUME NEW c \in Calls, call \in [Calls -> Call], StepsOK,
         NEW v \in Call, call' = [call EXCEPT ![c] = v], 
         state \in [Books -> Seq(Row)], state' \in [Books -> Seq(Row)],
         \A b \in Books : Len(state'[b]) >= Len(state[b]),
         begun \in Nat, begun' \in Nat, begun' >= begun,
         CallOK(v, state', begun')
  PROVE  call' \in [Calls -> Call] /\ StepsOK'
  <1>1. \A x \in Calls : x # c => call'[x] = call[x]
    OBVIOUS
  <1>2. ASSUME NEW x \in Calls, x # c PROVE CallOK(call[x], state', begun')
    <2>1. call[x] \in Call /\ CallOK(call[x], state, begun)
      BY DEF StepsOK
    <2>2. call[x].n =< begun'
      <3>1. call[x].n \in Nat
        BY <2>1 DEF Call
      <3>2. call[x].n =< begun
        BY <2>1 DEF CallOK
      <3> QED
        BY <3>1, <3>2
    <2>3. CASE call[x].todo # <<>> /\ Head(call[x].todo) \in RowSteps
      <3> DEFINE b == Head(call[x].books)
      <3>1. call[x].books \in Seq(Books) /\ call[x].route \in StateRoutes
            /\ call[x].row \in Nat /\ call[x].todo # <<>>
        BY <2>1, <2>3, RouteOf DEF Call, CallOK, StateSteps
      <3>2. call[x].books # <<>>
        BY <2>1, <3>1 DEF CallOK, StateRoutes, BookRoutes
      <3>3. b \in Books
        BY <3>1, <3>2
      <3>4. call[x].row \in 1..Len(state[b])
        BY <2>1, <2>3 DEF CallOK
      <3>5. call[x].row \in 1..Len(state'[b])
        BY <3>1, <3>3, <3>4
      <3> QED
        BY <2>1, <2>2, <3>5 DEF CallOK
    <2>4. CASE ~(call[x].todo # <<>> /\ Head(call[x].todo) \in RowSteps)
      BY <2>1, <2>2, <2>4 DEF CallOK
    <2> QED
      BY <2>3, <2>4
  <1> QED
    BY <1>1, <1>2 DEF StepsOK

-----------------------------------------------------------------------------
LEMMA ContactTodo ==
  /\ Contact \in Seq(StateSteps) /\ Contact # <<>> /\ Head(Contact) = "find"
  /\ Contact \in Seq(Statements)
  BY DEF Contact, StateSteps, RowSteps, Statements

LEMMA UpdateTodo ==
  ASSUME NEW put
  PROVE  /\ Update(put) \in Seq(StateSteps) /\ Update(put) \in Seq(Statements)
         /\ Update(put) # <<>> => Head(Update(put)) = "find"
  <1> DEFINE B == IF "bookmark" \in put.sides THEN <<"bookmark">> ELSE <<>>
             W == IF "statistics" \in put.sides THEN <<"statistics">> ELSE <<>>
  <1>1. /\ B \in Seq(StateSteps) /\ W \in Seq(StateSteps) /\ <<"status">> \in Seq(StateSteps)
        /\ B \in Seq(Statements) /\ W \in Seq(Statements) /\ <<"status">> \in Seq(Statements)
    <2>1. {"status", "bookmark", "statistics"} \subseteq StateSteps \cap Statements
      BY DEF StateSteps, RowSteps, Statements
    <2> QED
      BY <2>1
  <1>2. Writes(put) = <<"status">> \o B \o W
    BY DEF Writes
  <1>3. Writes(put) \in Seq(StateSteps) /\ Writes(put) \in Seq(Statements)
    <2> HIDE DEF B, W
    <2> QED
      BY <1>1, <1>2
  <1>4. CASE put.readable
    <2>1. Update(put) = Contact \o Writes(put) \o Contact
      BY <1>4 DEF Update
    <2>2. Len(Contact) = 4 /\ Contact[1] = "find"
      BY DEF Contact
    <2>3. Head(Contact \o Writes(put) \o Contact) = "find"
      BY <2>2, <1>3, ContactTodo
    <2> QED
      BY <2>1, <2>3, <1>3, ContactTodo
  <1>5. CASE ~put.readable
    BY <1>5 DEF Update
  <1> QED
    BY <1>4, <1>5

LEMMA BeginStep ==
  ASSUME TypeOK, StepsOK, NEW c \in Calls, NEW r \in Call, Begin(c, r),
         TodoOK(r.route, r.todo), r.phase # "idle",
         r.device = "none" <=> r.route \in TokenRoutes,
         r.route \in TokenRoutes => r.phase = "local",
         r.todo # <<>> /\ r.route \in BookRoutes => r.books # <<>>,
         r.todo # <<>> => Head(r.todo) \notin RowSteps,
         device' \in [Devices -> Device]
  PROVE  TypeOK' /\ StepsOK'
  <1> DEFINE v == [r EXCEPT !.n = begun + 1]
  <1>1. /\ begun \in 0..MaxCalls /\ begun + 1 \in 0..MaxCalls /\ begun' = begun + 1
        /\ begun \in Nat /\ begun + 1 \in Nat
    <2>1. begun \in 0..MaxCalls
      BY DEF TypeOK
    <2>2. begun < MaxCalls /\ begun' = begun + 1
      BY DEF Begin
    <2> QED
      BY <2>1, <2>2, Bounds
  <1>2. v \in Call
    <2>1. begun + 1 \in Nat
      BY <1>1
    <2> QED
      BY <2>1, Zenon DEF Call
  <1>3. /\ v.route = r.route /\ v.todo = r.todo /\ v.phase = r.phase /\ v.device = r.device
        /\ v.books = r.books /\ v.n = begun + 1
    BY DEF Call
  <1>4. CallOK(v, state', begun')
    <2>1. v.n =< begun'
      BY <1>1, <1>3
    <2> HIDE DEF v
    <2> QED
      BY <2>1, <1>3, Zenon DEF CallOK
  <1>5. call' = [call EXCEPT ![c] = v] /\ state' = state
    BY DEF Begin
  <1>6. call' \in [Calls -> Call] /\ StepsOK'
    <2>1. /\ call \in [Calls -> Call] /\ state \in [Books -> Seq(Row)] /\ begun' >= begun
          /\ begun' \in Nat
      BY <1>1 DEF TypeOK
    <2>2. \A b \in Books : Len(state'[b]) >= Len(state[b])
      BY <2>1, <1>5
    <2> HIDE DEF v
    <2> QED
      BY <1>1, <1>2, <1>4, <1>5, <2>1, <2>2, OneCall
  <1> QED
    BY <1>1, <1>6 DEF TypeOK, Begin

LEMMA AskStep ==
  ASSUME TypeOK, StepsOK, NEW c \in Calls, NEW d \in Devices, NEW route \in Routes,
         NEW books \in Seq(Books), NEW todo \in Seq(Statements), NEW put \in Put,
         Ask(c, d, route, books, todo, put),
         TodoOK(route, todo), route \notin TokenRoutes,
         todo # <<>> /\ route \in BookRoutes => books # <<>>,
         todo # <<>> => Head(todo) \notin RowSteps
  PROVE  TypeOK' /\ StepsOK'
  <1>1. PICK t \in DOMAIN token :
          Begin(c, [Idle EXCEPT !.phase = "auth", !.route = route, !.device = d, !.auth = t,
                                !.books = books, !.todo = todo, !.put = put,
                                !.token = device[d].token, !.raw = device[d].raw])
    BY DEF Ask
  <1> DEFINE r == [Idle EXCEPT !.phase = "auth", !.route = route, !.device = d, !.auth = t,
                               !.books = books, !.todo = todo, !.put = put,
                               !.token = device[d].token, !.raw = device[d].raw]
  <1>2. t \in Nat /\ device[d] \in Device /\ device \in [Devices -> Device] /\ token \in Seq(Token)
    BY DEF TypeOK
  <1>3. device[d].token \in Nat /\ device[d].raw \in Nat
    BY <1>2 DEF Device
  <1>4. r \in Call
    BY <1>2, <1>3, IdleCall, Zenon DEF Call
  <1>5. /\ r.phase = "auth" /\ r.route = route /\ r.device = d /\ r.books = books /\ r.todo = todo
    BY Zenon DEF Idle
  <1>6. device' \in [Devices -> Device]
    <2>1. begun' \in Nat
      BY DEF Begin, Ask, TypeOK
    <2>2. device' = [device EXCEPT ![d].waits = begun']
      BY DEF Ask
    <2>3. [device[d] EXCEPT !.waits = begun'] \in Device
      BY <1>2, <2>1, Zenon DEF Device
    <2> QED
      BY <1>2, <2>2, <2>3
  <1>7. r.device # "none"
    BY <1>5, Bounds
  <1> QED
    <2> HIDE DEF r
    <2> QED
      BY <1>1, <1>4, <1>5, <1>6, <1>7, BeginStep DEF r

LEMMA RequestStep ==
  ASSUME TypeOK, StepsOK, NEW c \in Calls, Request(c)
  PROVE  TypeOK' /\ StepsOK'
  <1>0. /\ IdLists \subseteq Seq(Books) \ {<<>>}
        /\ Puts \subseteq Put
        /\ NoPut \in Put
    <2>1. NoPut \in Put
      BY DEF NoPut, Put
    <2> QED
      BY <2>1, GatewayAssumption, Zenon DEF Put
  <1>1. CASE CreateToken(c)
    <2> DEFINE r == [Idle EXCEPT !.phase = "local", !.route = "create token",
                                 !.todo = <<"revokeAll", "insertToken">>]
    <2>1. <<"revokeAll", "insertToken">> \in Seq(Statements)
      BY DEF Statements
    <2>2. r \in Call
      BY <2>1, IdleCall, Zenon DEF Call, Routes
    <2>3. /\ r.phase = "local" /\ r.route = "create token" /\ r.device = "none"
          /\ r.todo = <<"revokeAll", "insertToken">>
      BY Zenon DEF Idle
    <2>4. Begin(c, r) /\ device' = device
      BY <1>1 DEF CreateToken
    <2>5. TodoOK(r.route, r.todo) /\ r.route \in TokenRoutes /\ r.route \notin BookRoutes
      <3> HIDE DEF r
      <3> QED
        BY <2>3 DEF TodoOK, TokenRoutes, BookRoutes, StateRoutes
    <2>6. Head(r.todo) \notin RowSteps
      <3>1. Head(r.todo) = "revokeAll"
        BY <2>3, HeadOf, Zenon
      <3> QED
        BY <3>1 DEF RowSteps
    <2> QED
      <3> HIDE DEF r
      <3> QED
        BY <2>2, <2>3, <2>4, <2>5, <2>6, BeginStep DEF TypeOK
  <1>2. CASE RevokeToken(c)
    <2>1. PICK r \in Call, s \in {"revokeAll", "revokeOne"} :
             /\ Begin(c, r) /\ r.phase = "local" /\ r.route = "revoke token"
             /\ r.device = "none" /\ r.todo = <<s>>
      <3>1. <<"revokeAll">> \in Seq(Statements) /\ <<"revokeOne">> \in Seq(Statements)
        BY DEF Statements
      <3>2. CASE Begin(c, [Idle EXCEPT !.phase = "local", !.route = "revoke token",
                                       !.todo = <<"revokeAll">>])
        <4> DEFINE q == [Idle EXCEPT !.phase = "local", !.route = "revoke token",
                                     !.todo = <<"revokeAll">>]
        <4>1. q \in Call
          BY <3>1, IdleCall, Zenon DEF Call, Routes
        <4>2. q.phase = "local" /\ q.route = "revoke token" /\ q.device = "none" /\ q.todo = <<"revokeAll">>
          BY Zenon DEF Idle
        <4> HIDE DEF q
        <4> QED
          BY <3>2, <4>1, <4>2, Zenon DEF q
      <3>3. CASE \E t \in DOMAIN token :
                   Begin(c, [Idle EXCEPT !.phase = "local", !.route = "revoke token",
                                         !.todo = <<"revokeOne">>, !.auth = t])
        <4>1. PICK t \in Nat :
                   Begin(c, [Idle EXCEPT !.phase = "local", !.route = "revoke token",
                                         !.todo = <<"revokeOne">>, !.auth = t])
          <5>1. DOMAIN token \subseteq Nat
            BY DEF TypeOK
          <5> QED
            BY <3>3, <5>1, Zenon
        <4> DEFINE q == [Idle EXCEPT !.phase = "local", !.route = "revoke token",
                                     !.todo = <<"revokeOne">>, !.auth = t]
        <4>2. q \in Call
          BY <3>1, IdleCall, Zenon DEF Call, Routes
        <4>3. q.phase = "local" /\ q.route = "revoke token" /\ q.device = "none" /\ q.todo = <<"revokeOne">>
          BY Zenon DEF Idle
        <4> HIDE DEF q
        <4> QED
          BY <4>1, <4>2, <4>3, Zenon DEF q
      <3> QED
        BY <1>2, <3>2, <3>3 DEF RevokeToken
    <2>2. TodoOK(r.route, r.todo) /\ r.route \in TokenRoutes /\ r.route \notin BookRoutes
      BY <2>1 DEF TodoOK, TokenRoutes, BookRoutes, StateRoutes
    <2>3. Head(r.todo) \notin RowSteps
      BY <2>1, HeadOf DEF RowSteps
    <2>4. device' = device
      BY <1>2 DEF RevokeToken
    <2> QED
      BY <2>1, <2>2, <2>3, <2>4, BeginStep DEF TypeOK
  <1>3. ASSUME NEW d \in Devices,
               \/ GetStates(c, d) \/ PutState(c, d) \/ Synchronise(c, d) \/ GetMetadata(c, d)
               \/ GetDownload(c, d) \/ GetCover(c, d) \/ Initialise(c, d)
               \/ DeviceAuth(c, d) \/ RefreshAuth(c, d) \/ AnyOther(c, d)
        PROVE  TypeOK' /\ StepsOK'
    <2>0. /\ {"GET state", "PUT state", "sync", "GET metadata", "local", "store first"}
               \subseteq Routes \ TokenRoutes
          /\ {"find", "states", "files", "file", "cover"} \cap RowSteps = {}
          /\ {"states", "files", "file", "cover"} \subseteq Statements
          /\ "sync" \notin BookRoutes /\ "store first" \notin BookRoutes
      BY DEF TokenRoutes, BookRoutes, Routes, LocalOrStore, StoreFirst, RowSteps, Statements
    <2>1. CASE GetStates(c, d)
      <3>1. PICK ids \in IdLists : Ask(c, d, "GET state", ids, Contact, NoPut)
        BY <2>1 DEF GetStates
      <3>2. TodoOK("GET state", Contact)
        BY ContactTodo DEF TodoOK
      <3>3. ids \in Seq(Books) /\ ids # <<>>
        BY <1>0
      <3> QED
        BY <1>0, <2>0, <3>1, <3>2, <3>3, AskStep, ContactTodo
    <2>2. CASE PutState(c, d)
      <3>1. PICK ids \in IdLists, put \in Puts : Ask(c, d, "PUT state", <<Head(ids)>>, Update(put), put)
        BY <2>2 DEF PutState
      <3>2. <<Head(ids)>> \in Seq(Books) /\ <<Head(ids)>> # <<>> /\ put \in Put
        BY <1>0
      <3>3. TodoOK("PUT state", Update(put))
        BY UpdateTodo DEF TodoOK
      <3> QED
        BY <2>0, <3>1, <3>2, <3>3, AskStep, UpdateTodo
    <2>3. CASE Synchronise(c, d)
      <3>1. <<"states">> \in Seq(Statements) /\ Head(<<"states">>) = "states"
        BY <2>0, ShortSeq, HeadOf, Zenon
      <3>2. <<>> \in Seq(Books)
        BY ShortSeq, Zenon
      <3>3. TodoOK("sync", <<"states">>)
        BY DEF TodoOK, StateRoutes
      <3> QED
        BY <1>0, <2>0, <2>3, <3>1, <3>2, <3>3, AskStep DEF Synchronise
    <2>4. CASE GetMetadata(c, d)
      <3>1. <<"files">> \in Seq(Statements) /\ Head(<<"files">>) = "files"
        BY <2>0, ShortSeq, HeadOf, Zenon
      <3>2. PICK ids \in IdLists : Ask(c, d, "GET metadata", ids, <<"files">>, NoPut)
        BY <2>4 DEF GetMetadata
      <3>3. TodoOK("GET metadata", <<"files">>)
        BY DEF TodoOK, StateRoutes
      <3>4. ids \in Seq(Books) /\ ids # <<>>
        BY <1>0
      <3> QED
        BY <1>0, <2>0, <3>1, <3>2, <3>3, <3>4, AskStep
    <2>5. CASE GetDownload(c, d) \/ GetCover(c, d)
      <3>1. PICK ids \in IdLists, s \in {"file", "cover"} :
               Ask(c, d, "local", <<Head(ids)>>, <<s>>, NoPut)
        BY <2>5 DEF GetDownload, GetCover
      <3>2. <<s>> \in Seq(Statements) /\ Head(<<s>>) = s
        BY <2>0, ShortSeq, HeadOf, Zenon
      <3>3. <<Head(ids)>> \in Seq(Books) /\ <<Head(ids)>> # <<>>
        BY <1>0
      <3>4. TodoOK("local", <<s>>)
        BY DEF TodoOK, StateRoutes
      <3> QED
        BY <1>0, <2>0, <3>1, <3>2, <3>3, <3>4, AskStep
    <2>6. CASE Initialise(c, d) \/ DeviceAuth(c, d) \/ RefreshAuth(c, d) \/ AnyOther(c, d)
      <3>1. PICK route \in {"local", "store first"} : Ask(c, d, route, <<>>, <<>>, NoPut)
        BY <2>6 DEF Initialise, DeviceAuth, RefreshAuth, AnyOther
      <3>2. <<>> \in Seq(Books)
        BY ShortSeq, Zenon
      <3>3. <<>> \in Seq(Statements)
        BY ShortSeq, Zenon
      <3>4. TodoOK(route, <<>>)
        BY DEF TodoOK, StateRoutes
      <3> QED
        BY <1>0, <2>0, <3>1, <3>2, <3>3, <3>4, AskStep
    <2> QED
      BY <1>3, <2>1, <2>2, <2>3, <2>4, <2>5, <2>6
  <1> QED
    BY <1>1, <1>2, <1>3 DEF Request

-----------------------------------------------------------------------------
(* A step that changes one call, and no state. *)
LEMMA CallStep ==
  ASSUME TypeOK, StepsOK, NEW c \in Calls, NEW v \in Call, call' = [call EXCEPT ![c] = v],
         CallOK(v, state, begun), state' = state, begun' = begun,
         clock' \in Nat, issued' \in Nat, faults' \in 0..MaxFaults, token' \in Seq(Token),
         device' \in [Devices -> Device]
  PROVE  TypeOK' /\ StepsOK'
  <1>1. /\ call \in [Calls -> Call] /\ state \in [Books -> Seq(Row)] /\ begun \in 0..MaxCalls
    BY DEF TypeOK
  <1>2. begun \in Nat /\ begun' >= begun
    BY <1>1, Bounds
  <1>3. \A b \in Books : Len(state'[b]) >= Len(state[b])
    BY <1>1
  <1>4. call' \in [Calls -> Call] /\ StepsOK'
    BY <1>1, <1>2, <1>3, OneCall
  <1> QED
    BY <1>1, <1>4 DEF TypeOK

(* What is left of a call that is answered. *)
Answered(k, v, source, raw) ==
  \/ v = Idle
  \/ /\ v.phase = "log" /\ v.n = k.n /\ v.device = k.device /\ v.auth = k.auth
     /\ v.source = source /\ v.todo = <<>> /\ v.at = 0 /\ v.stamp = 0
     /\ \/ v.route = "none"
        \/ /\ v.route = k.route /\ source = "local" /\ v.route \in {"GET state", "sync"}
           /\ v.shown = k.shown /\ v.token = k.token /\ v.raw = raw

LEMMA FinishCall ==
  ASSUME call \in [Calls -> Call], begun \in Nat,
         NEW c \in Calls, NEW source \in Sources, NEW raw \in Nat,
         Finish(c, source, raw), CallOK(call[c], state, begun), call[c].phase # "idle"
  PROVE  \E v \in Call : /\ call' = [call EXCEPT ![c] = v]
                         /\ CallOK(v, state, begun)
                         /\ Answered(call[c], v, source, raw)
                         /\ call[c].device # "none" => v # Idle
  <1> DEFINE k == call[c]
             done == [Idle EXCEPT !.phase = "log", !.n = k.n, !.device = k.device,
                                  !.auth = k.auth, !.source = source]
             full == [done EXCEPT !.route = k.route, !.shown = k.shown,
                                  !.token = k.token, !.raw = raw]
             v == IF k.device = "none" THEN Idle ELSE IF Heard(c, source) THEN full ELSE done
  <1>1. k \in Call /\ k.n \in Nat /\ k.device \in Devices \cup {"none"} /\ k.auth \in Nat
        /\ k.route \in Routes /\ k.shown \in [Books -> Nat] /\ k.token \in Nat
    <2>1. k \in Call
      OBVIOUS
    <2> QED
      BY <2>1, Zenon DEF Call
  <1>2. done \in Call
    BY <1>1, IdleCall, Zenon DEF Call
  <1>3. full \in Call
    BY <1>1, <1>2, Zenon DEF Call
  <1>4. /\ done.phase = "log" /\ done.n = k.n /\ done.device = k.device /\ done.auth = k.auth
        /\ done.source = source /\ done.todo = <<>> /\ done.at = 0 /\ done.stamp = 0 /\ done.route = "none"
    BY Zenon DEF Idle
  <1>5. /\ full.phase = "log" /\ full.n = k.n /\ full.device = k.device /\ full.auth = k.auth
        /\ full.source = source /\ full.todo = <<>> /\ full.at = 0 /\ full.stamp = 0 /\ full.route = k.route
        /\ full.shown = k.shown /\ full.token = k.token /\ full.raw = raw
    BY Zenon DEF Idle
  <1>6. call' = [call EXCEPT ![c] = v]
    BY DEF Finish
  <1> HIDE DEF done, full
  <1>7. CASE k.device = "none"
    <2>1. v = Idle
      BY <1>7
    <2>2. CallOK(Idle, state, begun)
      BY IdleCall
    <2>3. Answered(k, Idle, source, raw)
      BY DEF Answered
    <2> QED
      BY <1>6, <1>7, <2>1, <2>2, <2>3, IdleCall, Zenon
  <1>8. CASE k.device # "none" /\ Heard(c, source)
    <2>1. v = full
      BY <1>8
    <2>2. source = "local" /\ k.route \in {"GET state", "sync"}
      BY <1>8 DEF Heard
    <2>3. CallOK(full, state, begun)
      BY <1>5, <1>8, <2>2, ShortSeq DEF CallOK, TodoOK, TokenRoutes, StateRoutes
    <2>4. full # Idle
      BY <1>5 DEF Idle
    <2> QED
      BY <1>3, <1>5, <1>6, <2>1, <2>2, <2>3, <2>4, Zenon DEF Answered
  <1>9. CASE k.device # "none" /\ ~Heard(c, source)
    <2>1. v = done
      BY <1>9
    <2>3. CallOK(done, state, begun)
      BY <1>4, <1>9 DEF CallOK, TodoOK, TokenRoutes, StateRoutes
    <2>4. done # Idle
      BY <1>4 DEF Idle
    <2> QED
      BY <1>2, <1>4, <1>6, <2>1, <2>3, <2>4, Zenon DEF Answered
  <1> QED
    BY <1>7, <1>8, <1>9

LEMMA Current ==
  ASSUME TypeOK, StepsOK, NEW c \in Calls
  PROVE  /\ call \in [Calls -> Call] /\ call[c] \in Call /\ CallOK(call[c], state, begun)
         /\ begun \in Nat /\ begun \in 0..MaxCalls
         /\ call[c].n \in Nat /\ call[c].at \in Nat /\ call[c].token \in Nat /\ call[c].raw \in Nat
         /\ call[c].auth \in Nat /\ call[c].route \in Routes /\ call[c].todo \in Seq(Statements)
         /\ call[c].books \in Seq(Books) /\ call[c].shown \in [Books -> Nat]
         /\ call[c].device \in Devices \cup {"none"} /\ call[c].put \in Put
         /\ clock \in Nat /\ issued \in Nat /\ faults \in 0..MaxFaults /\ token \in Seq(Token)
         /\ device \in [Devices -> Device] /\ state \in [Books -> Seq(Row)]
  <1>1. call \in [Calls -> Call] /\ call[c] \in Call /\ CallOK(call[c], state, begun)
    BY DEF TypeOK, StepsOK
  <1>2. begun \in Nat /\ begun \in 0..MaxCalls
    BY Bounds DEF TypeOK
  <1> QED
    BY <1>1, <1>2, Zenon DEF TypeOK, Call

(* A phase that only changes, and a call that is only answered, are easy. *)
LEMMA PhaseCall ==
  ASSUME TypeOK, StepsOK, NEW c \in Calls, call[c].phase # "idle", call[c].route \notin TokenRoutes,
         NEW phase \in {"local", "store", "log", "answer"}
  PROVE  /\ [call[c] EXCEPT !.phase = phase] \in Call
         /\ CallOK([call[c] EXCEPT !.phase = phase], state, begun)
  <1> DEFINE k == call[c]
             v == [k EXCEPT !.phase = phase]
  <1>1. k \in Call /\ CallOK(k, state, begun)
    BY Current
  <1>2. v \in Call
    BY <1>1, Zenon DEF Call
  <1>3. /\ v.phase = phase /\ v.route = k.route /\ v.todo = k.todo /\ v.device = k.device
        /\ v.n = k.n /\ v.books = k.books /\ v.row = k.row
    BY <1>1, Zenon DEF Call
  <1>4. phase # "idle"
    OBVIOUS
  <1>5. CallOK(v, state, begun)
    <2> HIDE DEF v
    <2> QED
      BY <1>1, <1>3, <1>4, Zenon DEF CallOK
  <1> QED
    BY <1>2, <1>5

LEMMA AnswerStep ==
  ASSUME TypeOK, StepsOK, NEW c \in Calls, NEW source \in Sources, NEW raw \in Nat,
         Finish(c, source, raw), call[c].phase # "idle",
         state' = state, begun' = begun, clock' = clock, issued' = issued, token' = token,
         device' = device, faults' \in 0..MaxFaults
  PROVE  TypeOK' /\ StepsOK'
  <1>1. \E v \in Call : call' = [call EXCEPT ![c] = v] /\ CallOK(v, state, begun)
    BY Current, FinishCall
  <1> QED
    BY <1>1, Current, CallStep

LEMMA ServedStep ==
  ASSUME TypeOK, StepsOK, NEW c \in Calls,
         \/ Served(c) \/ Refused(c) \/ Proxy(c) \/ LogCall(c)
  PROVE  TypeOK' /\ StepsOK'
  <1>0. {"local", "store", "error"} \subseteq Sources /\ 0 \in Nat
    BY DEF Sources
  <1>1. CASE Served(c)
    <2>1. /\ call[c].phase = "local" /\ call[c].todo = <<>> /\ faults' = faults
          /\ UNCHANGED <<clock, begun, state, issued, token, device>>
      BY <1>1 DEF Served, Serving
    <2>2. CASE Finish(c, "local", call[c].raw)
      BY <1>0, <2>1, <2>2, Current, AnswerStep
    <2>3. CASE call[c].route = "sync" /\ call' = [call EXCEPT ![c].phase = "store"]
      <3>1. call' = [call EXCEPT ![c] = [call[c] EXCEPT !.phase = "store"]]
        BY <2>3, Zenon
      <3>2. "sync" \notin TokenRoutes
        BY DEF TokenRoutes
      <3> QED
        BY <2>1, <2>3, <3>1, <3>2, PhaseCall, Current, CallStep
    <2> QED
      BY <1>1, <2>2, <2>3 DEF Served
  <1>2. CASE Refused(c)
    <2>1. /\ call[c].phase = "refused" /\ faults' = faults
          /\ UNCHANGED <<clock, begun, state, issued, token, device>>
      BY <1>2 DEF Refused
    <2>2. CASE Finish(c, "error", 0)
      BY <1>0, <2>1, <2>2, Current, AnswerStep
    <2>3. CASE call' = [call EXCEPT ![c].phase = "store"] /\ call[c].route \in LocalOrStore
      <3>1. call' = [call EXCEPT ![c] = [call[c] EXCEPT !.phase = "store"]]
        BY <2>3, Zenon
      <3>2. call[c].route \notin TokenRoutes
        BY <2>3 DEF TokenRoutes, LocalOrStore
      <3> QED
        BY <2>1, <3>1, <3>2, PhaseCall, Current, CallStep
    <2> QED
      BY <1>2, <2>2, <2>3 DEF Refused
  <1>3. CASE Proxy(c)
    <2>1. /\ call[c].phase = "store" /\ faults' = faults
          /\ UNCHANGED <<clock, begun, state, issued, token, device>>
      BY <1>3 DEF Proxy
    <2>2. \E source \in {"local", "store", "error"}, raw \in {call[c].n, call[c].raw} :
             Finish(c, source, raw)
      BY <1>3 DEF Proxy, RawAfterFailure
    <2> QED
      BY <1>0, <2>1, <2>2, Current, AnswerStep
  <1>4. CASE LogCall(c)
    <2>1. /\ call[c].phase = "log" /\ faults' = faults
          /\ UNCHANGED <<clock, begun, state, issued, token, device>>
          /\ call' = [call EXCEPT ![c].phase = "answer"]
      BY <1>4 DEF LogCall
    <2>2. call' = [call EXCEPT ![c] = [call[c] EXCEPT !.phase = "answer"]]
      BY <2>1, Zenon
    <2>3. call[c].route \notin TokenRoutes
      BY <2>1, Current DEF CallOK
    <2> QED
      BY <2>1, <2>2, <2>3, PhaseCall, Current, CallStep
  <1> QED
    BY <1>1, <1>2, <1>3, <1>4

LEMMA AuthenticateStep ==
  ASSUME TypeOK, StepsOK, NEW c \in Calls, Authenticate(c)
  PROVE  TypeOK' /\ StepsOK'
  <1> DEFINE k == call[c]
             puts == k.route = "PUT state" /\ k.todo # <<>>
  <1>1. k.phase = "auth" /\ UNCHANGED <<begun, state, issued, token, faults>>
    BY DEF Authenticate
  <1>2. k.device \in Devices /\ k.route \notin TokenRoutes
    BY <1>1, Current DEF CallOK
  <1>3. CASE Finish(c, "unauthorized", 0) /\ UNCHANGED <<clock, device>>
    <2>1. "unauthorized" \in Sources /\ 0 \in Nat
      BY DEF Sources
    <2> QED
      BY <1>1, <1>3, <2>1, Current, AnswerStep
  <1>4. CASE /\ clock' = IF puts THEN clock + 1 ELSE clock
             /\ call' = [call EXCEPT ![c].at = clock',
                  ![c].phase = IF k.route \in StoreFirst THEN "store" ELSE "local"]
             /\ device' = IF puts /\ device[k.device].waits = k.n
                          THEN [device EXCEPT ![k.device].knows[Book(c)] = clock'] ELSE device
    <2> DEFINE phase == IF k.route \in StoreFirst THEN "store" ELSE "local"
               v == [[k EXCEPT !.phase = phase] EXCEPT !.at = clock']
    <2>1. clock' \in Nat
      <3>1. clock' = clock + 1 \/ clock' = clock
        BY <1>4, Zenon
      <3>2. clock \in Nat
        BY Current
      <3> QED
        BY <3>1, <3>2
    <2>2. call' = [call EXCEPT ![c] = v]
      <3>1. call' = [call EXCEPT ![c] = [k EXCEPT !.at = clock', !.phase = phase]]
        BY <1>4, Zenon
      <3>2. [k EXCEPT !.at = clock', !.phase = phase] = v
        BY Current, Zenon DEF Call
      <3> QED
        BY <3>1, <3>2
    <2>3. /\ [k EXCEPT !.phase = phase] \in Call
          /\ CallOK([k EXCEPT !.phase = phase], state, begun)
      <3>1. phase \in {"local", "store", "log", "answer"} /\ k.phase # "idle"
        BY <1>1
      <3> HIDE DEF phase
      <3> QED
        BY <1>2, <3>1, PhaseCall
    <2>4. v \in Call
      BY <2>1, <2>3, Zenon DEF Call
    <2>5. CallOK(v, state, begun)
      <3> DEFINE u == [k EXCEPT !.phase = phase]
      <3>1. /\ v.phase = u.phase /\ v.route = u.route /\ v.todo = u.todo /\ v.device = u.device
            /\ v.n = u.n /\ v.books = u.books /\ v.row = u.row
        BY <2>3, Zenon DEF Call
      <3>2. u.phase # "idle"
        BY Current, Zenon DEF Call
      <3>3. CallOK(u, state, begun)
        BY <2>3
      <3> HIDE DEF u, v
      <3> QED
        BY <3>1, <3>2, <3>3, Zenon DEF CallOK
    <2>6. device' \in [Devices -> Device]
      <3>1. CASE puts
        <4>1. k.books # <<>> /\ k.books \in Seq(Books)
          BY <3>1, Current DEF CallOK, BookRoutes
        <4>2. Book(c) \in Books
          BY <4>1 DEF Book
        <4>3. device[k.device] \in Device
          BY <1>2, Current
        <4>4. [device[k.device] EXCEPT !.knows[Book(c)] = clock'] \in Device
          BY <2>1, <4>2, <4>3, Zenon DEF Device
        <4>5. [device EXCEPT ![k.device].knows[Book(c)] = clock']
               = [device EXCEPT ![k.device] = [device[k.device] EXCEPT !.knows[Book(c)] = clock']]
          BY Zenon
        <4> QED
          BY <1>2, <1>4, <4>4, <4>5, Current
      <3>2. CASE ~puts
        BY <1>4, <3>2, Current
      <3> QED
        BY <3>1, <3>2
    <2> HIDE DEF v
    <2> QED
      BY <1>1, <2>1, <2>2, <2>4, <2>5, <2>6, Current, CallStep
  <1> QED
    BY <1>3, <1>4 DEF Authenticate

LEMMA AnswerTaken ==
  ASSUME TypeOK, StepsOK, NEW c \in Calls, Answer(c)
  PROVE  TypeOK' /\ StepsOK'
  <1> DEFINE k == call[c]
             d == k.device
             heard == Heard(c, k.source)
             old == device[d]
             new == [waits |-> 0,
                     token |-> IF heard /\ k.route = "sync" THEN k.token ELSE old.token,
                     raw   |-> IF heard /\ k.route = "sync" THEN k.raw ELSE old.raw,
                     knows |-> IF heard THEN [b \in Books |-> Greater(old.knows[b], k.shown[b])]
                               ELSE old.knows]
  <1>1. k.phase = "answer" /\ call' = [call EXCEPT ![c] = Idle]
        /\ UNCHANGED <<clock, begun, state, issued, token, faults>>
    BY DEF Answer
  <1>2. d \in Devices
    BY <1>1, Current DEF CallOK
  <1>3. device' = [device EXCEPT ![d] = new] \/ device' = device
    BY Zenon DEF Answer
  <1>4. old \in Device
    BY <1>2, Current
  <1>5. old.token \in Nat /\ old.raw \in Nat /\ old.knows \in [Books -> Nat]
    BY <1>4, Zenon DEF Device
  <1>6. \A b \in Books : Greater(old.knows[b], k.shown[b]) \in Nat
    BY <1>5, Current DEF Greater
  <1>7. new \in Device
    <2> HIDE DEF old, heard
    <2> QED
      BY <1>5, <1>6, Current, Zenon DEF Device
  <1>8. device' \in [Devices -> Device]
    <2> HIDE DEF new
    <2> QED
      BY <1>2, <1>3, <1>7, Current
  <1> QED
    BY <1>1, <1>8, IdleCall, Current, CallStep

(* The next statement, when the one at the head of the list is done. *)
LEMMA TodoCall ==
  ASSUME TypeOK, StepsOK, NEW c \in Calls, call[c].phase = "local",
         NEW todo \in Seq(Statements), TodoOK(call[c].route, todo),
         todo # <<>> => call[c].todo # <<>>,
         todo # <<>> /\ Head(todo) \in RowSteps
           => call[c].row \in 1..Len(state[Head(call[c].books)])
  PROVE  /\ [call[c] EXCEPT !.todo = todo] \in Call
         /\ CallOK([call[c] EXCEPT !.todo = todo], state, begun)
  <1> DEFINE k == call[c]
             v == [k EXCEPT !.todo = todo]
  <1>1. k \in Call /\ CallOK(k, state, begun)
    BY Current
  <1>2. v \in Call
    BY <1>1, Zenon DEF Call
  <1>3. /\ v.phase = k.phase /\ v.route = k.route /\ v.todo = todo /\ v.device = k.device
        /\ v.n = k.n /\ v.books = k.books /\ v.row = k.row
    BY <1>1, Zenon DEF Call
  <1>5. CallOK(v, state, begun)
    <2> HIDE DEF v
    <2> QED
      BY <1>1, <1>3, Zenon DEF CallOK
  <1> QED
    BY <1>2, <1>5

LEMMA RefuseCall ==
  ASSUME TypeOK, StepsOK, NEW c \in Calls, call[c].phase # "idle", call[c].device # "none", Refuse(c)
  PROVE  \E v \in Call : /\ call' = [call EXCEPT ![c] = v] /\ CallOK(v, state, begun)
                         /\ v.phase = "refused" /\ v.n = call[c].n /\ v.auth = call[c].auth
                         /\ v.device = call[c].device /\ v.source = call[c].source
                         /\ v.todo = <<>> /\ v.raw = call[c].raw /\ v.route = call[c].route
                         /\ v.at = call[c].at /\ v.stamp = call[c].stamp
  <1> DEFINE k == call[c]
             v == [k EXCEPT !.phase = "refused", !.todo = <<>>]
  <1>1. k \in Call /\ CallOK(k, state, begun) /\ k.route \notin TokenRoutes
    BY Current DEF CallOK
  <1>2. v \in Call
    <2>1. <<>> \in Seq(Statements)
      BY ShortSeq, Zenon
    <2> QED
      BY <1>1, <2>1, Zenon DEF Call
  <1>3. /\ v.phase = "refused" /\ v.route = k.route /\ v.todo = <<>> /\ v.device = k.device
        /\ v.n = k.n /\ v.auth = k.auth /\ v.source = k.source /\ v.raw = k.raw
        /\ v.at = k.at /\ v.stamp = k.stamp
    BY <1>1, Zenon DEF Call
  <1>4. call' = [call EXCEPT ![c] = v]
    BY Zenon DEF Refuse
  <1>5. TodoOK(k.route, <<>>)
    BY <1>1, ShortSeq DEF TodoOK, TokenRoutes
  <1>6. CallOK(v, state, begun)
    <2> HIDE DEF v
    <2> QED
      BY <1>1, <1>3, <1>5, Zenon DEF CallOK
  <1> HIDE DEF v
  <1> QED
    BY <1>2, <1>3, <1>4, <1>6

LEMMA DueStep ==
  ASSUME TypeOK, StepsOK, NEW c \in Calls, NEW s, Due(c, s)
  PROVE  /\ call[c].phase = "local" /\ call[c].todo # <<>> /\ Head(call[c].todo) = s
         /\ TodoOK(call[c].route, call[c].todo) /\ call[c].todo \in Seq(Statements)
         /\ Tail(call[c].todo) \in Seq(Statements)
         /\ s \in StateSteps => call[c].route \in StateRoutes
         /\ s \in {"revokeAll", "revokeOne", "insertToken"} => call[c].route \in TokenRoutes
         /\ s = "states" => call[c].route = "sync"
         /\ s = "files" => call[c].route = "GET metadata"
         /\ s \in {"file", "cover"} => call[c].route = "local"
  <1>1. call[c].phase = "local" /\ call[c].todo # <<>> /\ Head(call[c].todo) = s
    BY DEF Due, Serving
  <1>2. call[c].todo \in Seq(Statements)
    BY Current
  <1>3. TodoOK(call[c].route, call[c].todo)
    BY Current DEF CallOK
  <1>4. call[c].route \in Routes
    BY Current
  <1>5. Tail(call[c].todo) \in Seq(Statements)
    BY <1>1, <1>2
  <1> DEFINE r == call[c].route
             todo == call[c].todo
  <1>6. /\ Head(todo) \in StateSteps <=> r \in StateRoutes
        /\ Head(todo) \in {"revokeAll", "revokeOne", "insertToken"} <=> r \in TokenRoutes
        /\ Head(todo) = "states" <=> r = "sync"
        /\ Head(todo) = "files" <=> r = "GET metadata"
        /\ Head(todo) \in {"file", "cover"} <=> r = "local"
    <2> HIDE DEF r, todo
    <2> QED
      BY <1>1, <1>2, <1>3, <1>4, RouteOf DEF r, todo
  <1> QED
    BY <1>1, <1>2, <1>3, <1>5, <1>6, Zenon

LEMMA TokenStep ==
  ASSUME TypeOK, StepsOK, NEW c \in Calls, TokenStatement(c)
  PROVE  TypeOK' /\ StepsOK'
  <1> DEFINE k == call[c]
             v == IF Rest(c) = <<>> THEN Idle ELSE [k EXCEPT !.todo = Rest(c)]
  <1>1. PICK s \in {"revokeAll", "revokeOne", "insertToken"} : Due(c, s)
    BY DEF TokenStatement
  <1>2. k.route \in TokenRoutes
    BY <1>1, DueStep, Zenon
  <1>3. call' = [call EXCEPT ![c] = v] /\ UNCHANGED <<clock, begun, state, issued, device, faults>>
    BY DEF TokenStatement
  <1>4. v \in Call /\ CallOK(v, state, begun)
    <2>1. CASE k.todo = <<"revokeAll", "insertToken">>
      <3>1. Rest(c) = <<"insertToken">>
        BY <2>1, HeadOf DEF Rest
      <3>2. <<"insertToken">> \in Seq(Statements) /\ Head(<<"insertToken">>) \notin RowSteps
        <4>1. "insertToken" \in Statements /\ "insertToken" \notin RowSteps
          BY DEF Statements, RowSteps
        <4> QED
          BY <4>1, ShortSeq, HeadOf
      <3>3. k.route = "create token"
        <4>1. k.route = "revoke token" => k.todo \in {<<"revokeAll">>, <<"revokeOne">>}
          BY <1>1, DueStep DEF TodoOK
        <4>2. <<"revokeAll", "insertToken">> \notin {<<"revokeAll">>, <<"revokeOne">>}
          OBVIOUS
        <4> QED
          BY <1>2, <2>1, <4>1, <4>2, Zenon DEF TokenRoutes
      <3>4. TodoOK(k.route, <<"insertToken">>)
        BY <3>3 DEF TodoOK, StateRoutes
      <3>5. v = [k EXCEPT !.todo = <<"insertToken">>]
        BY <3>1
      <3> HIDE DEF v
      <3> QED
        BY <1>1, <3>2, <3>4, <3>5, DueStep, TodoCall
    <2>2. CASE k.todo \in {<<"insertToken">>, <<"revokeAll">>, <<"revokeOne">>}
      <3>1. Rest(c) = <<>>
        BY <2>2, HeadOf DEF Rest
      <3> QED
        BY <3>1, IdleCall, Current
    <2> QED
      BY <1>1, <1>2, <2>1, <2>2, DueStep DEF TodoOK, TokenRoutes
  <1>5. token' \in Seq(Token)
    <2>1. token \in Seq(Token)
      BY Current
    <2>2. CASE \E T : TokensOff(T)
      <3>1. PICK T : TokensOff(T)
        BY <2>2
      <3>2. \A t \in DOMAIN token : [token[t] EXCEPT !.revoked = begun] \in Token
        <4>1. ASSUME NEW t \in DOMAIN token
              PROVE  [token[t] EXCEPT !.revoked = begun] \in Token
          <5>1. token[t] \in Token
            BY <2>1
          <5>2. begun \in Nat
            BY Current
          <5> QED
            BY <5>1, <5>2, Zenon DEF Token
        <4> QED
          BY <4>1, Zenon
      <3>3. token' = [t \in DOMAIN token |->
              IF t \in T /\ Active(t) THEN [token[t] EXCEPT !.revoked = begun] ELSE token[t]]
        BY <3>1 DEF TokensOff
      <3>4. DOMAIN token = 1..Len(token) /\ Len(token) \in Nat
        BY <2>1
      <3> DEFINE W(t) == IF t \in T /\ Active(t) THEN [token[t] EXCEPT !.revoked = begun] ELSE token[t]
      <3>5. \A t \in 1..Len(token) : W(t) \in Token
        BY <2>1, <3>2, <3>4
      <3>6. token' = [t \in 1..Len(token) |-> W(t)]
        BY <3>3, <3>4, Zenon
      <3> HIDE DEF W
      <3> QED
        BY <3>4, <3>5, <3>6
    <2>3. CASE token' = Append(token, NewToken(k.n))
      <3>1. NewToken(k.n) \in Token
        BY Current DEF NewToken, Token
      <3> QED
        BY <2>1, <2>3, <3>1
    <2> QED
      BY <2>2, <2>3 DEF TokenStatement
  <1> HIDE DEF v
  <1> QED
    BY <1>3, <1>4, <1>5, Current, CallStep

LEMMA BookStep ==
  ASSUME TypeOK, StepsOK, NEW c \in Calls, Metadata(c) \/ Download(c) \/ Cover(c)
  PROVE  TypeOK' /\ StepsOK'
  <1> DEFINE k == call[c]
  <1>0. UNCHANGED <<clock, begun, state, issued, token, device, faults>>
    BY DEF Metadata, Download, Cover
  <1>1. PICK s \in {"files", "file", "cover"} : Due(c, s)
    BY DEF Metadata, Download, Cover
  <1>2. /\ k.route \in {"GET metadata", "local"} /\ k.todo # <<>> /\ k.phase = "local"
        /\ Head(k.todo) \notin RowSteps /\ k.todo \in Seq(Statements)
    BY <1>1, DueStep DEF RowSteps
  <1>3. k.device # "none" /\ k.books # <<>>
    BY <1>2, Current DEF CallOK, TokenRoutes, BookRoutes
  <1>4. CASE Refuse(c)
    BY <1>0, <1>2, <1>3, <1>4, RefuseCall, Current, CallStep
  <1>5. TodoOK(k.route, <<>>) /\ <<>> \in Seq(Statements)
    BY <1>2, ShortSeq DEF TodoOK, StateRoutes
  <1>6. CASE Follow(c, <<>>)
    <2>1. call' = [call EXCEPT ![c] = [k EXCEPT !.todo = <<>>]]
      BY <1>6, Zenon DEF Follow
    <2> QED
      BY <1>0, <1>2, <1>5, <2>1, TodoCall, Current, CallStep
  <1>7. CASE Finish(c, "store", 0)
    <2>1. "store" \in Sources /\ 0 \in Nat
      BY DEF Sources
    <2>2. k.phase # "idle"
      BY <1>2
    <2> QED
      BY <1>0, <1>7, <2>1, <2>2, AnswerStep, Current
  <1>8. CASE call' = [call EXCEPT ![c].books = Tail(@),
                                  ![c].todo = IF Len(call[c].books) > 1 THEN @ ELSE <<>>]
    <2> DEFINE todo == IF Len(k.books) > 1 THEN k.todo ELSE <<>>
               u == [k EXCEPT !.todo = todo]
               v == [u EXCEPT !.books = Tail(k.books)]
    <2>1. todo \in Seq(Statements) /\ TodoOK(k.route, todo) /\ (todo # <<>> => Head(todo) \notin RowSteps)
      BY <1>2, <1>5, Current DEF CallOK
    <2>2. u \in Call /\ CallOK(u, state, begun)
      <3> HIDE DEF todo
      <3> QED
        BY <1>2, <2>1, TodoCall
    <2>3. k \in Call /\ k.books \in Seq(Books)
      BY Current
    <2>4. Tail(k.books) \in Seq(Books)
      BY <1>3, <2>3
    <2>5. v \in Call
      BY <2>2, <2>4, Zenon DEF Call
    <2>6. /\ v.phase = u.phase /\ v.route = u.route /\ v.todo = todo /\ v.device = u.device
          /\ v.n = u.n /\ v.books = Tail(k.books) /\ u.todo = todo /\ u.phase # "idle"
      BY <1>2, <2>2, <2>3, Zenon DEF Call
    <2>7. todo # <<>> => Tail(k.books) # <<>>
      BY <2>3, TailSome
    <2>8. CallOK(v, state, begun)
      <3> HIDE DEF u, v, todo
      <3> QED
        BY <2>1, <2>2, <2>6, <2>7, Zenon DEF CallOK
    <2>9. call' = [call EXCEPT ![c] = v]
      <3>1. call' = [call EXCEPT ![c] = [k EXCEPT !.books = Tail(k.books), !.todo = todo]]
        BY <1>8, Zenon
      <3>2. [k EXCEPT !.books = Tail(k.books), !.todo = todo] = v
        BY <2>3, Zenon DEF Call
      <3> QED
        BY <3>1, <3>2
    <2> HIDE DEF v
    <2> QED
      BY <1>0, <2>5, <2>8, <2>9, Current, CallStep
  <1> QED
    BY <1>4, <1>6, <1>7, <1>8, Zenon DEF Metadata, Download, Cover

LEMMA FaultStep ==
  ASSUME TypeOK, StepsOK, NEW c \in Calls, Fault(c) \/ Die(c)
  PROVE  TypeOK' /\ StepsOK'
  <1> DEFINE k == call[c]
  <1>1. /\ faults < MaxFaults /\ faults' = faults + 1
        /\ UNCHANGED <<clock, begun, state, issued, token, device>>
    BY DEF Fault, Die
  <1>2. faults' \in 0..MaxFaults
    BY <1>1, Current, Bounds
  <1>3. CASE call' = [call EXCEPT ![c] = Idle]
    BY <1>1, <1>2, <1>3, IdleCall, Current, CallStep
  <1>4. CASE k.phase = "auth" /\ Finish(c, "unauthorized", 0)
    <2>1. "unauthorized" \in Sources /\ 0 \in Nat /\ k.phase # "idle"
      BY <1>4 DEF Sources
    <2> QED
      BY <1>1, <1>2, <1>4, <2>1, AnswerStep, Current
  <1>5. CASE /\ k.phase = "local"
             /\ call' = [call EXCEPT ![c] = IF @.device = "none" THEN Idle
                                            ELSE [@ EXCEPT !.phase = "refused", !.todo = <<>>]]
    <2>1. CASE k.device = "none"
      <3>1. call' = [call EXCEPT ![c] = Idle]
        BY <1>5, <2>1
      <3> QED
        BY <1>3, <3>1
    <2>2. CASE k.device # "none"
      <3>1. Refuse(c)
        <4>1. call' = [call EXCEPT ![c] = [k EXCEPT !.phase = "refused", !.todo = <<>>]]
          BY <1>5, <2>2
        <4> QED
          BY <4>1, Zenon DEF Refuse
      <3>2. k.phase # "idle"
        BY <1>5
      <3> QED
        BY <1>1, <1>2, <2>2, <3>1, <3>2, RefuseCall, Current, CallStep
    <2> QED
      BY <2>1, <2>2
  <1> QED
    BY <1>3, <1>4, <1>5, Zenon DEF Fault, Die, Serving

LEMMA GiveUpStep ==
  ASSUME TypeOK, StepsOK, NEW d \in Devices, GiveUp(d)
  PROVE  TypeOK' /\ StepsOK'
  <1>1. /\ faults < MaxFaults /\ faults' = faults + 1
        /\ device' = [device EXCEPT ![d].waits = 0]
        /\ UNCHANGED <<clock, begun, state, call, issued, token>>
    BY DEF GiveUp, readingVars
  <1>2. faults \in 0..MaxFaults /\ device \in [Devices -> Device]
    BY DEF TypeOK
  <1>3. faults' \in 0..MaxFaults
    BY <1>1, <1>2, Bounds
  <1>4. device[d] \in Device
    BY <1>2
  <1>5. [device[d] EXCEPT !.waits = 0] \in Device
    BY <1>4, Zenon DEF Device
  <1>6. device' \in [Devices -> Device]
    BY <1>1, <1>2, <1>5
  <1> QED
    BY <1>1, <1>3, <1>6 DEF TypeOK, StepsOK

-----------------------------------------------------------------------------
(* A statement about a reading state: what a step that keeps the call's todo     *)
(* among the statements of GET and PUT needs.                                 *)
LEMMA StateCall ==
  ASSUME TypeOK, StepsOK, NEW c \in Calls, NEW s \in StateSteps, Due(c, s)
  PROVE  /\ call[c].phase = "local" /\ call[c].route \in StateRoutes /\ call[c].todo # <<>>
         /\ call[c].todo \in Seq(StateSteps) /\ Rest(c) \in Seq(StateSteps)
         /\ call[c].books # <<>> /\ Book(c) \in Books /\ Rows(c) \in Seq(Row)
         /\ call[c].device \in Devices
         /\ s \in RowSteps => call[c].row \in 1..Len(Rows(c))
  <1>1. /\ call[c].phase = "local" /\ call[c].route \in StateRoutes /\ call[c].todo # <<>>
        /\ Head(call[c].todo) = s
    BY DueStep, Zenon
  <1>2. call[c].todo \in Seq(StateSteps)
    BY <1>1, DueStep DEF TodoOK
  <1>3. Rest(c) \in Seq(StateSteps)
    BY <1>1, <1>2 DEF Rest
  <1>4. call[c].books # <<>> /\ call[c].books \in Seq(Books)
    BY <1>1, Current DEF CallOK, StateRoutes, BookRoutes
  <1>5. Book(c) \in Books
    BY <1>4 DEF Book
  <1>6. Rows(c) \in Seq(Row)
    BY <1>5, Current DEF Rows
  <1>7. call[c].device \in Devices
    BY <1>1, Current DEF CallOK, StateRoutes, TokenRoutes
  <1>8. s \in RowSteps => call[c].row \in 1..Len(Rows(c))
    BY <1>1, Current DEF CallOK, Rows, Book
  <1> QED
    BY <1>1, <1>2, <1>3, <1>4, <1>5, <1>6, <1>7, <1>8

(* The statements of GET and PUT are statements. *)
LEMMA StateTodo ==
  ASSUME NEW r \in StateRoutes, NEW s \in Seq(StateSteps)
  PROVE  s \in Seq(Statements) /\ TodoOK(r, s)
  <1>1. StateSteps \subseteq Statements
    BY DEF StateSteps, RowSteps, Statements
  <1>2. s \in Seq(Statements)
    BY <1>1
  <1> QED
    BY <1>2 DEF TodoOK, StateRoutes

LEMMA FindStep ==
  ASSUME TypeOK, StepsOK, NEW c \in Calls, Find(c), UNCHANGED <<token, device, faults>>
  PROVE  TypeOK' /\ StepsOK'
  <1> DEFINE k == call[c]
  <1>0. "find" \in StateSteps /\ "insert" \in StateSteps /\ "insert" \notin RowSteps
    BY DEF StateSteps, RowSteps
  <1>1. Due(c, "find") /\ UNCHANGED <<begun, state, issued>>
    BY DEF Find
  <1>2. k.phase = "local" /\ k.route \in StateRoutes /\ k.todo # <<>> /\ k.device \in Devices
    BY <1>0, <1>1, StateCall
  <1>3. CASE Refuse(c) /\ UNCHANGED clock
    BY <1>1, <1>2, <1>3, RefuseCall, Current, CallStep, Bounds
  <1>4. CASE /\ Rows(c) # <<>> /\ UNCHANGED clock
             /\ call' = [call EXCEPT ![c].row = 1, ![c].todo = Rest(c)]
    <2> DEFINE v == [k EXCEPT !.row = 1, !.todo = Rest(c)]
    <2>1. Rest(c) \in Seq(Statements) /\ TodoOK(k.route, Rest(c))
      BY <1>0, <1>1, <1>2, StateCall, StateTodo
    <2>2. k \in Call /\ CallOK(k, state, begun)
      BY Current
    <2>3. v \in Call
      BY <2>1, <2>2, Zenon DEF Call
    <2>4. /\ v.phase = k.phase /\ v.route = k.route /\ v.todo = Rest(c) /\ v.device = k.device
          /\ v.n = k.n /\ v.books = k.books /\ v.row = 1
      BY <2>2, Zenon DEF Call
    <2>5. 1 \in 1..Len(state[Head(k.books)])
      <3>1. Rows(c) \in Seq(Row) /\ Rows(c) # <<>>
        BY <1>0, <1>1, <1>4, StateCall
      <3>2. 1 \in 1..Len(Rows(c))
        BY <3>1
      <3> QED
        BY <3>2, Zenon DEF Rows, Book
    <2>6. CallOK(v, state, begun)
      <3> HIDE DEF v
      <3> QED
        BY <1>2, <2>1, <2>2, <2>4, <2>5, Zenon DEF CallOK
    <2>7. call' = [call EXCEPT ![c] = v]
      BY <1>4, Zenon
    <2> HIDE DEF v
    <2> QED
      BY <1>1, <1>4, <2>3, <2>6, <2>7, Current, CallStep
  <1>5. CASE /\ clock' = clock + 1
             /\ call' = [call EXCEPT ![c].stamp = clock', ![c].todo = <<"insert">> \o Rest(c)]
    <2> DEFINE todo == <<"insert">> \o Rest(c)
               u == [k EXCEPT !.todo = todo]
               v == [u EXCEPT !.stamp = clock']
    <2>1. clock \in Nat /\ clock' \in Nat
      BY <1>5, Current
    <2>2. todo \in Seq(Statements) /\ TodoOK(k.route, todo) /\ Head(todo) = "insert" /\ todo # <<>>
      <3>1. todo \in Seq(StateSteps) /\ Head(todo) = "insert" /\ todo # <<>>
        BY <1>0, <1>1, StateCall, InsertTodo DEF Rest
      <3> QED
        BY <1>2, <3>1, StateTodo
    <2>3. u \in Call /\ CallOK(u, state, begun)
      <3> HIDE DEF todo
      <3> QED
        BY <1>0, <1>2, <2>2, TodoCall
    <2>4. v \in Call
      BY <2>1, <2>3, Zenon DEF Call
    <2>5. /\ v.phase = u.phase /\ v.route = u.route /\ v.todo = u.todo /\ v.device = u.device
          /\ v.n = u.n /\ v.books = u.books /\ v.row = u.row
      BY <2>3, Zenon DEF Call
    <2>6. u.phase # "idle"
      BY <1>2, Current, Zenon DEF Call
    <2>7. CallOK(v, state, begun)
      <3> HIDE DEF u, v
      <3> QED
        BY <2>3, <2>5, <2>6, Zenon DEF CallOK
    <2>8. call' = [call EXCEPT ![c] = v]
      <3>1. call' = [call EXCEPT ![c] = [k EXCEPT !.stamp = clock', !.todo = todo]]
        BY <1>5, Zenon
      <3>2. [k EXCEPT !.stamp = clock', !.todo = todo] = v
        BY Current, Zenon DEF Call
      <3> QED
        BY <3>1, <3>2
    <2> HIDE DEF v
    <2> QED
      BY <1>1, <2>1, <2>4, <2>7, <2>8, Current, CallStep
  <1> QED
    BY <1>3, <1>4, <1>5, Zenon DEF Find

(* The rows after one was changed. *)
LEMMA RowChanged ==
  ASSUME state \in [Books -> Seq(Row)], NEW b \in Books, NEW i \in 1..Len(state[b]),
         NEW row \in Row, state' = [state EXCEPT ![b][i] = row]
  PROVE  /\ state' \in [Books -> Seq(Row)]
         /\ \A x \in Books : Len(state'[x]) = Len(state[x])
         /\ \A x \in Books : \A j \in 1..Len(state[x]) :
              state'[x][j] = IF x = b /\ j = i THEN row ELSE state[x][j]
  <1> DEFINE rows == state[b]
             new  == [rows EXCEPT ![i] = row]
  <1>1. rows \in Seq(Row)
    OBVIOUS
  <1>2. /\ new \in Seq(Row) /\ Len(new) = Len(rows)
        /\ \A j \in 1..Len(rows) : new[j] = IF j = i THEN row ELSE rows[j]
    <2> HIDE DEF rows
    <2>1. i \in 1..Len(rows)
      BY DEF rows
    <2> QED
      BY <1>1, <2>1
  <1>3. state' = [state EXCEPT ![b] = new]
    BY Zenon
  <1> HIDE DEF new
  <1> QED
    BY <1>2, <1>3

(* A step of a call that changes a row. *)
LEMMA RowStep ==
  ASSUME TypeOK, StepsOK, NEW c \in Calls, NEW v \in Call, call' = [call EXCEPT ![c] = v],
         state' \in [Books -> Seq(Row)], \A b \in Books : Len(state'[b]) >= Len(state[b]),
         CallOK(v, state', begun),
         UNCHANGED <<clock, begun, issued, token, device, faults>>
  PROVE  TypeOK' /\ StepsOK'
  <1>1. /\ call \in [Calls -> Call] /\ state \in [Books -> Seq(Row)] /\ begun \in 0..MaxCalls
    BY DEF TypeOK
  <1>2. begun \in Nat /\ begun' >= begun /\ begun' = begun
    BY <1>1, Bounds
  <1>3. call' \in [Calls -> Call] /\ StepsOK'
    BY <1>1, <1>2, OneCall
  <1> QED
    BY <1>1, <1>3 DEF TypeOK

(* A call whose statement is done, in a state that kept its rows. *)
LEMMA RestCall ==
  ASSUME TypeOK, StepsOK, NEW c \in Calls, NEW s \in StateSteps, Due(c, s),
         NEW rows, NEW i \in Nat, s \in RowSteps => i = call[c].row,
         i \in 1..Len(rows[Book(c)])
  PROVE  /\ [call[c] EXCEPT !.row = i, !.todo = Rest(c)] \in Call
         /\ CallOK([call[c] EXCEPT !.row = i, !.todo = Rest(c)], rows, begun)
  <1> DEFINE k == call[c]
             v == [k EXCEPT !.row = i, !.todo = Rest(c)]
  <1>1. k \in Call /\ CallOK(k, state, begun)
    BY Current
  <1>2. k.phase = "local" /\ k.route \in StateRoutes /\ k.todo # <<>> /\ Rest(c) \in Seq(StateSteps)
    BY StateCall
  <1>3. Rest(c) \in Seq(Statements) /\ TodoOK(k.route, Rest(c))
    BY <1>2, StateTodo
  <1>4. v \in Call
    BY <1>1, <1>3, Zenon DEF Call
  <1>5. /\ v.phase = k.phase /\ v.route = k.route /\ v.todo = Rest(c) /\ v.device = k.device
        /\ v.n = k.n /\ v.books = k.books /\ v.row = i
    BY <1>1, Zenon DEF Call
  <1>6. i \in 1..Len(rows[Head(k.books)])
    BY Zenon DEF Book
  <1>7. CallOK(v, rows, begun)
    <2> HIDE DEF v
    <2> QED
      BY <1>1, <1>2, <1>3, <1>5, <1>6, Zenon DEF CallOK
  <1> QED
    BY <1>4, <1>7

(* The call of a row step that goes on to the rest leaves its row as it is. *)
LEMMA FollowRest ==
  ASSUME TypeOK, StepsOK, NEW c \in Calls, NEW s \in RowSteps, Due(c, s), Follow(c, Rest(c))
  PROVE  /\ call' = [call EXCEPT ![c] = [call[c] EXCEPT !.row = call[c].row, !.todo = Rest(c)]]
         /\ s \in StateSteps /\ call[c].row \in Nat
  <1>1. call[c] \in Call
    BY Current
  <1>2. [call[c] EXCEPT !.row = call[c].row, !.todo = Rest(c)] = [call[c] EXCEPT !.todo = Rest(c)]
    BY <1>1, Zenon DEF Call
  <1>3. call' = [call EXCEPT ![c] = [call[c] EXCEPT !.todo = Rest(c)]]
    BY Zenon DEF Follow
  <1>4. call[c].row \in Nat
    BY <1>1, Zenon DEF Call
  <1> QED
    BY <1>2, <1>3, <1>4 DEF StateSteps

LEMMA InsertStep ==
  ASSUME TypeOK, StepsOK, NEW c \in Calls, InsertState(c), UNCHANGED <<token, device, faults>>
  PROVE  TypeOK' /\ StepsOK'
  <1> DEFINE k == call[c]
             b == Book(c)
             row == NewState(k.stamp, k.n)
             u == [k EXCEPT !.row = Len(Rows(c)) + 1, !.todo = Rest(c)]
             v == [u EXCEPT !.stamp = 0]
  <1>0. "insert" \in StateSteps /\ "insert" \notin RowSteps
    BY DEF StateSteps, RowSteps
  <1>1. Due(c, "insert") /\ UNCHANGED <<clock, begun, issued>>
        /\ state' = [state EXCEPT ![b] = Append(state[b], row)]
        /\ call' = [call EXCEPT ![c] = [k EXCEPT !.row = Len(Rows(c)) + 1, !.stamp = 0, !.todo = Rest(c)]]
    BY Zenon DEF InsertState
  <1>2. b \in Books /\ Rows(c) \in Seq(Row) /\ Rows(c) = state[b]
    BY <1>0, <1>1, StateCall DEF Rows
  <1>3. row \in Row
    <2>1. k.stamp \in Nat /\ k.n \in Nat
      BY Current, Zenon DEF Call
    <2>2. begun \in Nat
      BY Current
    <2>3. [s \in Sides |-> -1] \in [Sides -> Int]
      OBVIOUS
    <2>4. (k.stamp =< issued) \in BOOLEAN
      OBVIOUS
    <2>5. "ReadyToRead" \in Statuses /\ 0 \in Nat
      BY DEF Statuses
    <2> QED
      BY <2>1, <2>2, <2>3, <2>4, <2>5, Zenon DEF NewState, Row
  <1> HIDE DEF row
  <1>4. Append(state[b], row) \in Seq(Row) /\ Len(Append(state[b], row)) = Len(state[b]) + 1
        /\ Len(state[b]) \in Nat
    BY <1>2, <1>3
  <1>5. /\ state' \in [Books -> Seq(Row)]
        /\ \A x \in Books : Len(state'[x]) >= Len(state[x])
        /\ Len(state'[b]) = Len(state[b]) + 1
    <2> HIDE DEF b
    <2>1. state \in [Books -> Seq(Row)]
      BY Current
    <2>2. state' \in [Books -> Seq(Row)]
      BY <1>1, <1>2, <1>4, <2>1
    <2>3. Len(state'[b]) = Len(state[b]) + 1
      BY <1>1, <1>2, <1>4, <2>1
    <2>4. \A x \in Books : x # b => state'[x] = state[x]
      BY <1>1, <2>1
    <2> QED
      BY <1>4, <2>1, <2>2, <2>3, <2>4
  <1>6. u \in Call /\ CallOK(u, state', begun)
    <2>1. Len(Rows(c)) + 1 \in Nat
      BY <1>2, <1>4
    <2>2. Len(Rows(c)) + 1 \in 1..Len(state'[Book(c)])
      BY <1>2, <1>4, <1>5
    <2> QED
      BY <1>0, <1>1, <2>1, <2>2, RestCall
  <1>7. v \in Call
    BY <1>6, Zenon DEF Call
  <1>8. /\ v.phase = u.phase /\ v.route = u.route /\ v.todo = u.todo /\ v.device = u.device
        /\ v.n = u.n /\ v.books = u.books /\ v.row = u.row
    BY <1>6, Zenon DEF Call
  <1>9. u.phase # "idle"
    <2>1. k \in Call /\ k.phase = "local"
      BY <1>0, <1>1, StateCall, Current
    <2> QED
      BY <2>1, Zenon DEF Call
  <1>10. CallOK(v, state', begun)
    <2> HIDE DEF u, v
    <2> QED
      BY <1>6, <1>8, <1>9, Zenon DEF CallOK
  <1>11. call' = [call EXCEPT ![c] = v]
    <2>1. k \in Call
      BY Current
    <2>2. [k EXCEPT !.row = Len(Rows(c)) + 1, !.stamp = 0, !.todo = Rest(c)] = v
      BY <2>1, Zenon DEF Call
    <2> QED
      BY <1>1, <2>2
  <1> HIDE DEF v
  <1> QED
    BY <1>1, <1>5, <1>7, <1>10, <1>11, RowStep

LEMMA SeekStep ==
  ASSUME TypeOK, StepsOK, NEW c \in Calls, NEW side, NEW seek \in RowSteps, NEW insert \in RowSteps,
         Seek(c, side, seek, insert), UNCHANGED <<token, device, faults>>
  PROVE  TypeOK' /\ StepsOK'
  <1>1. Due(c, seek) /\ UNCHANGED <<clock, begun, state, issued>>
        /\ (Follow(c, Rest(c)) \/ Follow(c, <<insert>> \o Rest(c)))
    BY Zenon DEF Seek
  <1>2. seek \in StateSteps /\ insert \in StateSteps
    BY DEF StateSteps
  <1>3. /\ call[c].phase = "local" /\ call[c].route \in StateRoutes /\ call[c].todo # <<>>
        /\ Rest(c) \in Seq(StateSteps) /\ call[c].todo \in Seq(StateSteps)
        /\ call[c].row \in 1..Len(state[Head(call[c].books)])
    BY <1>1, <1>2, StateCall DEF Rows, Book
  <1>4. PICK todo \in Seq(StateSteps) : Follow(c, todo)
    <2>1. <<insert>> \o Rest(c) \in Seq(StateSteps)
      BY <1>2, <1>3, InsertTodo DEF Rest
    <2> QED
      BY <1>1, <1>3, <2>1
  <1>5. todo \in Seq(Statements) /\ TodoOK(call[c].route, todo)
    BY <1>3, StateTodo
  <1>6. call' = [call EXCEPT ![c] = [call[c] EXCEPT !.todo = todo]]
    BY <1>4, Zenon DEF Follow
  <1> QED
    BY <1>1, <1>3, <1>5, <1>6, TodoCall, Current, CallStep

(* A row step that replaces its row. *)
LEMMA WriteStep ==
  ASSUME TypeOK, StepsOK, NEW c \in Calls, NEW s \in RowSteps, NEW row \in Row,
         Due(c, s), state' = [state EXCEPT ![Book(c)][call[c].row] = row],
         Follow(c, Rest(c)), UNCHANGED <<clock, begun, issued, token, device, faults>>
  PROVE  TypeOK' /\ StepsOK'
  <1> DEFINE k == call[c]
             b == Book(c)
  <1>1. s \in StateSteps
    BY DEF StateSteps
  <1>2. b \in Books /\ k.row \in 1..Len(state[b])
    BY <1>1, StateCall DEF Rows
  <1>3. state \in [Books -> Seq(Row)]
    BY Current
  <1>4. state' \in [Books -> Seq(Row)] /\ \A x \in Books : Len(state'[x]) = Len(state[x])
    BY <1>2, <1>3, RowChanged
  <1>5. \A x \in Books : Len(state'[x]) >= Len(state[x])
    BY <1>3, <1>4
  <1> DEFINE v == [k EXCEPT !.row = k.row, !.todo = Rest(c)]
  <1>6. call' = [call EXCEPT ![c] = v] /\ k.row \in Nat
    BY FollowRest
  <1>7. k.row \in 1..Len(state'[Book(c)])
    BY <1>2, <1>4
  <1>8. v \in Call /\ CallOK(v, state', begun)
    BY <1>1, <1>6, <1>7, RestCall
  <1> HIDE DEF v
  <1> QED
    BY <1>4, <1>5, <1>6, <1>8, RowStep

(* Both writes of a side. *)
LEMMA SideStep ==
  ASSUME TypeOK, StepsOK, NEW c \in Calls, NEW side \in Sides, NEW s \in RowSteps, NEW t \in Nat,
         Due(c, s), state' = [state EXCEPT ![Book(c)][call[c].row].side[side] = t],
         Follow(c, Rest(c)), UNCHANGED <<clock, begun, issued, token, device, faults>>
  PROVE  TypeOK' /\ StepsOK'
  <1> DEFINE k == call[c]
             b == Book(c)
             old == state[b][k.row]
             new == [old EXCEPT !.side[side] = t]
  <1>1. s \in StateSteps
    BY DEF StateSteps
  <1>2. b \in Books /\ k.row \in 1..Len(state[b]) /\ state[b] \in Seq(Row)
    BY <1>1, StateCall DEF Rows
  <1>4. old \in Row
    BY <1>2
  <1>5. new \in Row
    <2>1. old.side \in [Sides -> Int]
      BY <1>4, Zenon DEF Row
    <2>2. [old.side EXCEPT ![side] = t] \in [Sides -> Int]
      BY <2>1
    <2>3. new = [old EXCEPT !.side = [old.side EXCEPT ![side] = t]]
      BY Zenon
    <2> QED
      BY <1>4, <2>2, <2>3, Zenon DEF Row
  <1>6. state' = [state EXCEPT ![b][k.row] = new]
    BY Zenon
  <1> HIDE DEF new
  <1> QED
    BY <1>5, <1>6, WriteStep

LEMMA InsertSideStep ==
  ASSUME TypeOK, StepsOK, NEW c \in Calls, NEW side \in Sides, NEW s \in RowSteps,
         InsertSide(c, side, s), UNCHANGED <<token, device, faults>>
  PROVE  TypeOK' /\ StepsOK'
  <1>1. Due(c, s) /\ UNCHANGED <<clock, begun, issued>>
    BY DEF InsertSide
  <1>2. CASE Refuse(c) /\ UNCHANGED state
    <2>1. s \in StateSteps
      BY DEF StateSteps
    <2>2. call[c].phase # "idle" /\ call[c].device # "none"
      BY <1>1, <2>1, StateCall, Bounds
    <2> QED
      BY <1>1, <1>2, <2>2, RefuseCall, Current, CallStep
  <1>3. CASE /\ state' = [state EXCEPT ![Book(c)][call[c].row].side[side] = 0]
             /\ Follow(c, Rest(c))
    BY <1>1, <1>3, SideStep
  <1> QED
    BY <1>2, <1>3, Zenon DEF InsertSide

LEMMA UpdateStatusStep ==
  ASSUME TypeOK, StepsOK, NEW c \in Calls, UpdateStatus(c), UNCHANGED <<token, device, faults>>
  PROVE  TypeOK' /\ StepsOK'
  <1> DEFINE k == call[c]
             b == Book(c)
             old == state[b][k.row]
             next == StatusOrDefault(k.put.status)
             times == k.times + (IF Begins(c) THEN 1 ELSE 0)
             starts == old.starts + (IF next = "Reading" /\ old.status # "Reading" THEN 1 ELSE 0)
             late == k.at =< issued
             new == [old EXCEPT !.status = next, !.at = k.at, !.times = times,
                                !.starts = starts, !.late = late]
  <1>0. "status" \in RowSteps /\ "status" \in StateSteps
    BY DEF StateSteps, RowSteps
  <1>1. Due(c, "status") /\ Follow(c, Rest(c)) /\ UNCHANGED <<clock, begun, issued>>
        /\ state' = [state EXCEPT ![b][k.row] = new]
    BY DEF UpdateStatus, Rows
  <1>2. b \in Books /\ k.row \in 1..Len(state[b]) /\ state[b] \in Seq(Row)
    BY <1>0, <1>1, StateCall DEF Rows
  <1>3. k.at \in Nat
    BY Current
  <1>4. old \in Row
    BY <1>2
  <1>5. new \in Row
    <2>1. old.starts \in Nat /\ k.times \in Nat
      BY <1>4, Current, Zenon DEF Row, Call
    <2>2. times \in Nat /\ starts \in Nat
      BY <2>1
    <2>3. next \in Statuses
      BY DEF StatusOrDefault, Statuses
    <2>4. late \in BOOLEAN
      OBVIOUS
    <2> HIDE DEF times, starts, next, late
    <2> QED
      BY <1>3, <1>4, <2>2, <2>3, <2>4, Zenon DEF Row
  <1> HIDE DEF new
  <1> QED
    BY <1>0, <1>1, <1>5, WriteStep

LEMMA ReadStep ==
  ASSUME TypeOK, StepsOK, NEW c \in Calls, Read(c), UNCHANGED <<token, device, faults>>
  PROVE  TypeOK' /\ StepsOK'
  <1> DEFINE k == call[c]
             b == Book(c)
             row == Rows(c)[k.row]
             shown == [k.shown EXCEPT ![b] = row.at]
             seen == [k EXCEPT !.shown = shown]
             more == IF Len(k.books) > 1 THEN Contact ELSE <<>>
             gets == [seen EXCEPT !.books = Tail(k.books), !.todo = more]
             puts == [seen EXCEPT !.status = row.status, !.times = row.times, !.todo = Rest(c)]
  <1>0. "read" \in RowSteps /\ "read" \in StateSteps /\ "find" \notin RowSteps
    BY DEF StateSteps, RowSteps
  <1>1. Due(c, "read") /\ UNCHANGED <<clock, begun, state, issued>>
    BY DEF Read
  <1>2. call' = [call EXCEPT ![c] = IF k.route = "GET state" THEN gets ELSE puts]
    <2>1. [k EXCEPT !.shown[b] = row.at] = seen
      BY Zenon
    <2> QED
      BY <2>1, Zenon DEF Read
  <1>3. /\ k.phase = "local" /\ k.route \in StateRoutes /\ k.todo # <<>>
        /\ Rest(c) \in Seq(StateSteps) /\ k.books # <<>> /\ b \in Books /\ Rows(c) \in Seq(Row)
        /\ k.row \in 1..Len(Rows(c))
    BY <1>0, <1>1, StateCall
  <1>4. k \in Call /\ CallOK(k, state, begun) /\ k.books \in Seq(Books) /\ k.shown \in [Books -> Nat]
    BY Current
  <1>5. row \in Row
    BY <1>3
  <1>6. row.status \in Statuses /\ row.times \in Nat /\ row.at \in Nat
    BY <1>5, Zenon DEF Row
  <1>7. shown \in [Books -> Nat]
    BY <1>4, <1>6
  <1>8. seen \in Call
    <2> HIDE DEF shown
    <2> QED
      BY <1>4, <1>7, Zenon DEF Call
  <1>9. CASE k.route = "GET state"
    <2>1. /\ more \in Seq(StateSteps) /\ (more # <<>> => Head(more) = "find")
          /\ (more # <<>> => Len(k.books) > 1)
      BY ContactTodo, ShortSeq
    <2>2. more \in Seq(Statements) /\ TodoOK(k.route, more)
      <3> HIDE DEF more
      <3> QED
        BY <1>3, <2>1, StateTodo
    <2>3. Tail(k.books) \in Seq(Books) /\ (more # <<>> => Tail(k.books) # <<>>)
      BY <1>3, <1>4, <2>1, HeadTailProperties, TailSome
    <2>4. gets \in Call
      <3> HIDE DEF seen, more
      <3> QED
        BY <1>8, <2>2, <2>3, Zenon DEF Call
    <2>5. /\ gets.phase = k.phase /\ gets.route = k.route /\ gets.todo = more
          /\ gets.device = k.device /\ gets.n = k.n /\ gets.books = Tail(k.books)
      <3> HIDE DEF shown, more
      <3> QED
        BY <1>4, Zenon DEF Call
    <2>6. CallOK(gets, state, begun)
      <3> HIDE DEF gets, more
      <3> QED
        BY <1>0, <1>3, <1>4, <2>1, <2>2, <2>3, <2>5, Zenon DEF CallOK
    <2>7. call' = [call EXCEPT ![c] = gets]
      BY <1>2, <1>9
    <2> HIDE DEF gets
    <2> QED
      BY <1>1, <2>4, <2>6, <2>7, Current, CallStep
  <1>10. CASE k.route # "GET state"
    <2>1. Rest(c) \in Seq(Statements) /\ TodoOK(k.route, Rest(c))
      BY <1>3, StateTodo
    <2>2. puts \in Call
      <3>1. row.status \in Statuses \cup {NoStatus}
        BY <1>6, Zenon
      <3> HIDE DEF seen
      <3> QED
        BY <1>6, <1>8, <2>1, <3>1, Zenon DEF Call
    <2>3. /\ puts.phase = k.phase /\ puts.route = k.route /\ puts.todo = Rest(c)
          /\ puts.device = k.device /\ puts.n = k.n /\ puts.books = k.books /\ puts.row = k.row
      <3> HIDE DEF shown
      <3> QED
        BY <1>4, Zenon DEF Call
    <2>4. k.row \in 1..Len(state[Head(k.books)])
      BY <1>3, Zenon DEF Rows, Book
    <2>5. CallOK(puts, state, begun)
      <3> HIDE DEF puts
      <3> QED
        BY <1>3, <1>4, <2>1, <2>3, <2>4, Zenon DEF CallOK
    <2>6. call' = [call EXCEPT ![c] = puts]
      BY <1>2, <1>10
    <2> HIDE DEF puts
    <2> QED
      BY <1>1, <2>2, <2>5, <2>6, Current, CallStep
  <1> QED
    BY <1>9, <1>10

(* No time lies ahead of the clock. *)
TimesOK ==
  /\ \A b \in Books : \A i \in DOMAIN state[b] : state[b][i].at =< clock
  /\ \A c \in Calls : call[c].at =< clock /\ call[c].stamp =< clock

LEMMA SelectStep ==
  ASSUME TypeOK, StepsOK, TimesOK, NEW c \in Calls, SelectStates(c), UNCHANGED <<token, device, faults>>
  PROVE  TypeOK' /\ StepsOK'
  <1> DEFINE k == call[c]
             changed == {b \in Known : Changed(b, k.token)}
             times == {Last(state[b]).at : b \in changed}
             latest == Latest(times, k.token)
             shown == [b \in Books |-> IF b \in changed THEN Last(state[b]).at ELSE 0]
             v == [k EXCEPT !.shown = shown, !.token = ToSecond(latest), !.todo = Rest(c)]
  <1>1. Due(c, "states") /\ UNCHANGED <<clock, begun, state>>
        /\ issued' = IF latest > issued THEN latest ELSE issued
    BY Zenon DEF SelectStates
  <1>2. \A b \in changed : Last(state[b]) \in Row /\ Last(state[b]).at \in Nat /\ Last(state[b]).at =< clock
    <2> SUFFICES ASSUME NEW b \in changed
                 PROVE  Last(state[b]) \in Row /\ Last(state[b]).at \in Nat /\ Last(state[b]).at =< clock
      OBVIOUS
    <2>1. b \in Books /\ state[b] # <<>>
      BY ReadingAssumption, Zenon DEF Changed
    <2>2. state[b] \in Seq(Row)
      BY <2>1, Current
    <2>3. Len(state[b]) \in 1..Len(state[b]) /\ DOMAIN state[b] = 1..Len(state[b])
      BY <2>1, <2>2
    <2>4. Last(state[b]) \in Row
      BY <2>2, <2>3 DEF Last
    <2>5. Last(state[b]).at \in Nat
      BY <2>4, Zenon DEF Row
    <2>6. Last(state[b]).at =< clock
      BY <2>1, <2>3, Zenon DEF Last, TimesOK
    <2> QED
      BY <2>4, <2>5, <2>6
  <1>3. latest \in Nat
    <2> DEFINE N == IF clock > k.token THEN clock ELSE k.token
    <2>1. clock \in Nat /\ k.token \in Nat
      BY Current
    <2>2. N \in Nat /\ clock =< N /\ k.token \in 0..N
      BY <2>1
    <2> HIDE DEF N, changed
    <2>3. times \subseteq 0..N
      BY <1>2, <2>1, <2>2
    <2> HIDE DEF times
    <2>4. latest \in times \cup {k.token}
      BY <2>2, <2>3, LatestIs
    <2> HIDE DEF latest
    <2>5. latest \in 0..N
      BY <2>2, <2>3, <2>4, Zenon
    <2> QED
      BY <2>2, <2>5
  <1> HIDE DEF latest
  <1>4. ToSecond(latest) \in Nat
    BY <1>3, SecondIs
  <1>5. shown \in [Books -> Nat]
    <2> HIDE DEF changed
    <2> QED
      BY <1>2
  <1>6. issued' \in Nat
    BY <1>1, <1>3, Current
  <1>7. k.route = "sync" /\ k.phase = "local" /\ Rest(c) = <<>>
    <2>1. k.route = "sync" /\ k.phase = "local"
      BY <1>1, DueStep, Zenon
    <2>2. k.todo = <<"states">>
      BY <1>1, <2>1, DueStep DEF TodoOK
    <2> QED
      BY <2>1, <2>2, HeadOf DEF Rest
  <1>8. k \in Call /\ CallOK(k, state, begun)
    BY Current
  <1>9. Rest(c) \in Seq(Statements) /\ TodoOK("sync", <<>>)
    BY <1>7, ShortSeq DEF TodoOK, StateRoutes
  <1> HIDE DEF shown
  <1>10. v \in Call
    BY <1>4, <1>5, <1>8, <1>9, Zenon DEF Call
  <1>11. /\ v.phase = k.phase /\ v.route = k.route /\ v.todo = <<>> /\ v.device = k.device /\ v.n = k.n
    BY <1>7, <1>8, Zenon DEF Call
  <1>12. CallOK(v, state, begun)
    <2> HIDE DEF v
    <2> QED
      BY <1>7, <1>8, <1>9, <1>11, Zenon DEF CallOK
  <1>13. call' = [call EXCEPT ![c] = v]
    BY Zenon DEF SelectStates, shown, latest
  <1> HIDE DEF v
  <1> QED
    BY <1>1, <1>6, <1>10, <1>12, <1>13, Current, CallStep

(* The steps of Next, for the proofs below. *)
LEMMA StatementStep ==
  ASSUME TypeOK, StepsOK, TimesOK, NEW c \in Calls, Statement(c), UNCHANGED <<token, device, faults>>
  PROVE  TypeOK' /\ StepsOK'
  <1>1. /\ "bookmark" \in Sides /\ "statistics" \in Sides
        /\ {"seekBookmark", "insertBookmark", "seekStatistics", "insertStatistics"} \subseteq RowSteps
        /\ Sides \subseteq RowSteps
    BY DEF Sides, RowSteps
  <1>2. CASE \E side \in Sides : UpdateSide(c, side)
    <2>1. PICK side \in Sides : UpdateSide(c, side)
      BY <1>2
    <2>2. call[c].at \in Nat
      BY Current
    <2>3. /\ Due(c, side) /\ Follow(c, Rest(c)) /\ UNCHANGED <<clock, begun, issued>>
          /\ state' = [state EXCEPT ![Book(c)][call[c].row].side[side] = call[c].at]
      BY <2>1 DEF UpdateSide
    <2> QED
      BY <1>1, <2>2, <2>3, SideStep
  <1>3. CASE Find(c)
    BY <1>3, FindStep
  <1>4. CASE InsertState(c)
    BY <1>4, InsertStep
  <1>5. CASE Read(c)
    BY <1>5, ReadStep
  <1>6. CASE UpdateStatus(c)
    BY <1>6, UpdateStatusStep
  <1>7. CASE SelectStates(c)
    BY <1>7, SelectStep
  <1>8. CASE Seek(c, "bookmark", "seekBookmark", "insertBookmark")
    BY <1>1, <1>8, SeekStep
  <1>9. CASE Seek(c, "statistics", "seekStatistics", "insertStatistics")
    BY <1>1, <1>9, SeekStep
  <1>10. CASE InsertSide(c, "bookmark", "insertBookmark")
    BY <1>1, <1>10, InsertSideStep
  <1>11. CASE InsertSide(c, "statistics", "insertStatistics")
    BY <1>1, <1>11, InsertSideStep
  <1> QED
    BY <1>2, <1>3, <1>4, <1>5, <1>6, <1>7, <1>8, <1>9, <1>10, <1>11 DEF Statement

LEMMA TypeStep ==
  ASSUME TypeOK, StepsOK, TimesOK, [Next]_vars
  PROVE  TypeOK' /\ StepsOK'
  <1>1. CASE UNCHANGED vars
    BY <1>1 DEF vars, readingVars, TypeOK, StepsOK
  <1>2. ASSUME NEW c \in Calls, Request(c) PROVE TypeOK' /\ StepsOK'
    BY <1>2, RequestStep
  <1>3. ASSUME NEW c \in Calls, Work(c) PROVE TypeOK' /\ StepsOK'
    BY <1>3, ServedStep, AuthenticateStep, AnswerTaken, TokenStep, BookStep, StatementStep DEF Work
  <1>4. ASSUME NEW c \in Calls, Fault(c) \/ Die(c) PROVE TypeOK' /\ StepsOK'
    BY <1>4, FaultStep
  <1>5. ASSUME NEW d \in Devices, GiveUp(d) PROVE TypeOK' /\ StepsOK'
    BY <1>5, GiveUpStep
  <1> QED
    BY <1>1, <1>2, <1>3, <1>4, <1>5 DEF Next

LEMMA InitType ==
  ASSUME Init
  PROVE  TypeOK /\ StepsOK /\ TimesOK
  <1>1. clock = 1 /\ begun = 0 /\ issued = 0 /\ faults = 0
    BY DEF Init
  <1>2. call = [c \in Calls |-> Idle]
    BY DEF Init
  <1> DEFINE row == [status |-> "ReadyToRead", times |-> 0, at |-> 1, side |-> [s \in Sides |-> 0],
                     starts |-> 0, owner |-> 0, since |-> 0, late |-> FALSE]
  <1>3. PICK used \in SUBSET Known : state = [b \in Books |-> IF b \in used THEN <<row>> ELSE <<>>]
    BY DEF Init
  <1>4. row \in Row /\ row.at = 1
    <2>1. "ReadyToRead" \in Statuses /\ 0 \in Nat /\ 1 \in Nat /\ [s \in Sides |-> 0] \in [Sides -> Int]
      BY DEF Statuses
    <2> QED
      BY <2>1, Zenon DEF Row
  <1> HIDE DEF row
  <1>5. state \in [Books -> Seq(Row)]
    <2>1. <<row>> \in Seq(Row) /\ <<>> \in Seq(Row)
      BY <1>4, ShortSeq, Zenon
    <2> QED
      BY <1>3, <2>1
  <1>6. \A b \in Books : \A i \in DOMAIN state[b] : state[b][i].at =< clock
    <2> SUFFICES ASSUME NEW b \in Books, NEW i \in DOMAIN state[b] PROVE state[b][i].at =< clock
      OBVIOUS
    <2>1. state[b] = <<row>> \/ state[b] = <<>>
      BY <1>3
    <2>2. DOMAIN <<>> = {} /\ DOMAIN <<row>> = {1} /\ <<row>>[1] = row
      OBVIOUS
    <2>3. state[b][i] = row
      BY <2>1, <2>2
    <2> QED
      BY <1>1, <1>4, <2>3
  <1>7. call \in [Calls -> Call] /\ StepsOK
    <2>1. 0 \in Nat
      OBVIOUS
    <2> QED
      BY <1>1, <1>2, <2>1, IdleCall DEF StepsOK
  <1>8. Idle.at = 0 /\ Idle.stamp = 0
    BY Zenon DEF Idle
  <1>9. TimesOK
    BY <1>1, <1>2, <1>6, <1>8 DEF TimesOK
  <1>10. token \in Seq(Token)
    <2>1. [began |-> 0, made |-> 0, revoked |-> 0] \in Token
      BY DEF Token
    <2> QED
      BY <2>1, ShortSeq, Zenon DEF Init
  <1>11. device \in [Devices -> Device]
    <2>1. [b \in Books |-> 0] \in [Books -> Nat]
      OBVIOUS
    <2>2. NewDevice \in Device
      BY <2>1 DEF NewDevice, Device
    <2> QED
      BY <2>2 DEF Init
  <1> QED
    BY <1>1, <1>5, <1>7, <1>9, <1>10, <1>11, Bounds DEF TypeOK

-----------------------------------------------------------------------------
(* What a step of a call that a device waits for leaves of the call.  A call that  *)
(* is answered keeps its source, no other has one of "unauthorized" but from the    *)
(* look for its token, and only the store's answer changes the store's token.      *)
Kept(k, v, now) ==
  /\ v.n = k.n /\ v.device = k.device /\ v.auth = k.auth
  /\ v.phase \notin {"idle", "auth"}
  /\ v.at \in {0, k.at, now} /\ v.stamp \in {0, k.stamp, now}
  /\ \/ v.source = k.source
     \/ v.phase = "log" /\ k.phase \notin {"log", "answer"}
        /\ (v.source = "unauthorized" => k.phase = "auth")
  /\ v.phase = "answer" <=> k.phase \in {"log", "answer"}
  /\ v.route \in {"none", k.route}
  /\ v.route = "sync" => v.raw \in {k.raw, k.n}

(* A call with only fields of its work changed. *)
LEMMA SameKept ==
  ASSUME NEW k, NEW v, NEW now,
         v.n = k.n, v.device = k.device, v.auth = k.auth, v.source = k.source, v.route = k.route,
         v.raw = k.raw, v.phase \notin {"idle", "auth"},
         v.phase = "answer" <=> k.phase \in {"log", "answer"},
         v.at \in {0, k.at, now}, v.stamp \in {0, k.stamp, now}
  PROVE  Kept(k, v, now)
  BY Zenon DEF Kept

LEMMA AnsweredKept ==
  ASSUME NEW c \in Calls, NEW v, NEW source, NEW raw, NEW now, Answered(call[c], v, source, raw), v # Idle,
         call[c].phase \notin {"log", "answer"},
         source = "local" => raw \in {call[c].raw, call[c].n},
         source = "unauthorized" => call[c].phase = "auth"
  PROVE  Kept(call[c], v, now)
  <1>1. v.phase \notin {"idle", "auth", "answer"}
    BY DEF Answered
  <1>2. v.route = "sync" => v.raw \in {call[c].raw, call[c].n}
    BY DEF Answered
  <1> QED
    BY <1>1, <1>2 DEF Answered, Kept

LEMMA FinishKept ==
  ASSUME TypeOK, StepsOK, NEW c \in Calls, NEW source \in Sources, NEW raw \in Nat,
         Finish(c, source, raw), call[c].phase \notin {"idle", "log", "answer"},
         source = "local" => raw \in {call[c].raw, call[c].n},
         source = "unauthorized" => call[c].phase = "auth", call'[c] # Idle
  PROVE  Kept(call[c], call'[c], clock')
  <1>1. call \in [Calls -> Call] /\ CallOK(call[c], state, begun) /\ begun \in Nat
    BY Current
  <1>2. PICK v \in Call : call' = [call EXCEPT ![c] = v] /\ Answered(call[c], v, source, raw)
    BY <1>1, FinishCall
  <1>3. call'[c] = v
    BY <1>1, <1>2
  <1> QED
    BY <1>2, <1>3, AnsweredKept

LEMMA RefuseKept ==
  ASSUME TypeOK, StepsOK, NEW c \in Calls, Refuse(c), call[c].device # "none", call[c].phase = "local"
  PROVE  Kept(call[c], call'[c], clock')
  <1>1. PICK v \in Call : /\ call' = [call EXCEPT ![c] = v]
                          /\ v.phase = "refused" /\ v.n = call[c].n /\ v.auth = call[c].auth
                          /\ v.device = call[c].device /\ v.source = call[c].source
                          /\ v.raw = call[c].raw /\ v.route = call[c].route
                          /\ v.at = call[c].at /\ v.stamp = call[c].stamp
    BY RefuseCall
  <1>2. call'[c] = v
    BY <1>1, Current
  <1>3. v.phase \notin {"idle", "auth", "answer"} /\ call[c].phase \notin {"log", "answer"}
    BY <1>1
  <1> QED
    BY <1>1, <1>2, <1>3, SameKept, Zenon

(* The same call in another phase, and with another todo. *)
LEMMA PhaseKept ==
  ASSUME TypeOK, StepsOK, NEW c \in Calls, NEW phase \in {"local", "store", "answer"},
         phase = "answer" <=> call[c].phase \in {"log", "answer"},
         call' = [call EXCEPT ![c].phase = phase]
  PROVE  Kept(call[c], call'[c], clock')
  <1>1. call \in [Calls -> Call] /\ call[c] \in Call
    BY Current
  <1> DEFINE v == call'[c]
  <1>2. v = [call[c] EXCEPT !.phase = phase]
    BY <1>1, Zenon
  <1>3. /\ v.phase = phase /\ v.n = call[c].n /\ v.auth = call[c].auth
        /\ v.device = call[c].device /\ v.source = call[c].source
        /\ v.raw = call[c].raw /\ v.route = call[c].route
        /\ v.at = call[c].at /\ v.stamp = call[c].stamp
    BY <1>1, <1>2, Zenon DEF Call
  <1>4. phase \notin {"idle", "auth"}
    OBVIOUS
  <1> HIDE DEF v
  <1> QED
    BY <1>3, <1>4, SameKept, Zenon DEF v

LEMMA TodoKept ==
  ASSUME TypeOK, StepsOK, NEW c \in Calls, call[c].phase = "local",
         NEW todo, call' = [call EXCEPT ![c] = [call[c] EXCEPT !.todo = todo]]
  PROVE  Kept(call[c], call'[c], clock')
  <1>1. call \in [Calls -> Call] /\ call[c] \in Call
    BY Current
  <1> DEFINE v == call'[c]
  <1>2. v = [call[c] EXCEPT !.todo = todo]
    BY <1>1
  <1>3. /\ v.phase = call[c].phase /\ v.n = call[c].n /\ v.auth = call[c].auth
        /\ v.device = call[c].device /\ v.source = call[c].source
        /\ v.raw = call[c].raw /\ v.route = call[c].route
        /\ v.at = call[c].at /\ v.stamp = call[c].stamp
    BY <1>1, <1>2, Zenon DEF Call
  <1>4. v.phase \notin {"idle", "auth", "answer"} /\ call[c].phase \notin {"log", "answer"}
    BY <1>3
  <1> HIDE DEF v
  <1> QED
    BY <1>3, <1>4, SameKept, Zenon DEF v

LEMMA ServedKept ==
  ASSUME TypeOK, StepsOK, NEW c \in Calls, call'[c] # Idle,
         Served(c) \/ Refused(c) \/ Proxy(c) \/ LogCall(c) \/ Authenticate(c) \/ Answer(c)
  PROVE  Kept(call[c], call'[c], clock')
  <1> DEFINE k == call[c]
  <1>0. {"local", "store", "error", "unauthorized"} \subseteq Sources /\ 0 \in Nat /\ k.raw \in Nat /\ k.n \in Nat
    BY Current DEF Sources
  <1>1. CASE Served(c)
    <2>1. k.phase = "local"
      BY <1>1 DEF Served, Serving
    <2>2. CASE Finish(c, "local", k.raw)
      BY <1>0, <2>1, <2>2, FinishKept
    <2>3. CASE call' = [call EXCEPT ![c].phase = "store"]
      BY <2>1, <2>3, PhaseKept
    <2> QED
      BY <1>1, <2>2, <2>3 DEF Served
  <1>2. CASE Refused(c)
    <2>1. k.phase = "refused"
      BY <1>2 DEF Refused
    <2>2. CASE Finish(c, "error", 0)
      BY <1>0, <2>1, <2>2, FinishKept
    <2>3. CASE call' = [call EXCEPT ![c].phase = "store"]
      BY <2>1, <2>3, PhaseKept
    <2> QED
      BY <1>2, <2>2, <2>3 DEF Refused
  <1>3. CASE Proxy(c)
    <2>1. k.phase = "store"
      BY <1>3 DEF Proxy
    <2>2. PICK source \in {"local", "store", "error"}, raw \in {k.n, k.raw} : Finish(c, source, raw)
      BY <1>3 DEF Proxy, RawAfterFailure
    <2> QED
      BY <1>0, <2>1, <2>2, FinishKept
  <1>4. CASE LogCall(c)
    BY <1>4, PhaseKept DEF LogCall
  <1>5. CASE Answer(c)
    BY <1>5, Current DEF Answer
  <1>6. CASE Authenticate(c)
    <2>1. k.phase = "auth"
      BY <1>6 DEF Authenticate
    <2>2. CASE Finish(c, "unauthorized", 0)
      BY <1>0, <2>1, <2>2, FinishKept
    <2>3. CASE call' = [call EXCEPT ![c].at = clock',
                 ![c].phase = IF k.route \in StoreFirst THEN "store" ELSE "local"]
      <3> DEFINE phase == IF k.route \in StoreFirst THEN "store" ELSE "local"
                 v == call'[c]
      <3>1. v = [k EXCEPT !.at = clock', !.phase = phase]
        BY <2>3, Current, Zenon
      <3>2. k \in Call
        BY Current
      <3>3. /\ v.phase = phase /\ v.n = k.n /\ v.auth = k.auth /\ v.device = k.device
            /\ v.source = k.source /\ v.raw = k.raw /\ v.route = k.route
            /\ v.at = clock' /\ v.stamp = k.stamp
        <4> HIDE DEF phase
        <4> QED
          BY <3>1, <3>2, Zenon DEF Call
      <3>4. v.phase \notin {"idle", "auth", "answer"} /\ k.phase \notin {"log", "answer"}
        BY <2>1, <3>3
      <3> HIDE DEF v
      <3> QED
        BY <3>3, <3>4, SameKept, Zenon DEF v
    <2> QED
      BY <1>6, <2>2, <2>3 DEF Authenticate
  <1> QED
    BY <1>1, <1>2, <1>3, <1>4, <1>5, <1>6

LEMMA BookKept ==
  ASSUME TypeOK, StepsOK, NEW c \in Calls, call'[c] # Idle, Metadata(c) \/ Download(c) \/ Cover(c)
  PROVE  Kept(call[c], call'[c], clock')
  <1> DEFINE k == call[c]
  <1>1. PICK s \in {"files", "file", "cover"} : Due(c, s)
    BY DEF Metadata, Download, Cover
  <1>2. k.phase = "local" /\ k.route \in {"GET metadata", "local"}
    BY <1>1, DueStep
  <1>3. k.device # "none"
    BY <1>2, Current DEF CallOK, TokenRoutes
  <1>4. CASE Refuse(c)
    BY <1>2, <1>3, <1>4, RefuseKept
  <1>5. CASE Follow(c, <<>>)
    <2>1. call' = [call EXCEPT ![c] = [k EXCEPT !.todo = <<>>]]
      BY <1>5, Zenon DEF Follow
    <2> QED
      BY <1>2, <2>1, TodoKept
  <1>6. CASE Finish(c, "store", 0)
    <2>1. "store" \in Sources /\ 0 \in Nat
      BY DEF Sources
    <2> QED
      BY <1>2, <1>6, <2>1, FinishKept
  <1>7. CASE call' = [call EXCEPT ![c].books = Tail(@),
                                  ![c].todo = IF Len(call[c].books) > 1 THEN @ ELSE <<>>]
    <2> DEFINE todo == IF Len(k.books) > 1 THEN k.todo ELSE <<>>
               v == call'[c]
    <2>1. v = [k EXCEPT !.books = Tail(k.books), !.todo = todo]
      BY <1>7, Current, Zenon
    <2>2. k \in Call
      BY Current
    <2>3. /\ v.phase = k.phase /\ v.n = k.n /\ v.auth = k.auth /\ v.device = k.device
          /\ v.source = k.source /\ v.raw = k.raw /\ v.route = k.route
          /\ v.at = k.at /\ v.stamp = k.stamp
      <3> HIDE DEF todo
      <3> QED
        BY <2>1, <2>2, Zenon DEF Call
    <2>4. v.phase \notin {"idle", "auth", "answer"} /\ k.phase \notin {"log", "answer"}
      BY <1>2, <2>3
    <2> HIDE DEF v
    <2> QED
      BY <2>3, <2>4, SameKept, Zenon DEF v
  <1> QED
    BY <1>4, <1>5, <1>6, <1>7, Zenon DEF Metadata, Download, Cover

LEMMA FaultKept ==
  ASSUME TypeOK, StepsOK, NEW c \in Calls, call'[c] # Idle, Fault(c) \/ Die(c)
  PROVE  Kept(call[c], call'[c], clock')
  <1> DEFINE k == call[c]
  <1>1. call \in [Calls -> Call]
    BY Current
  <1>2. CASE call' = [call EXCEPT ![c] = Idle]
    BY <1>1, <1>2
  <1>3. CASE k.phase = "auth" /\ Finish(c, "unauthorized", 0)
    <2>1. "unauthorized" \in Sources /\ 0 \in Nat
      BY DEF Sources
    <2> QED
      BY <1>3, <2>1, FinishKept
  <1>4. CASE /\ k.phase = "local"
             /\ call' = [call EXCEPT ![c] = IF @.device = "none" THEN Idle
                                            ELSE [@ EXCEPT !.phase = "refused", !.todo = <<>>]]
    <2>1. k.device # "none"
      BY <1>1, <1>4
    <2>2. Refuse(c)
      <3>1. call' = [call EXCEPT ![c] = [k EXCEPT !.phase = "refused", !.todo = <<>>]]
        BY <1>4, <2>1
      <3> QED
        BY <3>1, Zenon DEF Refuse
    <2> QED
      BY <1>4, <2>1, <2>2, RefuseKept
  <1> QED
    BY <1>2, <1>3, <1>4, Zenon DEF Fault, Die, Serving

Same(k, v) ==
  /\ v.phase = k.phase /\ v.n = k.n /\ v.auth = k.auth /\ v.device = k.device
  /\ v.source = k.source /\ v.raw = k.raw /\ v.route = k.route /\ v.at = k.at

LEMMA WorkKept ==
  ASSUME NEW k, NEW v, NEW now, Same(k, v), v.stamp \in {0, k.stamp, now}, k.phase = "local"
  PROVE  Kept(k, v, now)
  <1>1. v.phase \notin {"idle", "auth", "answer"} /\ k.phase \notin {"log", "answer"}
    BY DEF Same
  <1> QED
    BY <1>1, SameKept, Zenon DEF Same

(* The statements that a call of a reading state is at. *)
LEMMA StatementDue ==
  ASSUME NEW c \in Calls, Statement(c)
  PROVE  \/ \E s \in StateSteps : Due(c, s)
         \/ SelectStates(c)
  <1>1. {"find", "insert", "read", "status", "bookmark", "statistics", "seekBookmark",
         "insertBookmark", "seekStatistics", "insertStatistics"} \subseteq StateSteps
    BY DEF StateSteps, RowSteps
  <1>2. Sides = {"bookmark", "statistics"}
    BY DEF Sides
  <1> QED
    BY <1>1, <1>2, Zenon DEF Statement, Find, InsertState, Read, UpdateStatus, Seek, InsertSide, UpdateSide

LEMMA StatementKept ==
  ASSUME TypeOK, StepsOK, NEW c \in Calls, Statement(c)
  PROVE  Kept(call[c], call'[c], clock') /\ call[c].device # "none"
  <1> DEFINE k == call[c]
             v == call'[c]
  <1>1. k.phase = "local" /\ k.device # "none"
    <2>1. CASE \E s \in StateSteps : Due(c, s)
      BY <2>1, StateCall, Bounds
    <2>2. CASE SelectStates(c)
      <3>1. Due(c, "states")
        BY <2>2 DEF SelectStates
      <3>2. k.phase = "local" /\ k.route = "sync"
        BY <3>1, DueStep, Zenon
      <3> QED
        BY <3>2, Current DEF CallOK, TokenRoutes
    <2> QED
      BY <2>1, <2>2, StatementDue
  <1>2. k \in Call /\ call \in [Calls -> Call]
    BY Current
  <1>3. CASE Refuse(c)
    BY <1>1, <1>3, RefuseKept
  <1>4. CASE \E todo : Follow(c, todo)
    <2>1. PICK todo : Follow(c, todo)
      BY <1>4
    <2>2. call' = [call EXCEPT ![c] = [k EXCEPT !.todo = todo]]
      BY <2>1, Zenon DEF Follow
    <2> QED
      BY <1>1, <2>2, TodoKept
  <1>5. CASE Find(c)
    <2>1. CASE call' = [call EXCEPT ![c].row = 1, ![c].todo = Rest(c)]
      <3>1. v = [k EXCEPT !.row = 1, !.todo = Rest(c)]
        BY <1>2, <2>1, Zenon
      <3>2. Same(k, v) /\ v.stamp = k.stamp
        BY <1>2, <3>1, Zenon DEF Call, Same
      <3> QED
        BY <1>1, <3>2, WorkKept
    <2>2. CASE call' = [call EXCEPT ![c].stamp = clock', ![c].todo = <<"insert">> \o Rest(c)]
      <3>1. v = [k EXCEPT !.stamp = clock', !.todo = <<"insert">> \o Rest(c)]
        BY <1>2, <2>2, Zenon
      <3>2. Same(k, v) /\ v.stamp = clock'
        BY <1>2, <3>1, Zenon DEF Call, Same
      <3> QED
        BY <1>1, <3>2, WorkKept
    <2> QED
      BY <1>1, <1>3, <1>5, <2>1, <2>2, Zenon DEF Find
  <1>6. CASE InsertState(c)
    <2>1. v = [k EXCEPT !.row = Len(Rows(c)) + 1, !.stamp = 0, !.todo = Rest(c)]
      BY <1>2, <1>6, Zenon DEF InsertState
    <2>2. Same(k, v) /\ v.stamp = 0
      BY <1>2, <2>1, Zenon DEF Call, Same
    <2> QED
      BY <1>1, <2>2, WorkKept
  <1>7. CASE Read(c)
    <2> DEFINE row == Rows(c)[k.row]
               seen == [k EXCEPT !.shown[Book(c)] = row.at]
               more == IF Len(k.books) > 1 THEN Contact ELSE <<>>
    <2>1. \/ v = [seen EXCEPT !.books = Tail(k.books), !.todo = more]
          \/ v = [seen EXCEPT !.status = row.status, !.times = row.times, !.todo = Rest(c)]
      BY <1>2, <1>7, Zenon DEF Read
    <2> HIDE DEF row, more
    <2>2. Same(k, v) /\ v.stamp = k.stamp
      BY <1>2, <2>1, Zenon DEF Call, Same
    <2> QED
      BY <1>1, <2>2, WorkKept
  <1>8. CASE SelectStates(c)
    <2>1. PICK shown, t : v = [k EXCEPT !.shown = shown, !.token = t, !.todo = Rest(c)]
      BY <1>2, <1>8, Zenon DEF SelectStates
    <2>2. Same(k, v) /\ v.stamp = k.stamp
      BY <1>2, <2>1, Zenon DEF Call, Same
    <2> QED
      BY <1>1, <2>2, WorkKept
  <1> QED
    <2>1. CASE UpdateStatus(c) \/ \E side \in Sides : UpdateSide(c, side)
      BY <1>1, <1>4, <2>1, Zenon DEF UpdateStatus, UpdateSide
    <2>2. CASE \E side, s, t : Seek(c, side, s, t)
      BY <1>1, <1>4, <2>2, Zenon DEF Seek
    <2>3. CASE \E side, s : InsertSide(c, side, s)
      BY <1>1, <1>3, <1>4, <2>3, Zenon DEF InsertSide
    <2> QED
      BY <1>1, <1>5, <1>6, <1>7, <1>8, <2>1, <2>2, <2>3, Zenon DEF Statement

LEMMA OneChanges ==
  ASSUME TypeOK, StepsOK, NEW c \in Calls, Work(c) \/ Fault(c) \/ Die(c)
  PROVE  /\ \A x \in Calls : x # c => call'[x] = call[x]
         /\ begun' = begun
         /\ TokenStatement(c) \/ token' = token
         /\ call[c].phase # "idle"
  <1>1. call \in [Calls -> Call]
    BY Current
  <1>2. ASSUME NEW v, call' = [call EXCEPT ![c] = v] PROVE \A x \in Calls : x # c => call'[x] = call[x]
    BY <1>1, <1>2
  <1>3. CASE Authenticate(c)
    <2>1. \/ \E source, raw : Finish(c, source, raw)
          \/ \E at, phase : call' = [call EXCEPT ![c].at = at, ![c].phase = phase]
      BY <1>3, Zenon DEF Authenticate
    <2>2. \A x \in Calls : x # c => call'[x] = call[x]
      BY <1>1, <2>1, Zenon DEF Finish
    <2> QED
      BY <1>3, <2>2 DEF Authenticate
  <1>4. CASE Served(c) \/ Refused(c) \/ Proxy(c) \/ LogCall(c) \/ Answer(c)
    <2>1. \/ \E source, raw : Finish(c, source, raw)
          \/ \E phase : call' = [call EXCEPT ![c].phase = phase]
          \/ call' = [call EXCEPT ![c] = Idle]
      BY <1>4, Zenon DEF Served, Refused, Proxy, LogCall, Answer
    <2>2. \A x \in Calls : x # c => call'[x] = call[x]
      BY <1>1, <2>1, Zenon DEF Finish
    <2> QED
      BY <1>4, <2>2 DEF Served, Refused, Proxy, LogCall, Answer, Serving
  <1>5. CASE TokenStatement(c)
    <2>1. \E v : call' = [call EXCEPT ![c] = v]
      BY <1>5, Zenon DEF TokenStatement
    <2>2. \A x \in Calls : x # c => call'[x] = call[x]
      BY <1>1, <2>1, Zenon
    <2> QED
      BY <1>5, <2>2 DEF TokenStatement, Due, Serving
  <1>6. CASE Metadata(c) \/ Download(c) \/ Cover(c)
    <2>1. \/ \E source, raw : Finish(c, source, raw)
          \/ \E books, todo : call' = [call EXCEPT ![c].books = books, ![c].todo = todo]
          \/ \E phase, todo : call' = [call EXCEPT ![c].phase = phase, ![c].todo = todo]
          \/ \E todo : call' = [call EXCEPT ![c].todo = todo]
      BY <1>6, Zenon DEF Metadata, Download, Cover, Follow, Refuse
    <2>2. \A x \in Calls : x # c => call'[x] = call[x]
      BY <1>1, <2>1, Zenon DEF Finish
    <2> QED
      BY <1>6, <2>2 DEF Metadata, Download, Cover, Due, Serving
  <1>7. CASE Statement(c) /\ UNCHANGED <<token, device, faults>>
    <2>0. ASSUME \/ \E phase, todo : call' = [call EXCEPT ![c].phase = phase, ![c].todo = todo]
                 \/ \E todo : call' = [call EXCEPT ![c].todo = todo]
          PROVE  \A x \in Calls : x # c => call'[x] = call[x]
      BY <1>1, <2>0, Zenon
    <2>1. ASSUME \/ UpdateStatus(c) \/ \E side \in Sides : UpdateSide(c, side)
                 \/ \E side, s, t : Seek(c, side, s, t)
                 \/ \E side, s : InsertSide(c, side, s)
          PROVE  \A x \in Calls : x # c => call'[x] = call[x]
      <3>1. \/ \E phase, todo : call' = [call EXCEPT ![c].phase = phase, ![c].todo = todo]
            \/ \E todo : call' = [call EXCEPT ![c].todo = todo]
        BY <2>1, Zenon DEF UpdateStatus, Seek, InsertSide, UpdateSide, Follow, Refuse
      <3> QED
        BY <2>0, <3>1, Zenon
    <2>2. \A x \in Calls : x # c => call'[x] = call[x]
      <3>1. CASE Find(c)
        <4>1. \/ \E phase, todo : call' = [call EXCEPT ![c].phase = phase, ![c].todo = todo]
              \/ \E row, todo : call' = [call EXCEPT ![c].row = row, ![c].todo = todo]
              \/ \E stamp, todo : call' = [call EXCEPT ![c].stamp = stamp, ![c].todo = todo]
          BY <3>1, Zenon DEF Find, Refuse
        <4> QED
          BY <1>1, <4>1, Zenon
      <3>2. CASE InsertState(c)
        BY <1>1, <3>2, Zenon DEF InsertState
      <3>3. CASE Read(c)
        <4>1. \E v : call' = [call EXCEPT ![c] = v]
          BY <3>3, Zenon DEF Read
        <4> QED
          BY <1>1, <4>1, Zenon
      <3>4. CASE SelectStates(c)
        <4>1. \E shown, t, todo : call' = [call EXCEPT ![c].shown = shown, ![c].token = t, ![c].todo = todo]
          BY <3>4, Zenon DEF SelectStates
        <4> QED
          BY <1>1, <4>1, Zenon
      <3> QED
        BY <1>7, <2>1, <3>1, <3>2, <3>3, <3>4, Zenon DEF Statement
    <2>3. call[c].phase # "idle"
      <3>1. call[c].phase = "local"
        BY <1>7, Zenon DEF Statement, Find, InsertState, Read, UpdateStatus, Seek, InsertSide,
           UpdateSide, SelectStates, Due, Serving
      <3> QED
        BY <3>1
    <2>4. begun' = begun
      BY <1>7, Zenon DEF Statement, Find, InsertState, Read, UpdateStatus, Seek, InsertSide,
         UpdateSide, SelectStates
    <2> QED
      BY <1>7, <2>2, <2>3, <2>4
  <1>8. CASE Fault(c) \/ Die(c)
    <2>1. \/ \E source, raw : Finish(c, source, raw)
          \/ \E v : call' = [call EXCEPT ![c] = v]
      BY <1>8, Zenon DEF Fault, Die
    <2>2. \A x \in Calls : x # c => call'[x] = call[x]
      BY <1>1, <2>1, Zenon DEF Finish
    <2> QED
      BY <1>8, <2>2 DEF Fault, Die, Serving
  <1> QED
    BY <1>3, <1>4, <1>5, <1>6, <1>7, <1>8, Zenon DEF Work

LEMMA WorkCall ==
  ASSUME TypeOK, StepsOK, NEW c \in Calls, Work(c) \/ Fault(c) \/ Die(c)
  PROVE  \/ call'[c] = Idle
         \/ TokenStatement(c)
         \/ call[c].device # "none" /\ Kept(call[c], call'[c], clock')
  <1> SUFFICES ASSUME call'[c] # Idle, ~TokenStatement(c)
               PROVE  call[c].device # "none" /\ Kept(call[c], call'[c], clock')
    OBVIOUS
  <1>1. CASE Authenticate(c) \/ Served(c) \/ Refused(c) \/ Proxy(c) \/ LogCall(c) \/ Answer(c)
    <2>1. Kept(call[c], call'[c], clock')
      BY <1>1, ServedKept
    <2>2. CASE Served(c)
      <3>1. call[c].phase = "local" /\ call[c].todo = <<>>
        BY <2>2 DEF Served, Serving
      <3>2. TodoOK(call[c].route, <<>>)
        BY <3>1, Current DEF CallOK
      <3>3. call[c].route \notin TokenRoutes
        BY <3>2 DEF TodoOK, TokenRoutes
      <3> QED
        BY <2>1, <3>1, <3>3, Current DEF CallOK
    <2>3. CASE ~Served(c)
      <3>1. call[c].phase \in {"auth", "refused", "store", "log", "answer"}
        BY <1>1, <2>3, Zenon DEF Authenticate, Refused, Proxy, LogCall, Answer
      <3> QED
        BY <2>1, <3>1, Current DEF CallOK
    <2> QED
      BY <2>2, <2>3
  <1>2. CASE Metadata(c) \/ Download(c) \/ Cover(c)
    <2>1. PICK s \in {"files", "file", "cover"} : Due(c, s)
      BY <1>2 DEF Metadata, Download, Cover
    <2>2. call[c].phase = "local" /\ call[c].route \in {"GET metadata", "local"}
      BY <2>1, DueStep
    <2>3. call[c].device # "none"
      BY <2>2, Current DEF CallOK, TokenRoutes
    <2> QED
      BY <1>2, <2>3, BookKept
  <1>3. CASE Statement(c)
    BY <1>3, StatementKept
  <1>4. CASE Fault(c) \/ Die(c)
    <2>1. Kept(call[c], call'[c], clock')
      BY <1>4, FaultKept
    <2>2. call \in [Calls -> Call]
      BY Current
    <2>3. CASE call[c].phase = "auth"
      BY <2>1, <2>3, Current DEF CallOK
    <2>4. CASE call[c].phase # "auth"
      <3>1. call' = [call EXCEPT ![c] = Idle]
            \/ call' = [call EXCEPT ![c] = IF @.device = "none" THEN Idle
                                           ELSE [@ EXCEPT !.phase = "refused", !.todo = <<>>]]
        BY <1>4, <2>4, Zenon DEF Fault, Die
      <3> QED
        BY <2>1, <2>2, <3>1
    <2> QED
      BY <2>3, <2>4
  <1> QED
    BY <1>1, <1>2, <1>3, <1>4, Zenon DEF Work

(* What a request begins with. *)
LEMMA RequestCall ==
  ASSUME TypeOK, StepsOK, NEW c \in Calls, Request(c)
  PROVE  /\ call[c].phase = "idle" /\ begun' = begun + 1
         /\ \A x \in Calls : x # c => call'[x] = call[x]
         /\ call'[c].n = begun' /\ call'[c].at = 0 /\ call'[c].stamp = 0 /\ call'[c].source = "none"
         /\ UNCHANGED <<clock, state, issued, token, faults>>
         /\ \/ /\ device' = device
               /\ call'[c].device = "none" /\ call'[c].route \in TokenRoutes
               /\ call'[c].phase = "local"
               /\ call'[c].todo # <<"insertToken">>
            \/ \E d \in Devices :
                 /\ device[d].waits = 0 /\ device' = [device EXCEPT ![d].waits = begun']
                 /\ call'[c].device = d /\ call'[c].auth \in DOMAIN token
                 /\ call'[c].phase = "auth"
                 /\ call'[c].token = device[d].token /\ call'[c].raw = device[d].raw
  <1>1. call \in [Calls -> Call]
    BY Current
  <1>2. CASE CreateToken(c) \/ RevokeToken(c)
    <2>1. device' = device
      BY <1>2 DEF CreateToken, RevokeToken
    <2>2. PICK route, todo, auth :
             /\ route \in TokenRoutes /\ todo # <<"insertToken">>
             /\ \/ Begin(c, [Idle EXCEPT !.phase = "local", !.route = route, !.todo = todo])
                \/ Begin(c, [Idle EXCEPT !.phase = "local", !.route = route, !.todo = todo, !.auth = auth])
      <3>1. /\ <<"revokeAll", "insertToken">> # <<"insertToken">> /\ <<"revokeAll">> # <<"insertToken">>
            /\ <<"revokeOne">> # <<"insertToken">>
        OBVIOUS
      <3> QED
        BY <1>2, <3>1, Zenon DEF CreateToken, RevokeToken, TokenRoutes
    <2>3. /\ call[c].phase = "idle" /\ begun' = begun + 1 /\ UNCHANGED <<clock, state, issued, token, faults>>
      BY <2>2, Zenon DEF Begin
    <2> DEFINE v == call'[c]
    <2>4. /\ v.n = begun + 1 /\ v.at = 0 /\ v.stamp = 0 /\ v.source = "none" /\ v.device = "none"
          /\ v.route = route /\ v.phase = "local" /\ v.todo = todo
      <3>1. CASE Begin(c, [Idle EXCEPT !.phase = "local", !.route = route, !.todo = todo])
        BY <1>1, <3>1, Zenon DEF Begin, Idle
      <3>2. CASE Begin(c, [Idle EXCEPT !.phase = "local", !.route = route, !.todo = todo, !.auth = auth])
        BY <1>1, <3>2, Zenon DEF Begin, Idle
      <3> QED
        BY <2>2, <3>1, <3>2
    <2>5. \A x \in Calls : x # c => call'[x] = call[x]
      BY <1>1, <2>2, Zenon DEF Begin
    <2> QED
      BY <2>1, <2>2, <2>3, <2>4, <2>5
  <1>3. ASSUME NEW d \in Devices, NEW route, NEW books, NEW todo, NEW put, Ask(c, d, route, books, todo, put)
        PROVE  /\ call[c].phase = "idle" /\ begun' = begun + 1
               /\ \A x \in Calls : x # c => call'[x] = call[x]
               /\ call'[c].n = begun' /\ call'[c].at = 0 /\ call'[c].stamp = 0 /\ call'[c].source = "none"
               /\ UNCHANGED <<clock, state, issued, token, faults>>
               /\ device[d].waits = 0 /\ device' = [device EXCEPT ![d].waits = begun']
               /\ call'[c].device = d /\ call'[c].auth \in DOMAIN token
               /\ call'[c].phase = "auth"
               /\ call'[c].token = device[d].token /\ call'[c].raw = device[d].raw
    <2>1. PICK t \in DOMAIN token :
             Begin(c, [Idle EXCEPT !.phase = "auth", !.route = route, !.device = d, !.auth = t,
                                   !.books = books, !.todo = todo, !.put = put,
                                   !.token = device[d].token, !.raw = device[d].raw])
      BY <1>3 DEF Ask
    <2>2. device[d].waits = 0 /\ device' = [device EXCEPT ![d].waits = begun']
      BY <1>3 DEF Ask
    <2>3. /\ call[c].phase = "idle" /\ begun' = begun + 1 /\ UNCHANGED <<clock, state, issued, token, faults>>
      BY <2>1, Zenon DEF Begin
    <2>4. \A x \in Calls : x # c => call'[x] = call[x]
      BY <1>1, <2>1, Zenon DEF Begin
    <2>5. /\ call'[c].n = begun + 1 /\ call'[c].at = 0 /\ call'[c].stamp = 0 /\ call'[c].source = "none"
          /\ call'[c].device = d /\ call'[c].auth = t /\ call'[c].phase = "auth"
          /\ call'[c].token = device[d].token /\ call'[c].raw = device[d].raw
      BY <1>1, <2>1, Zenon DEF Begin, Idle
    <2> QED
      BY <2>2, <2>3, <2>4, <2>5, Zenon
  <1>4. ASSUME NEW d \in Devices,
               \/ GetStates(c, d) \/ PutState(c, d) \/ Synchronise(c, d) \/ GetMetadata(c, d)
               \/ GetDownload(c, d) \/ GetCover(c, d) \/ Initialise(c, d)
               \/ DeviceAuth(c, d) \/ RefreshAuth(c, d) \/ AnyOther(c, d)
        PROVE  \E route, books, todo, put : Ask(c, d, route, books, todo, put)
    BY <1>4, Zenon DEF GetStates, PutState, Synchronise, GetMetadata, GetDownload, GetCover,
       Initialise, DeviceAuth, RefreshAuth, AnyOther
  <1> QED
    <2>1. CASE \E d \in Devices : \E route, books, todo, put : Ask(c, d, route, books, todo, put)
      BY <1>3, <2>1, Zenon
    <2> QED
      BY <1>2, <1>4, <2>1, Zenon DEF Request

LEMMA AuthGate ==
  ASSUME TypeOK, StepsOK, NEW c \in Calls, Work(c) \/ Fault(c) \/ Die(c),
         call[c].phase = "auth", call'[c] # Idle
  PROVE  Active(call[c].auth) \/ call'[c].source = "unauthorized"
  <1>1. call \in [Calls -> Call] /\ CallOK(call[c], state, begun) /\ begun \in Nat
    BY Current
  <1>2. CASE Finish(c, "unauthorized", 0)
    <2>1. "unauthorized" \in Sources /\ 0 \in Nat
      BY DEF Sources
    <2>2. PICK v \in Call : call' = [call EXCEPT ![c] = v] /\ Answered(call[c], v, "unauthorized", 0)
      BY <1>1, <1>2, <2>1, FinishCall
    <2>3. call'[c] = v
      BY <1>1, <2>2
    <2> QED
      BY <2>2, <2>3 DEF Answered
  <1>3. CASE Authenticate(c)
    BY <1>2, <1>3, Zenon DEF Authenticate, Admitted
  <1>4. CASE Fault(c)
    BY <1>2, <1>4 DEF Fault, Serving
  <1>5. CASE Die(c)
    BY <1>1, <1>5 DEF Die
  <1>6. CASE Statement(c)
    <2>1. call[c].phase = "local"
      BY <1>6, Zenon DEF Statement, Find, InsertState, Read, UpdateStatus, Seek, InsertSide,
         UpdateSide, SelectStates, Due, Serving
    <2> QED
      BY <2>1
  <1> QED
    BY <1>3, <1>4, <1>5, <1>6 DEF Work, Served, Refused, Proxy, LogCall, Answer, TokenStatement,
       Metadata, Download, Cover, Due, Serving

TokensOK ==
  /\ \A c \in Calls :
       /\ call[c].route = "create token" /\ call[c].todo = <<"insertToken">>
            => \A i \in DOMAIN token : Active(i) => call[c].n =< token[i].made
       /\ call[c].phase # "idle" /\ call[c].device # "none" => call[c].auth \in DOMAIN token
       /\ call[c].phase \in {"auth", "local", "refused", "store"} => call[c].source = "none"
       /\ call[c].phase # "idle" => call[c].n # 0
  /\ OnlyOverlappingTokensSurvive
  /\ RevokedTokensServeNothing

LEMMA TokensSame ==
  ASSUME TypeOK, StepsOK, TokensOK, NEW c \in Calls, token' = token,
         \A x \in Calls : x # c => call'[x] = call[x],
         /\ call'[c].route = "create token" /\ call'[c].todo = <<"insertToken">>
            => \A i \in DOMAIN token : Active(i) => call'[c].n =< token[i].made,
         call'[c].phase # "idle" /\ call'[c].device # "none" => call'[c].auth \in DOMAIN token,
         call'[c].phase \in {"auth", "local", "refused", "store"} => call'[c].source = "none",
         call'[c].phase # "idle" => call'[c].n # 0,
         /\ call'[c].device # "none" /\ call'[c].source # "unauthorized"
         /\ call'[c].phase \notin {"idle", "auth"}
         => Active(call'[c].auth) \/ call'[c].n =< token[call'[c].auth].revoked
  PROVE  TokensOK'
  BY Zenon DEF TokensOK, OnlyOverlappingTokensSurvive, RevokedTokensServeNothing, Active

(* Tokens only get revoked, with the latest request begun, and follow each other. *)
LEMMA TokensAfter ==
  ASSUME TypeOK, StepsOK, NEW c \in Calls, TokenStatement(c)
  PROVE  \/ /\ DOMAIN token' = DOMAIN token
            /\ \A t \in DOMAIN token : token'[t] = token[t] \/ token'[t] = [token[t] EXCEPT !.revoked = begun]
            /\ Due(c, "insertToken") => FALSE
            /\ Due(c, "revokeAll") => \A t \in DOMAIN token : Active(t) => token'[t] = [token[t] EXCEPT !.revoked = begun]
            /\ \A t \in DOMAIN token : ~Active(t) => token'[t] = token[t]
         \/ /\ Due(c, "insertToken")
            /\ DOMAIN token' = DOMAIN token \cup {Len(token) + 1}
            /\ \A t \in DOMAIN token : token'[t] = token[t] /\ t < Len(token) + 1
            /\ token'[Len(token) + 1] = NewToken(call[c].n)
  <1>1. token \in Seq(Token)
    BY Current
  <1>2. CASE \E T : TokensOff(T) /\ ~Due(c, "insertToken") /\ (Due(c, "revokeAll") => T = DOMAIN token)
    <2>1. PICK T : TokensOff(T) /\ ~Due(c, "insertToken") /\ (Due(c, "revokeAll") => T = DOMAIN token)
      BY <1>2
    <2> QED
      BY <2>1, Zenon DEF TokensOff
  <1>3. CASE Due(c, "insertToken") /\ token' = Append(token, NewToken(call[c].n))
    <2>1. DOMAIN token = 1..Len(token) /\ Len(token) \in Nat
      BY <1>1
    <2> DEFINE new == NewToken(call[c].n)
    <2>2. token' = Append(token, new)
      BY <1>3
    <2>3. new \in Token
      BY Current DEF NewToken, Token
    <2> HIDE DEF new
    <2>4. /\ DOMAIN token' = 1..Len(token) + 1 /\ token'[Len(token) + 1] = new
          /\ \A t \in 1..Len(token) : token'[t] = token[t]
      BY <1>1, <2>1, <2>2, <2>3
    <2> QED
      BY <1>3, <2>1, <2>4 DEF new
  <1> QED
    <2>1. ASSUME Due(c, "insertToken"), Due(c, "revokeAll") \/ Due(c, "revokeOne") PROVE FALSE
      BY <2>1 DEF Due
    <2>2. Due(c, "revokeOne") => ~Due(c, "revokeAll")
      BY DEF Due
    <2> QED
      BY <1>2, <1>3, <2>1, <2>2, Zenon DEF TokenStatement

LEMMA TokensStatement ==
  ASSUME TypeOK, StepsOK, TokensOK, NEW c \in Calls, TokenStatement(c)
  PROVE  TokensOK'
  <1> DEFINE k == call[c]
  <1>1. /\ token \in Seq(Token) /\ begun \in Nat /\ k.n \in Nat
        /\ \A x \in Calls : call[x].n \in Nat /\ call[x].n =< begun
    BY Current DEF CallOK
  <1>2. \A t \in DOMAIN token : token[t] \in Token
    BY <1>1
  <1>3. \A t \in DOMAIN token : token[t].made \in Nat /\ token[t].revoked \in Nat /\ token[t].began \in Nat
    BY <1>2, Zenon DEF Token
  <1>4. \A x \in Calls : x # c => call'[x] = call[x]
    BY OneChanges DEF Work
  <1>5. \A t \in DOMAIN token :
          LET off == [token[t] EXCEPT !.revoked = begun] IN
          off.revoked = begun /\ off.made = token[t].made /\ off.began = token[t].began
    BY <1>2, Zenon DEF Token
  <1>6. /\ k.device = "none" /\ k.route \in TokenRoutes /\ k.phase = "local"
        /\ k.source = "none"
        /\ (call'[c] = Idle \/ (call'[c] = [k EXCEPT !.todo = Rest(c)] /\ Rest(c) # <<>>))
    <2>1. PICK s \in {"revokeAll", "revokeOne", "insertToken"} : Due(c, s)
      BY DEF TokenStatement
    <2>2. k.phase = "local" /\ k.route \in TokenRoutes
      BY <2>1, DueStep, Zenon
    <2>3. k.device = "none"
      BY <2>2, Current DEF CallOK
    <2>4. call'[c] = Idle \/ (call'[c] = [k EXCEPT !.todo = Rest(c)] /\ Rest(c) # <<>>)
      BY Current DEF TokenStatement
    <2>5. k.phase \in {"auth", "local", "refused", "store"} => k.source = "none"
      BY Zenon DEF TokensOK
    <2> QED
      BY <2>2, <2>3, <2>4, <2>5, Zenon
  <1>7. call'[c].device = "none" /\ call'[c].source = "none"
    <2>1. k \in Call
      BY Current
    <2>2. Idle.device = "none" /\ Idle.source = "none"
      BY DEF Idle
    <2>3. [k EXCEPT !.todo = Rest(c)].device = k.device /\ [k EXCEPT !.todo = Rest(c)].source = k.source
      BY <2>1, Zenon DEF Call
    <2> QED
      BY <1>6, <2>2, <2>3
  <1>8. call'[c].todo = <<"insertToken">> => call'[c].n = k.n /\ Due(c, "revokeAll")
    <2> SUFFICES ASSUME call'[c].todo = <<"insertToken">> PROVE call'[c].n = k.n /\ Due(c, "revokeAll")
      OBVIOUS
    <2>1. call'[c] # Idle
      <3>1. Idle.todo = <<>>
        BY DEF Idle
      <3>2. <<"insertToken">> # <<>>
        OBVIOUS
      <3> QED
        BY <3>1, <3>2
    <2>2. call'[c] = [k EXCEPT !.todo = Rest(c)] /\ k \in Call
      BY <1>6, <2>1, Current
    <2>3. Rest(c) = <<"insertToken">> /\ call'[c].n = k.n
      BY <2>2, Zenon DEF Call
    <2>4. k.todo \in {<<"revokeAll", "insertToken">>, <<"insertToken">>, <<"revokeAll">>, <<"revokeOne">>, <<>>}
      BY <1>6, Current DEF CallOK, TodoOK, TokenRoutes
    <2>5. Tail(k.todo) = <<"insertToken">>
      BY <2>3 DEF Rest
    <2>6. k.todo # <<"insertToken">> /\ k.todo # <<"revokeAll">> /\ k.todo # <<"revokeOne">> /\ k.todo # <<>>
      <3>1. /\ Tail(<<"insertToken">>) = <<>> /\ Tail(<<"revokeAll">>) = <<>> /\ Tail(<<"revokeOne">>) = <<>>
            /\ <<"insertToken">> # <<>>
        OBVIOUS
      <3>2. k.todo # <<>>
        BY <1>6, Current DEF TokenStatement, Due
      <3> QED
        BY <2>5, <3>1, <3>2
    <2>7. k.todo = <<"revokeAll", "insertToken">>
      BY <2>4, <2>6
    <2>8. Head(k.todo) = "revokeAll" /\ k.todo # <<>>
      BY <2>7
    <2>9. Due(c, "revokeAll")
      BY <1>6, <2>8 DEF Due, Serving
    <2> QED
      BY <2>3, <2>9
  <1>9. begun # 0 /\ k.n # 0
    <2>1. k.phase # "idle" => k.n # 0
      BY Zenon DEF TokensOK
    <2>2. k.n =< begun
      BY <1>1
    <2> QED
      BY <1>1, <1>6, <2>1, <2>2
  <1>10. /\ call'[c].phase # "idle" => call'[c].n # 0
         /\ \A x \in Calls : /\ call'[x].phase # "idle" /\ call'[x].device # "none" => x # c
                             /\ call'[x].phase \in {"auth", "local", "refused", "store"} => call'[x].source = "none"
                             /\ call'[x].phase # "idle" => call'[x].n # 0
    <2>1. call'[c].phase # "idle" => call'[c].n # 0
      <3>1. Idle.phase = "idle"
        BY DEF Idle
      <3>2. k \in Call => [k EXCEPT !.todo = Rest(c)].n = k.n
        BY Zenon DEF Call
      <3> QED
        BY <1>6, <1>9, <3>1, <3>2, Current
    <2> QED
      BY <1>4, <1>7, <2>1, Zenon DEF TokensOK
  <1>11. CASE /\ DOMAIN token' = DOMAIN token
              /\ \A t \in DOMAIN token : token'[t] = token[t] \/ token'[t] = [token[t] EXCEPT !.revoked = begun]
              /\ Due(c, "revokeAll") => \A t \in DOMAIN token : Active(t) => token'[t] = [token[t] EXCEPT !.revoked = begun]
              /\ \A t \in DOMAIN token : ~Active(t) => token'[t] = token[t]
    <2>1. \A t \in DOMAIN token :
             /\ token'[t].made = token[t].made /\ token'[t].began = token[t].began
             /\ token'[t].revoked = token[t].revoked \/ token'[t].revoked = begun
             /\ token'[t].revoked = 0 => token[t].revoked = 0
             /\ token[t].revoked # 0 => token'[t].revoked = token[t].revoked
             /\ Due(c, "revokeAll") => token'[t].revoked # 0
      BY <1>5, <1>9, <1>11, Zenon DEF Active
    <2>2. ASSUME NEW x \in Calls, call'[x].todo = <<"insertToken">>, call'[x].route = "create token",
                 NEW t \in DOMAIN token, token'[t].revoked = 0
          PROVE  call'[x].n =< token'[t].made
      <3>1. x # c
        BY <1>8, <2>1, <2>2
      <3>2. call[x].n =< token[t].made
        BY <1>4, <2>1, <2>2, <3>1, Zenon DEF TokensOK, Active
      <3> QED
        BY <1>4, <2>1, <3>1, <3>2
    <2>3. \A i, j \in DOMAIN token : i < j /\ token'[i].revoked = 0 /\ token'[j].revoked = 0
                                     => token'[j].began =< token'[i].made
      BY <2>1, Zenon DEF TokensOK, OnlyOverlappingTokensSurvive, Active
    <2>4. ASSUME NEW x \in Calls, call'[x].device # "none", call'[x].source # "unauthorized",
                 call'[x].phase \notin {"idle", "auth"}
          PROVE  token'[call'[x].auth].revoked = 0 \/ call'[x].n =< token'[call'[x].auth].revoked
      <3>1. call'[x] = call[x]
        BY <1>4, <1>7, <2>4
      <3>2. call[x].auth \in DOMAIN token
        BY <2>4, <3>1, Zenon DEF TokensOK
      <3>3. token[call[x].auth].revoked = 0 \/ call[x].n =< token[call[x].auth].revoked
        BY <2>4, <3>1, Zenon DEF TokensOK, RevokedTokensServeNothing, Active
      <3>4. call[x].n =< begun
        BY <1>1
      <3> DEFINE old == token[call[x].auth].revoked
                 new == token'[call[x].auth].revoked
      <3>5. /\ new = old \/ new = begun
            /\ old # 0 => new = old
            /\ old = 0 \/ call[x].n =< old
        BY <2>1, <3>2, <3>3, Zenon
      <3> HIDE DEF old, new
      <3>6. new = 0 \/ call[x].n =< new
        BY <3>4, <3>5
      <3> QED
        BY <3>1, <3>6 DEF new
    <2>5. \A x \in Calls : call'[x].phase # "idle" /\ call'[x].device # "none" => call'[x].auth \in DOMAIN token'
      BY <1>4, <1>10, <1>11, Zenon DEF TokensOK
    <2> QED
      BY <1>10, <1>11, <2>2, <2>3, <2>4, <2>5, Zenon DEF TokensOK, OnlyOverlappingTokensSurvive,
         RevokedTokensServeNothing, Active
  <1>12. CASE /\ Due(c, "insertToken")
              /\ DOMAIN token' = DOMAIN token \cup {Len(token) + 1}
              /\ \A t \in DOMAIN token : token'[t] = token[t] /\ t < Len(token) + 1
              /\ token'[Len(token) + 1] = NewToken(call[c].n)
    <2> DEFINE new == Len(token) + 1
    <2>1. /\ new \in Nat /\ new \notin DOMAIN token /\ \A t \in DOMAIN token : t < new /\ t \in Nat
          /\ token'[new].began = k.n /\ token'[new].made = begun
      BY <1>1, <1>12 DEF NewToken
    <2>2. call'[c].todo # <<"insertToken">>
      BY <1>8, <1>12 DEF Due
    <2> HIDE DEF new
    <2>3. ASSUME NEW x \in Calls, call'[x].todo = <<"insertToken">>, call'[x].route = "create token",
                 NEW t \in DOMAIN token', token'[t].revoked = 0
          PROVE  call'[x].n =< token'[t].made
      <3>1. call'[x] = call[x]
        BY <1>4, <2>2, <2>3
      <3>2. CASE t \in DOMAIN token
        BY <1>12, <2>3, <3>1, <3>2, Zenon DEF TokensOK, Active
      <3>3. CASE t = new
        BY <1>1, <2>1, <3>1, <3>3
      <3> QED
        BY <1>12, <3>2, <3>3 DEF new
    <2>4. k.route = "create token" /\ k.todo = <<"insertToken">>
      <3>1. k.route \in {"create token", "revoke token"} /\ TodoOK(k.route, k.todo)
        BY <1>6, Current DEF CallOK, TokenRoutes
      <3>2. Head(k.todo) = "insertToken"
        BY <1>12 DEF Due
      <3>3. /\ Head(<<"revokeAll", "insertToken">>) = "revokeAll" /\ Head(<<"revokeAll">>) = "revokeAll"
            /\ Head(<<"revokeOne">>) = "revokeOne"
        OBVIOUS
      <3> QED
        BY <3>1, <3>2, <3>3 DEF TodoOK
    <2>5. ASSUME NEW i \in DOMAIN token', NEW j \in DOMAIN token', i < j,
                 token'[i].revoked = 0, token'[j].revoked = 0
          PROVE  token'[j].began =< token'[i].made
      <3>1. i \in DOMAIN token
        <4>1. i # new
          BY <1>12, <2>1, <2>5 DEF new
        <4> QED
          BY <1>12, <4>1 DEF new
      <3>2. CASE j \in DOMAIN token
        BY <1>12, <2>5, <3>1, <3>2, Zenon DEF TokensOK, OnlyOverlappingTokensSurvive, Active
      <3>3. CASE j = new
        <4>1. k.n =< token[i].made
          BY <1>12, <2>4, <2>5, <3>1, Zenon DEF TokensOK, Active
        <4> QED
          BY <1>12, <2>1, <3>1, <3>3, <4>1
      <3> QED
        BY <1>12, <3>2, <3>3 DEF new
    <2>6. ASSUME NEW x \in Calls, call'[x].device # "none", call'[x].source # "unauthorized",
                 call'[x].phase \notin {"idle", "auth"}
          PROVE  token'[call'[x].auth].revoked = 0 \/ call'[x].n =< token'[call'[x].auth].revoked
      <3>1. call'[x] = call[x]
        BY <1>4, <1>7, <2>6
      <3>2. call[x].auth \in DOMAIN token
        BY <2>6, <3>1, Zenon DEF TokensOK
      <3> QED
        BY <1>12, <2>6, <3>1, <3>2, Zenon DEF TokensOK, RevokedTokensServeNothing, Active
    <2>7. \A x \in Calls : call'[x].phase # "idle" /\ call'[x].device # "none" => call'[x].auth \in DOMAIN token'
      BY <1>4, <1>10, <1>12, Zenon DEF TokensOK
    <2> QED
      BY <1>10, <2>3, <2>5, <2>6, <2>7, Zenon DEF TokensOK, OnlyOverlappingTokensSurvive,
         RevokedTokensServeNothing, Active
  <1> QED
    BY <1>11, <1>12, TokensAfter, Zenon

LEMMA TokensStep ==
  ASSUME TypeOK, StepsOK, TokensOK, [Next]_vars
  PROVE  TokensOK'
  <1>1. CASE UNCHANGED vars
    BY <1>1, Zenon DEF vars, readingVars, TokensOK, OnlyOverlappingTokensSurvive,
       RevokedTokensServeNothing, Active
  <1>2. ASSUME NEW d \in Devices, GiveUp(d) PROVE TokensOK'
    BY <1>2, Zenon DEF GiveUp, readingVars, TokensOK, OnlyOverlappingTokensSurvive,
       RevokedTokensServeNothing, Active
  <1>3. ASSUME NEW c \in Calls, Request(c) PROVE TokensOK'
    <2> DEFINE v == call'[c]
    <2>1. begun \in Nat
      BY Current
    <2>2. /\ token' = token /\ \A x \in Calls : x # c => call'[x] = call[x]
          /\ v.n = begun + 1 /\ v.source = "none"
          /\ \/ v.device = "none" /\ v.phase = "local" /\ v.todo # <<"insertToken">>
             \/ v.phase = "auth" /\ v.auth \in DOMAIN token /\ v.device # "none"
      BY <1>3, RequestCall, GatewayAssumption
    <2>3. v.n # 0
      BY <2>1, <2>2
    <2>4. v.route = "create token" /\ v.todo = <<"insertToken">>
          => \A i \in DOMAIN token : Active(i) => v.n =< token[i].made
      <3> SUFFICES ASSUME v.route = "create token", v.todo = <<"insertToken">> PROVE FALSE
        OBVIOUS
      <3>1. StepsOK' /\ TypeOK'
        BY <1>3, RequestStep
      <3>2. CallOK(v, state', begun')
        BY <3>1 DEF StepsOK
      <3>3. v.phase # "idle" => v.device = "none"
        <4>1. "create token" \in TokenRoutes
          BY DEF TokenRoutes
        <4>2. v.phase # "idle" => (v.device = "none" <=> v.route \in TokenRoutes)
          BY <3>2 DEF CallOK
        <4> QED
          BY <4>1, <4>2
      <3> QED
        BY <2>2, <3>3
    <2> HIDE DEF v
    <2> QED
      BY <2>2, <2>3, <2>4, TokensSame DEF v
  <1>4. ASSUME NEW c \in Calls, Work(c) \/ Fault(c) \/ Die(c) PROVE TokensOK'
    <2>1. CASE TokenStatement(c)
      BY <2>1, TokensStatement
    <2> DEFINE k == call[c]
               v == call'[c]
    <2>2. CASE token' = token /\ v = Idle
      <3>1. /\ v.phase = "idle" /\ v.todo # <<"insertToken">>
        <4>1. <<>> # <<"insertToken">>
          OBVIOUS
        <4>2. Idle.phase = "idle" /\ Idle.todo = <<>>
          BY Zenon DEF Idle
        <4> QED
          BY <2>2, <4>1, <4>2
      <3>2. \A x \in Calls : x # c => call'[x] = call[x]
        BY <1>4, OneChanges
      <3> HIDE DEF v
      <3> QED
        BY <2>2, <3>1, <3>2, TokensSame, Zenon DEF v
    <2>3. CASE token' = token /\ k.device # "none" /\ Kept(k, v, clock')
      <3>1. (\A x \in Calls : x # c => call'[x] = call[x]) /\ k.phase # "idle"
        BY <1>4, OneChanges
      <3>2. k.n # 0 /\ k.auth \in DOMAIN token
        BY <2>3, <3>1, Zenon DEF TokensOK
      <3>3. v.n = k.n /\ v.device = k.device /\ v.auth = k.auth /\ v.phase \notin {"idle", "auth"}
        BY <2>3 DEF Kept
      <3>4. v.route # "create token"
        <4>1. v.route \in {"none", k.route}
          BY <2>3 DEF Kept
        <4>2. k.route \notin TokenRoutes
          BY <2>3, <3>1, Current DEF CallOK
        <4> QED
          BY <4>1, <4>2 DEF TokenRoutes
      <3>5. v.phase \in {"auth", "local", "refused", "store"} => v.source = "none"
        <4>1. k.phase \in {"auth", "local", "refused", "store"} => k.source = "none"
          BY Zenon DEF TokensOK
        <4>2. v.phase \in {"local", "refused", "store"} => v.source = k.source
          BY <2>3 DEF Kept
        <4>3. k.phase \in {"idle", "auth", "local", "refused", "store", "log", "answer"}
          BY Current, Zenon DEF Call
        <4>4. v.phase \in {"local", "refused", "store"} => k.phase \notin {"log", "answer"}
          BY <2>3 DEF Kept
        <4> QED
          BY <3>1, <3>3, <4>1, <4>2, <4>3, <4>4
      <3>6. /\ v.device # "none" /\ v.source # "unauthorized" /\ v.phase \notin {"idle", "auth"}
            => Active(v.auth) \/ v.n =< token[v.auth].revoked
        <4> SUFFICES ASSUME v.source # "unauthorized" PROVE Active(k.auth) \/ k.n =< token[k.auth].revoked
          BY <3>3
        <4>1. CASE k.phase = "auth"
          <5>1. v # Idle
            <6>1. Idle.phase = "idle"
              BY Zenon DEF Idle
            <6> QED
              BY <3>3, <6>1
          <5> QED
            BY <1>4, <4>1, <5>1, AuthGate
        <4>2. CASE k.phase # "auth"
          <5>1. k.source # "unauthorized"
            <6>1. k.source # v.source => k.phase \notin {"log", "answer"}
              BY <2>3 DEF Kept
            <6>2. k.phase \in {"local", "refused", "store"} => k.source = "none"
              BY Zenon DEF TokensOK
            <6>3. k.phase \in {"idle", "auth", "local", "refused", "store", "log", "answer"}
              BY Current, Zenon DEF Call
            <6> QED
              BY <3>1, <4>2, <6>1, <6>2, <6>3
          <5> QED
            BY <2>3, <3>1, <4>2, <5>1, Zenon DEF TokensOK, RevokedTokensServeNothing
        <4> QED
          BY <4>1, <4>2
      <3> HIDE DEF v
      <3> QED
        BY <2>3, <3>1, <3>2, <3>3, <3>4, <3>5, <3>6, TokensSame, Zenon DEF v
    <2> QED
      BY <1>4, <2>1, <2>2, <2>3, OneChanges, WorkCall
  <1> QED
    BY <1>1, <1>2, <1>3, <1>4 DEF Next

LEMMA InitTokens ==
  ASSUME Init
  PROVE  TokensOK
  <1>1. call = [c \in Calls |-> Idle] /\ token = <<[began |-> 0, made |-> 0, revoked |-> 0]>>
    BY DEF Init
  <1>2. \A c \in Calls : call[c].phase = "idle" /\ call[c].route = "none"
    BY <1>1, Zenon DEF Idle
  <1>3. DOMAIN token = {1}
    BY <1>1
  <1>4. OnlyOverlappingTokensSurvive
    BY <1>3 DEF OnlyOverlappingTokensSurvive
  <1>5. RevokedTokensServeNothing
    BY <1>2, Zenon DEF RevokedTokensServeNothing
  <1>6. "none" # "create token" /\ "idle" \notin {"auth", "local", "refused", "store"}
    OBVIOUS
  <1> QED
    BY <1>2, <1>4, <1>5, <1>6, Zenon DEF TokensOK

-----------------------------------------------------------------------------
(* What a statement does to the states: it inserts one at the end of a book's,      *)
(* with the call's time, or changes one, which keeps its owner.                    *)
Inserts(c) ==
  /\ Due(c, "insert") /\ clock' = clock
  /\ \A b \in Books : b # Book(c) => state'[b] = state[b]
  /\ DOMAIN state'[Book(c)] = 1..(Len(Rows(c)) + 1)
  /\ \A i \in DOMAIN Rows(c) : state'[Book(c)][i] = Rows(c)[i]
  /\ state'[Book(c)][Len(Rows(c)) + 1] = NewState(call[c].stamp, call[c].n)

Changes(c) ==
  /\ clock' = clock
  /\ \A b \in Books : DOMAIN state'[b] = DOMAIN state[b]
  /\ \A b \in Books : \A i \in DOMAIN state[b] :
       /\ state'[b][i].owner = state[b][i].owner /\ state'[b][i].since = state[b][i].since
       /\ state'[b][i].at \in {state[b][i].at, call[c].at}

LEMMA OneRowChanges ==
  ASSUME TypeOK, StepsOK, NEW c \in Calls, clock' = clock, NEW b \in Books,
         NEW i \in 1..Len(state[b]), NEW row \in Row, state' = [state EXCEPT ![b][i] = row],
         row.owner = state[b][i].owner, row.since = state[b][i].since,
         row.at \in {state[b][i].at, call[c].at}
  PROVE  Changes(c)
  <1>1. state \in [Books -> Seq(Row)]
    BY DEF TypeOK
  <1>2. /\ state' \in [Books -> Seq(Row)]
        /\ \A x \in Books : Len(state'[x]) = Len(state[x])
        /\ \A x \in Books : \A j \in 1..Len(state[x]) :
             state'[x][j] = IF x = b /\ j = i THEN row ELSE state[x][j]
    BY <1>1, RowChanged
  <1>3. \A x \in Books : DOMAIN state'[x] = DOMAIN state[x] /\ DOMAIN state[x] = 1..Len(state[x])
    BY <1>1, <1>2
  <1> QED
    BY <1>2, <1>3, Zenon DEF Changes

LEMMA RowsAfter ==
  ASSUME TypeOK, StepsOK, NEW c \in Calls, Statement(c)
  PROVE  state' = state \/ Inserts(c) \/ Changes(c)
  <1> DEFINE k == call[c]
             b == Book(c)
             old == state[b][k.row]
  <1>1. CASE InsertState(c)
    <2> DEFINE row == NewState(k.stamp, k.n)
    <2>1. "insert" \in StateSteps
      BY DEF StateSteps
    <2>2. Due(c, "insert") /\ clock' = clock /\ state' = [state EXCEPT ![b] = Append(state[b], row)]
      BY <1>1, Zenon DEF InsertState
    <2>3. b \in Books /\ state[b] \in Seq(Row) /\ state \in [Books -> Seq(Row)] /\ Rows(c) = state[b]
      BY <2>1, <2>2, StateCall, Current DEF Rows
    <2> HIDE DEF b, row
    <2>4. state'[b] = Append(state[b], row) /\ \A x \in Books : x # b => state'[x] = state[x]
      BY <2>2, <2>3
    <2>5. /\ DOMAIN Append(state[b], row) = 1..(Len(state[b]) + 1) /\ DOMAIN state[b] = 1..Len(state[b])
          /\ \A i \in 1..Len(state[b]) : Append(state[b], row)[i] = state[b][i]
          /\ Append(state[b], row)[Len(state[b]) + 1] = row
      BY <2>3
    <2> QED
      BY <2>2, <2>3, <2>4, <2>5 DEF Inserts, b, row
  <1>2. ASSUME NEW row \in Row, NEW s \in RowSteps, Due(c, s), clock' = clock,
               state' = [state EXCEPT ![b][k.row] = row],
               row.owner = old.owner, row.since = old.since, row.at \in {old.at, k.at}
        PROVE  Changes(c)
    <2>1. s \in StateSteps
      BY DEF StateSteps
    <2>2. b \in Books /\ k.row \in 1..Len(state[b])
      BY <1>2, <2>1, StateCall DEF Rows
    <2> HIDE DEF b
    <2> QED
      BY <1>2, <2>2, OneRowChanges
  <1>3. ASSUME NEW s \in RowSteps, Due(c, s) PROVE old \in Row
    <2>1. s \in StateSteps
      BY DEF StateSteps
    <2>2. b \in Books /\ k.row \in 1..Len(state[b]) /\ state[b] \in Seq(Row)
      BY <1>3, <2>1, StateCall DEF Rows
    <2> HIDE DEF b
    <2> QED
      BY <2>2
  <1>4. CASE UpdateStatus(c)
    <2> DEFINE status == StatusOrDefault(k.put.status)
               times == k.times + (IF Begins(c) THEN 1 ELSE 0)
               starts == old.starts + (IF status = "Reading" /\ old.status # "Reading" THEN 1 ELSE 0)
               late == k.at =< issued
               new == [old EXCEPT !.status = status, !.at = k.at, !.times = times,
                                  !.starts = starts, !.late = late]
    <2>1. "status" \in RowSteps
      BY DEF RowSteps
    <2>2. Due(c, "status") /\ clock' = clock /\ state' = [state EXCEPT ![b][k.row] = new]
      BY <1>4 DEF UpdateStatus, Rows
    <2>3. old \in Row
      BY <1>3, <2>1, <2>2
    <2>4. new \in Row /\ new.owner = old.owner /\ new.since = old.since /\ new.at = k.at
      <3>1. old.starts \in Nat /\ k.times \in Nat /\ k.at \in Nat
        BY <2>3, Current, Zenon DEF Row, Call
      <3>2. times \in Nat /\ starts \in Nat
        BY <3>1
      <3>3. status \in Statuses
        BY DEF StatusOrDefault, Statuses
      <3>4. late \in BOOLEAN
        OBVIOUS
      <3> HIDE DEF times, starts, status, late, old
      <3> QED
        BY <2>3, <3>1, <3>2, <3>3, <3>4, Zenon DEF Row
    <2> HIDE DEF new
    <2> QED
      BY <1>2, <2>1, <2>2, <2>4
  <1>5. ASSUME NEW side \in Sides, NEW time \in Int, NEW s \in RowSteps, Due(c, s), clock' = clock,
               state' = [state EXCEPT ![b][k.row].side[side] = time]
        PROVE  Changes(c)
    <2> DEFINE new == [old EXCEPT !.side[side] = time]
    <2>1. old \in Row
      BY <1>3, <1>5
    <2>2. new \in Row /\ new.owner = old.owner /\ new.since = old.since /\ new.at = old.at
      <3> HIDE DEF old
      <3> QED
        BY <1>5, <2>1, Zenon DEF Row
    <2>3. state' = [state EXCEPT ![b][k.row] = new]
      BY <1>5, Zenon
    <2> HIDE DEF new
    <2> QED
      BY <1>2, <1>5, <2>2, <2>3
  <1>6. {"insertBookmark", "insertStatistics", "bookmark", "statistics"} \subseteq RowSteps
        /\ Sides = {"bookmark", "statistics"}
    BY DEF RowSteps, Sides
  <1>7. CASE InsertSide(c, "bookmark", "insertBookmark")
    <2>1. CASE state' = [state EXCEPT ![b][k.row].side["bookmark"] = 0]
      <3>1. Due(c, "insertBookmark") /\ clock' = clock
        BY <1>7, Zenon DEF InsertSide
      <3>2. "insertBookmark" \in RowSteps /\ "bookmark" \in Sides /\ 0 \in Int
        BY <1>6
      <3> QED
        BY <1>5, <2>1, <3>1, <3>2, Zenon
    <2> QED
      BY <1>7, <2>1, Zenon DEF InsertSide
  <1>8. CASE InsertSide(c, "statistics", "insertStatistics")
    <2>1. CASE state' = [state EXCEPT ![b][k.row].side["statistics"] = 0]
      <3>1. Due(c, "insertStatistics") /\ clock' = clock
        BY <1>8, Zenon DEF InsertSide
      <3>2. "insertStatistics" \in RowSteps /\ "statistics" \in Sides /\ 0 \in Int
        BY <1>6
      <3> QED
        BY <1>5, <2>1, <3>1, <3>2, Zenon
    <2> QED
      BY <1>8, <2>1, Zenon DEF InsertSide
  <1>9. ASSUME NEW side \in Sides, UpdateSide(c, side) PROVE Changes(c)
    <2>1. k.at \in Int
      BY Current
    <2> QED
      BY <1>5, <1>6, <1>9, <2>1 DEF UpdateSide
  <1> QED
    BY <1>1, <1>4, <1>7, <1>8, <1>9, Zenon DEF Statement, Find, Read, SelectStates, Seek

(* Times are never ahead of the clock. *)
LEMMA ClockGrows ==
  ASSUME TypeOK, StepsOK, NEW c \in Calls, Work(c) \/ Fault(c) \/ Die(c)
  PROVE  clock' \in Nat /\ clock' >= clock /\ (state' = state \/ (Statement(c) /\ state' # state))
  <1>1. clock \in Nat
    BY Current
  <1>2. clock' = clock \/ clock' = clock + 1
    BY Zenon DEF Work, Fault, Die, Authenticate, Served, Refused, Proxy, LogCall, Answer, TokenStatement,
       Metadata, Download, Cover, Statement, Find, InsertState, Read, UpdateStatus, Seek, InsertSide,
       UpdateSide, SelectStates
  <1>3. state' = state \/ Statement(c)
    BY Zenon DEF Work, Fault, Die, Authenticate, Served, Refused, Proxy, LogCall, Answer, TokenStatement,
       Metadata, Download, Cover
  <1> QED
    BY <1>1, <1>2, <1>3

LEMMA CallTimes ==
  ASSUME TypeOK, StepsOK, NEW c \in Calls, Work(c) \/ Fault(c) \/ Die(c)
  PROVE  call'[c].at \in {0, call[c].at, clock'} /\ call'[c].stamp \in {0, call[c].stamp, clock'}
  <1>1. CASE call'[c] = Idle
    <2>1. Idle.at = 0 /\ Idle.stamp = 0
      BY Zenon DEF Idle
    <2> QED
      BY <1>1, <2>1
  <1>2. CASE Kept(call[c], call'[c], clock')
    BY <1>2, Zenon DEF Kept
  <1>3. CASE TokenStatement(c)
    <2>1. call \in [Calls -> Call] /\ call[c] \in Call
      BY Current
    <2>2. call'[c] = Idle \/ call'[c] = [call[c] EXCEPT !.todo = Rest(c)]
      BY <1>3, <2>1 DEF TokenStatement
    <2>3. /\ [call[c] EXCEPT !.todo = Rest(c)].at = call[c].at
          /\ [call[c] EXCEPT !.todo = Rest(c)].stamp = call[c].stamp
      BY <2>1, Zenon DEF Call
    <2> QED
      BY <1>1, <2>2, <2>3
  <1> QED
    BY <1>1, <1>2, <1>3, WorkCall

LEMMA WorkTimes ==
  ASSUME TypeOK, StepsOK, TimesOK, NEW c \in Calls, Work(c) \/ Fault(c) \/ Die(c)
  PROVE  TimesOK'
  <1>1. clock \in Nat /\ clock' \in Nat /\ clock' >= clock /\ (state' = state \/ Statement(c))
    BY ClockGrows, Current
  <1>2. \A x \in Calls : call[x].at \in Nat /\ call[x].stamp \in Nat
    BY Zenon DEF TypeOK, Call
  <1>3. \A x \in Calls : call[x].at =< clock /\ call[x].stamp =< clock
    BY DEF TimesOK
  <1>4. ASSUME NEW x \in Calls PROVE call'[x].at =< clock' /\ call'[x].stamp =< clock'
    <2>1. CASE x # c
      <3>1. call'[x] = call[x]
        BY <2>1, OneChanges
      <3> QED
        BY <1>1, <1>2, <1>3, <3>1
    <2>2. CASE x = c
      <3>1. call'[c].at \in {0, call[c].at, clock'} /\ call'[c].stamp \in {0, call[c].stamp, clock'}
        BY CallTimes
      <3> QED
        BY <1>1, <1>2, <1>3, <2>2, <3>1
    <2> QED
      BY <2>1, <2>2
  <1>5. state \in [Books -> Seq(Row)]
    BY Current
  <1>6. \A b \in Books : \A i \in DOMAIN state[b] : state[b][i].at =< clock /\ state[b][i].at \in Nat
    <2>1. \A b \in Books : \A i \in DOMAIN state[b] : state[b][i] \in Row
      BY <1>5
    <2> QED
      BY <2>1, Zenon DEF TimesOK, Row
  <1>7. ASSUME NEW b \in Books, NEW i \in DOMAIN state'[b] PROVE state'[b][i].at =< clock'
    <2>1. CASE state' = state
      BY <1>1, <1>6, <2>1
    <2>2. CASE Changes(c)
      <3>1. i \in DOMAIN state[b] /\ state'[b][i].at \in {state[b][i].at, call[c].at} /\ clock' = clock
        BY <2>2 DEF Changes
      <3> QED
        BY <1>1, <1>3, <1>6, <3>1
    <2>3. CASE Inserts(c)
      <3>1. CASE b # Book(c)
        BY <1>6, <2>3, <3>1, Zenon DEF Inserts
      <3>2. CASE b = Book(c) /\ i \in DOMAIN Rows(c)
        BY <1>6, <2>3, <3>2, Zenon DEF Inserts, Rows
      <3>3. CASE b = Book(c) /\ i = Len(Rows(c)) + 1
        <4>1. state'[b][i].at = call[c].stamp
          <5>1. NewState(call[c].stamp, call[c].n).at = call[c].stamp
            BY Zenon DEF NewState
          <5> QED
            BY <2>3, <3>3, <5>1, Zenon DEF Inserts
        <4> QED
          BY <1>3, <2>3, <4>1 DEF Inserts
      <3>4. b = Book(c) => i \in DOMAIN Rows(c) \/ i = Len(Rows(c)) + 1
        <4> SUFFICES ASSUME b = Book(c) PROVE i \in DOMAIN Rows(c) \/ i = Len(Rows(c)) + 1
          OBVIOUS
        <4>1. i \in 1..(Len(Rows(c)) + 1)
          BY <2>3 DEF Inserts
        <4>2. Rows(c) \in Seq(Row)
          BY <1>5 DEF Rows
        <4> QED
          BY <4>1, <4>2
      <3> QED
        BY <3>1, <3>2, <3>3, <3>4
    <2>4. state' = state \/ Inserts(c) \/ Changes(c)
      BY <1>1, RowsAfter
    <2> QED
      BY <2>1, <2>2, <2>3, <2>4
  <1> QED
    BY <1>4, <1>7 DEF TimesOK

LEMMA TimesStep ==
  ASSUME TypeOK, StepsOK, TimesOK, [Next]_vars
  PROVE  TimesOK'
  <1>1. CASE UNCHANGED vars
    BY <1>1, Zenon DEF vars, readingVars, TimesOK
  <1>2. ASSUME NEW d \in Devices, GiveUp(d) PROVE TimesOK'
    BY <1>2, Zenon DEF GiveUp, readingVars, TimesOK
  <1>3. ASSUME NEW c \in Calls, Request(c) PROVE TimesOK'
    <2>1. /\ UNCHANGED <<clock, state>> /\ \A x \in Calls : x # c => call'[x] = call[x]
          /\ call'[c].at = 0 /\ call'[c].stamp = 0
      BY <1>3, RequestCall
    <2>2. clock \in Nat
      BY <1>3, Current
    <2>3. 0 =< clock'
      BY <2>1, <2>2
    <2> QED
      BY <2>1, <2>3, Zenon DEF TimesOK
  <1> QED
    BY <1>1, <1>2, <1>3, WorkTimes DEF Next

-----------------------------------------------------------------------------
(* The inductive invariant.  StepsOK ties what a call still has to do to its route, *)
(* its books and its row; without it a statement could be due for no book.  TimesOK *)
(* bounds what a synchronisation writes in a token.  TokensOK holds what is known of *)
(* a new token between the statement that revokes and the one that inserts.        *)
GatewayInvariant == TypeOK /\ StepsOK /\ TimesOK /\ TokensOK

LEMMA GatewayInvariantHolds == Spec => []GatewayInvariant
  <1>1. Init => GatewayInvariant
    BY InitType, InitTokens DEF GatewayInvariant
  <1>2. GatewayInvariant /\ [Next]_vars => GatewayInvariant'
    BY TypeStep, TimesStep, TokensStep DEF GatewayInvariant
  <1> QED
    BY <1>1, <1>2, PTL DEF Spec

(* The variables of the gateway keep their types: every statement of a call has a    *)
(* book, a row and a route it can be made for, whatever else happens meanwhile.      *)
THEOREM TypeCorrect == Spec => []TypeOK
  <1>1. GatewayInvariant => TypeOK
    BY DEF GatewayInvariant
  <1> QED
    BY <1>1, GatewayInvariantHolds, PTL

(* A new token ends the ones that were there when its request began: for any number *)
(* of requests, createKoboAuthToken leaves two active tokens only to requests that   *)
(* overlapped.                                                                    *)
THEOREM NewTokenEndsOld == Spec => []OnlyOverlappingTokensSurvive
  <1>1. GatewayInvariant => OnlyOverlappingTokensSurvive
    BY DEF GatewayInvariant, TokensOK
  <1> QED
    BY <1>1, GatewayInvariantHolds, PTL

(* withKoboAuth and the routes serve nothing to a request that began after its token *)
(* was revoked, whatever the order in which the statements of the requests fall.     *)
THEOREM RevokedIsRefused == Spec => []RevokedTokensServeNothing
  <1>1. GatewayInvariant => RevokedTokensServeNothing
    BY DEF GatewayInvariant, TokensOK
  <1> QED
    BY <1>1, GatewayInvariantHolds, PTL

-----------------------------------------------------------------------------
(***************************************************************************)
(* The store's token and the reading states                                *)
(***************************************************************************)

(* A step of a call tells at most its own device, by the answer it waits for. *)
Told(c) ==
  /\ device[call[c].device].waits = call[c].n /\ call[c].device # "none"
  /\ \A d \in Devices : d # call[c].device => device'[d] = device[d]
  /\ device'[call[c].device].waits = 0
  /\ \/ call[c].route = "sync" /\ device'[call[c].device].raw = call[c].raw
     \/ device'[call[c].device].raw = device[call[c].device].raw
  /\ call'[c] = Idle

SameTokens == \A d \in Devices : device'[d].raw = device[d].raw /\ device'[d].waits = device[d].waits

LEMMA DeviceAfter ==
  ASSUME TypeOK, StepsOK, NEW c \in Calls, Work(c) \/ Fault(c) \/ Die(c)
  PROVE  SameTokens \/ Told(c)
  <1> DEFINE k == call[c]
             d == k.device
  <1>1. device \in [Devices -> Device] /\ call \in [Calls -> Call]
    BY Current
  <1>2. \A x \in Devices : device[x] \in Device
    BY <1>1
  <1>3. CASE device' = device
    BY <1>3 DEF SameTokens
  <1>4. CASE Authenticate(c)
    <2>1. CASE device' = [device EXCEPT ![d].knows[Book(c)] = clock']
      <3>1. \A x \in Devices : device'[x] = device[x]
                            \/ device'[x] = [device[x] EXCEPT !.knows[Book(c)] = clock']
        BY <1>1, <2>1, Zenon
      <3>2. ASSUME NEW x \in Devices
            PROVE  /\ [device[x] EXCEPT !.knows[Book(c)] = clock'].raw = device[x].raw
                   /\ [device[x] EXCEPT !.knows[Book(c)] = clock'].waits = device[x].waits
        BY <1>2, Zenon DEF Device
      <3> QED
        BY <3>1, <3>2 DEF SameTokens
    <2> QED
      BY <1>3, <1>4, <2>1, Zenon DEF Authenticate
  <1>5. CASE Answer(c) /\ device[d].waits = k.n
    <2> DEFINE heard == Heard(c, k.source)
               told == [waits |-> 0,
                        token |-> IF heard /\ k.route = "sync" THEN k.token ELSE device[d].token,
                        raw   |-> IF heard /\ k.route = "sync" THEN k.raw ELSE device[d].raw,
                        knows |-> IF heard THEN [b \in Books |-> Greater(device[d].knows[b], k.shown[b])]
                                  ELSE device[d].knows]
    <2>1. k.phase = "answer" /\ call' = [call EXCEPT ![c] = Idle]
          /\ device' = [device EXCEPT ![d] = told]
      BY <1>5, Zenon DEF Answer
    <2>2. d \in Devices /\ d # "none"
      BY <2>1, Current, Bounds DEF CallOK, TokenRoutes
    <2>3. told.waits = 0 /\ told.raw = IF heard /\ k.route = "sync" THEN k.raw ELSE device[d].raw
      OBVIOUS
    <2> HIDE DEF told, heard
    <2>4. device'[d] = told /\ \A x \in Devices : x # d => device'[x] = device[x]
      BY <1>1, <2>1, <2>2
    <2>5. call'[c] = Idle
      BY <1>1, <2>1
    <2>6. /\ device'[d].waits = 0
          /\ \/ k.route = "sync" /\ device'[d].raw = k.raw
             \/ device'[d].raw = device[d].raw
      BY <2>3, <2>4
    <2> QED
      BY <1>5, <2>2, <2>4, <2>5, <2>6, Zenon DEF Told
  <1> QED
    BY <1>3, <1>4, <1>5, Zenon DEF Work, Fault, Die, Served, Refused, Proxy, LogCall, Answer,
       TokenStatement, Metadata, Download, Cover

-----------------------------------------------------------------------------
(* The store's token.  The answer a device waits for carries a token of the store   *)
(* that is not older than the device's, and no token is of a later request than the *)
(* one that carries it.                                                          *)
RawOK ==
  /\ \A d \in Devices :
       /\ device[d].raw =< begun
       /\ device[d].waits # 0 => device[d].raw < device[d].waits
       /\ device[d].waits =< begun
  /\ \A c \in Calls :
       /\ call[c].phase # "idle" => call[c].n # 0
       /\ call[c].route = "sync" => call[c].raw =< call[c].n
       /\ /\ call[c].route = "sync" /\ device[call[c].device].waits = call[c].n
          => call[c].raw >= device[call[c].device].raw

LEMMA RawTypes ==
  ASSUME TypeOK, StepsOK
  PROVE  /\ begun \in Nat
         /\ \A d \in Devices : device[d].raw \in Nat /\ device[d].waits \in Nat
         /\ \A c \in Calls : /\ call[c].raw \in Nat /\ call[c].n \in Nat /\ call[c].n =< begun
                             /\ call[c].route = "sync" => call[c].device \in Devices /\ call[c].phase # "idle"
  <1>1. \A d \in Devices : device[d] \in Device
    BY DEF TypeOK
  <1>2. \A d \in Devices : device[d].raw \in Nat /\ device[d].waits \in Nat
    BY <1>1, Zenon DEF Device
  <1>3. ASSUME NEW c \in Calls
        PROVE  /\ call[c].raw \in Nat /\ call[c].n \in Nat /\ call[c].n =< begun
               /\ call[c].route = "sync" => call[c].device \in Devices /\ call[c].phase # "idle"
    <2>1. call[c].phase = "idle" => call[c].route = "none"
      <3>1. Idle.route = "none"
        BY Zenon DEF Idle
      <3> QED
        BY <3>1, Current DEF CallOK
    <2> QED
      BY <2>1, Current DEF CallOK, TokenRoutes
  <1>4. begun \in Nat
    BY Bounds DEF TypeOK
  <1> QED
    BY <1>2, <1>3, <1>4

LEMMA RawStep ==
  ASSUME TypeOK, StepsOK, RawOK, [Next]_vars
  PROVE  RawOK' /\ \A d \in Devices : device'[d].raw >= device[d].raw
  <1>0. /\ begun \in Nat
        /\ \A d \in Devices : device[d].raw \in Nat /\ device[d].waits \in Nat
        /\ \A c \in Calls : /\ call[c].raw \in Nat /\ call[c].n \in Nat /\ call[c].n =< begun
                            /\ call[c].route = "sync" => call[c].device \in Devices /\ call[c].phase # "idle"
    BY RawTypes
  <1>1. CASE UNCHANGED vars
    <2>1. device' = device /\ call' = call /\ begun' = begun
      BY <1>1, Zenon DEF vars, readingVars
    <2> QED
      BY <1>0, <2>1 DEF RawOK
  <1>2. ASSUME NEW d \in Devices, GiveUp(d)
        PROVE  RawOK' /\ \A x \in Devices : device'[x].raw >= device[x].raw
    <2>1. device' = [device EXCEPT ![d].waits = 0] /\ call' = call /\ begun' = begun
      BY <1>2, Zenon DEF GiveUp, readingVars
    <2>2. \A x \in Devices : device[x] \in Device
      BY DEF TypeOK
    <2>3. [device[d] EXCEPT !.waits = 0].raw = device[d].raw /\ [device[d] EXCEPT !.waits = 0].waits = 0
      BY <2>2, Zenon DEF Device
    <2>4. /\ \A x \in Devices : device'[x].raw = device[x].raw
          /\ \A x \in Devices : device'[x].waits = device[x].waits \/ device'[x].waits = 0
      <3>1. device'[d] = [device[d] EXCEPT !.waits = 0] /\ \A x \in Devices : x # d => device'[x] = device[x]
        BY <2>1 DEF TypeOK
      <3> QED
        BY <2>3, <3>1
    <2>5. ASSUME NEW c \in Calls, call[c].route = "sync", device'[call[c].device].waits = call[c].n
          PROVE  device[call[c].device].waits = call[c].n
      BY <1>0, <2>4, <2>5 DEF RawOK
    <2> QED
      BY <1>0, <2>1, <2>4, <2>5 DEF RawOK
  <1>3. ASSUME NEW c \in Calls, Request(c)
        PROVE  RawOK' /\ \A x \in Devices : device'[x].raw >= device[x].raw
    <2> DEFINE v == call'[c]
    <2>1. /\ begun' = begun + 1 /\ v.n = begun' /\ \A x \in Calls : x # c => call'[x] = call[x]
          /\ \/ device' = device /\ v.device = "none" /\ v.route \in TokenRoutes
             \/ \E d \in Devices :
                  /\ device' = [device EXCEPT ![d].waits = begun']
                  /\ v.device = d /\ v.raw = device[d].raw
      BY <1>3, RequestCall, Zenon
    <2> HIDE DEF v
    <2>2. CASE device' = device /\ v.route \in TokenRoutes
      <3>1. v.route # "sync"
        BY <2>2 DEF TokenRoutes
      <3>2. \A d \in Devices : /\ device'[d].raw =< begun'
                               /\ device'[d].waits # 0 => device'[d].raw < device'[d].waits
                               /\ device'[d].waits =< begun'
        BY <1>0, <2>1, <2>2 DEF RawOK
      <3>3. ASSUME NEW x \in Calls
            PROVE  /\ call'[x].phase # "idle" => call'[x].n # 0
                   /\ call'[x].route = "sync" => call'[x].raw =< call'[x].n
                   /\ /\ call'[x].route = "sync" /\ device'[call'[x].device].waits = call'[x].n
                      => call'[x].raw >= device'[call'[x].device].raw
        <4>1. CASE x # c
          BY <2>1, <2>2, <4>1 DEF RawOK
        <4>2. CASE x = c
          BY <1>0, <2>1, <3>1, <4>2 DEF v
        <4> QED
          BY <4>1, <4>2
      <3> QED
        BY <1>0, <2>2, <3>2, <3>3 DEF RawOK
    <2>3. ASSUME NEW d \in Devices, device' = [device EXCEPT ![d].waits = begun'],
                 v.device = d, v.raw = device[d].raw
          PROVE  RawOK' /\ \A x \in Devices : device'[x].raw >= device[x].raw
      <3>1. /\ \A x \in Devices : device'[x].raw = device[x].raw
            /\ \A x \in Devices : x # d => device'[x] = device[x]
            /\ device'[d].waits = begun'
        <4>1. device'[d] = [device[d] EXCEPT !.waits = begun'] /\ \A x \in Devices : x # d => device'[x] = device[x]
          BY <2>3 DEF TypeOK
        <4>2. device[d] \in Device
          BY DEF TypeOK
        <4>3. /\ [device[d] EXCEPT !.waits = begun'].raw = device[d].raw
              /\ [device[d] EXCEPT !.waits = begun'].waits = begun'
          BY <4>2, Zenon DEF Device
        <4> QED
          BY <4>1, <4>3
      <3>2. \A x \in Devices : /\ device'[x].raw =< begun'
                               /\ device'[x].waits # 0 => device'[x].raw < device'[x].waits
                               /\ device'[x].waits =< begun'
        BY <1>0, <2>1, <3>1 DEF RawOK
      <3>3. ASSUME NEW x \in Calls
            PROVE  /\ call'[x].phase # "idle" => call'[x].n # 0
                   /\ call'[x].route = "sync" => call'[x].raw =< call'[x].n
                   /\ /\ call'[x].route = "sync" /\ device'[call'[x].device].waits = call'[x].n
                      => call'[x].raw >= device'[call'[x].device].raw
        <4>1. CASE x # c
          <5>1. call'[x] = call[x] /\ call[x].n # begun'
            BY <1>0, <2>1, <4>1
          <5>2. device'[call[x].device].waits = call[x].n /\ call[x].route = "sync"
                => device'[call[x].device] = device[call[x].device]
            BY <1>0, <3>1, <5>1
          <5> QED
            BY <5>1, <5>2 DEF RawOK
        <4>2. CASE x = c
          BY <1>0, <2>1, <2>3, <3>1, <4>2 DEF v, RawOK
        <4> QED
          BY <4>1, <4>2
      <3> QED
        BY <1>0, <3>1, <3>2, <3>3 DEF RawOK
    <2> QED
      BY <2>1, <2>2, <2>3
  <1>4. ASSUME NEW c \in Calls, Work(c) \/ Fault(c) \/ Die(c)
        PROVE  RawOK' /\ \A x \in Devices : device'[x].raw >= device[x].raw
    <2> DEFINE v == call'[c]
    <2>1. begun' = begun /\ (\A x \in Calls : x # c => call'[x] = call[x]) /\ call[c].phase # "idle"
      BY <1>4, OneChanges
    <2>2. /\ v.phase # "idle" => v.n = call[c].n
          /\ v.route = "sync" => /\ call[c].route = "sync" /\ v.n = call[c].n /\ v.device = call[c].device
                                 /\ v.raw \in {call[c].raw, call[c].n}
      <3>1. CASE v = Idle
        <4>1. Idle.phase = "idle" /\ Idle.route = "none"
          BY Zenon DEF Idle
        <4> HIDE DEF v
        <4> QED
          BY <3>1, <4>1
      <3>2. CASE Kept(call[c], v, clock')
        BY <3>2 DEF Kept
      <3>3. CASE TokenStatement(c) /\ v # Idle
        <4>1. v = [call[c] EXCEPT !.todo = Rest(c)] /\ call[c] \in Call
          BY <3>3, Current DEF TokenStatement
        <4>2. v.n = call[c].n /\ v.route = call[c].route /\ v.device = call[c].device /\ v.raw = call[c].raw
          BY <4>1, Zenon DEF Call
        <4> QED
          BY <4>2
      <3> QED
        BY <1>4, <3>1, <3>2, <3>3, WorkCall
    <2> HIDE DEF v
    <2>3. CASE SameTokens
      <3>1. \A d \in Devices : device'[d].raw = device[d].raw /\ device'[d].waits = device[d].waits
        BY <2>3 DEF SameTokens
      <3>2. ASSUME NEW x \in Calls
            PROVE  /\ call'[x].phase # "idle" => call'[x].n # 0
                   /\ call'[x].route = "sync" => call'[x].raw =< call'[x].n
                   /\ /\ call'[x].route = "sync" /\ device'[call'[x].device].waits = call'[x].n
                      => call'[x].raw >= device'[call'[x].device].raw
        <4>1. CASE x # c
          <5>1. call'[x] = call[x]
            BY <2>1, <4>1
          <5> QED
            BY <1>0, <3>1, <5>1 DEF RawOK
        <4>2. CASE x = c
          <5>1. call[c].n # 0 /\ (call[c].route = "sync" => call[c].raw =< call[c].n)
            BY <2>1 DEF RawOK
          <5>2. ASSUME v.route = "sync", device'[v.device].waits = v.n
                PROVE  v.raw >= device'[v.device].raw
            <6>1. call[c].device \in Devices
              BY <1>0, <2>2, <5>2
            <6>2. /\ call[c].raw >= device[call[c].device].raw
                  /\ call[c].n >= device[call[c].device].raw
              BY <1>0, <2>2, <3>1, <5>1, <5>2, <6>1 DEF RawOK
            <6> QED
              BY <2>2, <3>1, <5>2, <6>1, <6>2
          <5> QED
            BY <1>0, <2>2, <4>2, <5>1, <5>2 DEF v
        <4> QED
          BY <4>1, <4>2
      <3> QED
        BY <1>0, <2>1, <3>1, <3>2 DEF RawOK
    <2>4. CASE Told(c)
      <3> DEFINE d == call[c].device
      <3>1. /\ device[d].waits = call[c].n /\ device'[d].waits = 0 /\ d \in Devices
            /\ \A x \in Devices : x # d => device'[x] = device[x]
            /\ \/ device'[d].raw = device[d].raw
               \/ call[c].route = "sync" /\ device'[d].raw = call[c].raw
        BY <2>4, Current DEF Told
      <3>2. /\ call[c].n # 0
            /\ call[c].route = "sync" => call[c].raw =< call[c].n /\ call[c].raw >= device[d].raw
        BY <2>1, <3>1 DEF RawOK
      <3>3. device'[d].raw >= device[d].raw /\ device'[d].raw =< begun
        BY <1>0, <3>1, <3>2 DEF RawOK
      <3>4. ASSUME NEW x \in Calls
            PROVE  /\ call'[x].phase # "idle" => call'[x].n # 0
                   /\ call'[x].route = "sync" => call'[x].raw =< call'[x].n
                   /\ /\ call'[x].route = "sync" /\ device'[call'[x].device].waits = call'[x].n
                      => call'[x].raw >= device'[call'[x].device].raw
        <4>1. CASE x # c
          <5>1. call'[x] = call[x]
            BY <2>1, <4>1
          <5>2. call[x].route = "sync" /\ device'[call[x].device].waits = call[x].n => call[x].device # d
            BY <1>0, <3>1 DEF RawOK
          <5> QED
            BY <1>0, <3>1, <5>1, <5>2 DEF RawOK
        <4>2. CASE x = c
          <5>1. v.phase = "idle" /\ v.route = "none"
            <6>1. Idle.phase = "idle" /\ Idle.route = "none"
              BY Zenon DEF Idle
            <6> QED
              BY <2>4, <6>1 DEF Told, v
          <5> QED
            BY <4>2, <5>1 DEF v
        <4> QED
          BY <4>1, <4>2
      <3> HIDE DEF d
      <3>5. \A x \in Devices : /\ device'[x].raw =< begun'
                               /\ device'[x].waits # 0 => device'[x].raw < device'[x].waits
                               /\ device'[x].waits =< begun'
                               /\ device'[x].raw >= device[x].raw
        BY <1>0, <2>1, <3>1, <3>3 DEF RawOK
      <3> QED
        BY <3>4, <3>5 DEF RawOK
    <2> QED
      BY <1>4, <2>3, <2>4, DeviceAfter
  <1> QED
    BY <1>1, <1>2, <1>3, <1>4 DEF Next

-----------------------------------------------------------------------------
(* What a call of a reading state still has to do: an INSERT is only ever the next   *)
(* statement, and the state is updated right after it was read.                    *)
InOrder(s) ==
  \A i \in 2..Len(s) : s[i] # "insert" /\ (s[i] = "status" => s[i - 1] = "read")

LEMMA TailInOrder ==
  ASSUME NEW s \in Seq(StateSteps), s # <<>>, InOrder(s)
  PROVE  /\ InOrder(Tail(s))
         /\ Tail(s) # <<>> => /\ Head(Tail(s)) # "insert"
                              /\ Head(Tail(s)) = "status" => Head(s) = "read"
  <1>1. /\ Len(s) \in Nat /\ Len(s) # 0 /\ Len(Tail(s)) = Len(s) - 1 /\ Tail(s) \in Seq(StateSteps)
        /\ \A i \in 1..(Len(s) - 1) : Tail(s)[i] = s[i + 1]
    BY HeadTailProperties
  <1>2. ASSUME NEW i \in 2..Len(Tail(s))
        PROVE  Tail(s)[i] # "insert" /\ (Tail(s)[i] = "status" => Tail(s)[i - 1] = "read")
    <2>1. /\ i + 1 \in 2..Len(s) /\ i - 1 \in 1..(Len(s) - 1) /\ i \in 1..(Len(s) - 1)
          /\ (i + 1) - 1 = i /\ (i - 1) + 1 = i
      BY <1>1
    <2>2. Tail(s)[i] = s[i + 1] /\ Tail(s)[i - 1] = s[i]
      BY <1>1, <2>1
    <2> QED
      BY <2>1, <2>2 DEF InOrder
  <1>3. ASSUME Tail(s) # <<>>
        PROVE  Head(Tail(s)) # "insert" /\ (Head(Tail(s)) = "status" => Head(s) = "read")
    <2>1. Len(Tail(s)) # 0
      BY <1>1, <1>3
    <2>2. 2 \in 2..Len(s) /\ 1 \in 1..(Len(s) - 1) /\ 2 - 1 = 1 /\ 1 + 1 = 2
      BY <1>1, <2>1
    <2>3. Head(Tail(s)) = s[2] /\ Head(s) = s[1]
      BY <1>1, <1>3, <2>2
    <2> QED
      BY <2>2, <2>3 DEF InOrder
  <1> QED
    BY <1>2, <1>3 DEF InOrder

LEMMA AgainInOrder ==
  ASSUME NEW s \in Seq(StateSteps), s # <<>>, InOrder(s), Head(s) # "read", NEW x \in StateSteps
  PROVE  InOrder(<<x>> \o Tail(s))
  <1> DEFINE t == Tail(s)
             u == <<x>> \o t
  <1>1. /\ Len(s) \in Nat /\ Len(s) # 0 /\ Len(t) = Len(s) - 1 /\ t \in Seq(StateSteps)
        /\ \A i \in 1..(Len(s) - 1) : t[i] = s[i + 1]
    BY HeadTailProperties
  <1>2. Len(u) = Len(s) /\ u[1] = x /\ \A i \in 2..Len(s) : u[i] = t[i - 1]
    <2> HIDE DEF t
    <2> QED
      BY <1>1
  <1> HIDE DEF u
  <1>3. \A i \in 2..Len(s) : u[i] = s[i]
    BY <1>1, <1>2
  <1>4. ASSUME NEW i \in 2..Len(u)
        PROVE  u[i] # "insert" /\ (u[i] = "status" => u[i - 1] = "read")
    <2>1. i \in 2..Len(s) /\ u[i] = s[i] /\ s[i] # "insert" /\ (s[i] = "status" => s[i - 1] = "read")
      BY <1>2, <1>3, <1>4 DEF InOrder
    <2>2. CASE i = 2
      <3>1. s[i - 1] = Head(s)
        BY <2>2
      <3> QED
        BY <2>1, <3>1
    <2>3. CASE i # 2
      <3>1. i - 1 \in 2..Len(s)
        BY <1>1, <2>1, <2>3
      <3> QED
        BY <1>3, <2>1, <3>1
    <2> QED
      BY <2>2, <2>3
  <1> QED
    BY <1>4 DEF InOrder, u

LEMMA NewInOrder ==
  /\ InOrder(<<>>)
  /\ InOrder(Contact)
  /\ \A put : InOrder(Update(put))
  <1>1. InOrder(<<>>)
    BY DEF InOrder
  <1>2. InOrder(Contact)
    BY DEF InOrder, Contact
  <1>3. ASSUME NEW put PROVE InOrder(Update(put))
    <2> DEFINE C == <<"find", "seekBookmark", "seekStatistics", "read">>
    <2>1. CASE ~put.readable
      BY <1>1, <2>1 DEF Update
    <2>2. CASE put.readable /\ "bookmark" \in put.sides /\ "statistics" \in put.sides
      <3>1. Update(put) = C \o <<"status", "bookmark", "statistics">> \o C
        BY <2>2 DEF Update, Contact, Writes
      <3> QED
        BY <3>1 DEF InOrder
    <2>3. CASE put.readable /\ "bookmark" \in put.sides /\ "statistics" \notin put.sides
      <3>1. Update(put) = C \o <<"status", "bookmark">> \o C
        BY <2>3 DEF Update, Contact, Writes
      <3> QED
        BY <3>1 DEF InOrder
    <2>4. CASE put.readable /\ "bookmark" \notin put.sides /\ "statistics" \in put.sides
      <3>1. Update(put) = C \o <<"status", "statistics">> \o C
        BY <2>4 DEF Update, Contact, Writes
      <3> QED
        BY <3>1 DEF InOrder
    <2>5. CASE put.readable /\ "bookmark" \notin put.sides /\ "statistics" \notin put.sides
      <3>1. Update(put) = C \o <<"status">> \o C
        BY <2>5 DEF Update, Contact, Writes
      <3> QED
        BY <3>1 DEF InOrder
    <2> QED
      BY <2>1, <2>2, <2>3, <2>4, <2>5
  <1> QED
    BY <1>1, <1>2, <1>3

(* What a step of a call of a reading state leaves of its work. *)
Goes(c) ==
  LET k == call[c]
      v == call'[c]
      row == Rows(c)[k.row] IN
  \/ v.todo = <<>>
  \/ v.todo = Contact
  \/ /\ v.todo = k.todo /\ v.books = k.books /\ v.row = k.row
     /\ v.status = k.status /\ v.times = k.times /\ state' = state
  \/ /\ k.todo # <<>> /\ v.books = k.books /\ Head(k.todo) # "read" /\ v.todo = Rest(c)
  \/ /\ k.todo # <<>> /\ v.books = k.books /\ Head(k.todo) = "read" /\ v.todo = Rest(c)
     /\ v.row = k.row /\ v.status = row.status /\ v.times = row.times /\ state' = state
  \/ /\ k.todo # <<>> /\ v.books = k.books /\ Head(k.todo) # "read"
     /\ \E x \in StateSteps \ {"status"} :
          v.todo = <<x>> \o Rest(c) /\ (x = "insert" => Rows(c) = <<>> /\ state' = state)

LEMMA FinishGoes ==
  ASSUME TypeOK, StepsOK, NEW c \in Calls, NEW source \in Sources, NEW raw \in Nat, Finish(c, source, raw),
         call[c].phase # "idle"
  PROVE  Goes(c)
  <1>1. call \in [Calls -> Call] /\ CallOK(call[c], state, begun) /\ begun \in Nat
    BY Current
  <1>2. PICK v \in Call : call' = [call EXCEPT ![c] = v] /\ Answered(call[c], v, source, raw)
    BY <1>1, FinishCall
  <1>3. call'[c] = v
    BY <1>1, <1>2
  <1>4. Idle.todo = <<>>
    BY Zenon DEF Idle
  <1>5. v.todo = <<>>
    BY <1>2, <1>4 DEF Answered
  <1> QED
    BY <1>3, <1>5 DEF Goes

LEMMA IdleGoes ==
  ASSUME NEW c \in Calls, call \in [Calls -> Call], call' = [call EXCEPT ![c] = Idle]
  PROVE  Goes(c)
  <1>1. Idle.todo = <<>> /\ call'[c] = Idle
    BY Zenon DEF Idle
  <1> QED
    BY <1>1 DEF Goes

LEMMA RefuseGoes ==
  ASSUME TypeOK, StepsOK, NEW c \in Calls, Refuse(c)
  PROVE  Goes(c)
  <1>1. call \in [Calls -> Call] /\ call[c] \in Call
    BY Current
  <1>2. call'[c].todo = <<>>
    BY <1>1, Zenon DEF Refuse, Call
  <1> QED
    BY <1>2 DEF Goes

LEMMA PhaseGoes ==
  ASSUME TypeOK, StepsOK, NEW c \in Calls, NEW phase, state' = state,
         call' = [call EXCEPT ![c].phase = phase] \/ call' = [call EXCEPT ![c].at = clock', ![c].phase = phase]
  PROVE  Goes(c)
  <1>1. call \in [Calls -> Call] /\ call[c] \in Call
    BY Current
  <1> DEFINE k == call[c]
             v == call'[c]
  <1>2. v = [k EXCEPT !.phase = phase] \/ v = [k EXCEPT !.at = clock', !.phase = phase]
    BY <1>1, Zenon
  <1>3. v.todo = k.todo /\ v.books = k.books /\ v.row = k.row /\ v.status = k.status /\ v.times = k.times
    BY <1>1, <1>2, Zenon DEF Call
  <1> QED
    BY <1>3, Zenon DEF Goes

LEMMA FollowGoes ==
  ASSUME TypeOK, StepsOK, NEW c \in Calls, NEW todo, Follow(c, todo),
         NEW s, Due(c, s), s # "read",
         \/ todo = Rest(c)
         \/ \E x \in StateSteps \ {"status", "insert"} : todo = <<x>> \o Rest(c)
  PROVE  Goes(c)
  <1> DEFINE k == call[c]
             v == call'[c]
  <1>1. call \in [Calls -> Call] /\ k \in Call
    BY Current
  <1>2. v = [k EXCEPT !.todo = todo]
    BY <1>1, Zenon DEF Follow
  <1>3. v.todo = todo /\ v.books = k.books
    BY <1>1, <1>2, Zenon DEF Call
  <1>4. k.todo # <<>> /\ Head(k.todo) # "read"
    BY DEF Due
  <1> HIDE DEF v
  <1>5. CASE todo = Rest(c)
    BY <1>3, <1>4, <1>5, Zenon DEF Goes, v
  <1>6. CASE \E x \in StateSteps \ {"status", "insert"} : todo = <<x>> \o Rest(c)
    <2>1. PICK x \in StateSteps \ {"status", "insert"} : todo = <<x>> \o Rest(c)
      BY <1>6
    <2>2. x \in StateSteps \ {"status"} /\ x # "insert"
      BY <2>1
    <2> QED
      BY <1>3, <1>4, <2>1, <2>2, Zenon DEF Goes, v
  <1> QED
    BY <1>5, <1>6

LEMMA StatementGoes ==
  ASSUME TypeOK, StepsOK, NEW c \in Calls, Statement(c), call[c].route \in StateRoutes
  PROVE  Goes(c)
  <1> DEFINE k == call[c]
             v == call'[c]
  <1>1. call \in [Calls -> Call] /\ k \in Call
    BY Current
  <1>2. CASE Find(c)
    <2>1. Due(c, "find") /\ state' = state
      BY <1>2 DEF Find
    <2>2. k.todo # <<>> /\ Head(k.todo) # "read"
      BY <2>1 DEF Due
    <2>3. CASE call' = [call EXCEPT ![c].row = 1, ![c].todo = Rest(c)]
      <3>1. v = [k EXCEPT !.row = 1, !.todo = Rest(c)]
        BY <1>1, <2>3, Zenon
      <3>2. v.todo = Rest(c) /\ v.books = k.books
        BY <1>1, <3>1, Zenon DEF Call
      <3> QED
        BY <2>2, <3>2, Zenon DEF Goes
    <2>4. CASE /\ Rows(c) = <<>>
               /\ call' = [call EXCEPT ![c].stamp = clock', ![c].todo = <<"insert">> \o Rest(c)]
      <3>1. v = [k EXCEPT !.stamp = clock', !.todo = <<"insert">> \o Rest(c)]
        BY <1>1, <2>4, Zenon
      <3>2. v.todo = <<"insert">> \o Rest(c) /\ v.books = k.books
        BY <1>1, <3>1, Zenon DEF Call
      <3>3. "insert" \in StateSteps \ {"status"}
        BY DEF StateSteps
      <3> HIDE DEF v
      <3> QED
        BY <2>1, <2>2, <2>4, <3>2, <3>3, Zenon DEF Goes, v
    <2> QED
      BY <1>2, <2>3, <2>4, RefuseGoes, Zenon DEF Find
  <1>3. CASE InsertState(c)
    <2>1. Due(c, "insert")
      BY <1>3 DEF InsertState
    <2>2. k.todo # <<>> /\ Head(k.todo) # "read"
      BY <2>1 DEF Due
    <2>3. v = [k EXCEPT !.row = Len(Rows(c)) + 1, !.stamp = 0, !.todo = Rest(c)]
      BY <1>1, <1>3, Zenon DEF InsertState
    <2>4. v.todo = Rest(c) /\ v.books = k.books
      BY <1>1, <2>3, Zenon DEF Call
    <2> QED
      BY <2>2, <2>4, Zenon DEF Goes
  <1>4. CASE Read(c)
    <2> DEFINE row == Rows(c)[k.row]
               seen == [k EXCEPT !.shown[Book(c)] = row.at]
               more == IF Len(k.books) > 1 THEN Contact ELSE <<>>
    <2>0. Due(c, "read") /\ state' = state
      BY <1>4 DEF Read
    <2>1. \/ v = [seen EXCEPT !.books = Tail(k.books), !.todo = more]
          \/ v = [seen EXCEPT !.status = row.status, !.times = row.times, !.todo = Rest(c)]
      BY <1>1, <1>4, Zenon DEF Read
    <2>2. k.todo # <<>> /\ Head(k.todo) = "read"
      BY <2>0 DEF Due
    <2>3. CASE v = [seen EXCEPT !.books = Tail(k.books), !.todo = more]
      <3>1. v.todo = more
        <4> HIDE DEF row, more
        <4> QED
          BY <1>1, <2>3, Zenon DEF Call
      <3> QED
        BY <3>1 DEF Goes
    <2>4. CASE v = [seen EXCEPT !.status = row.status, !.times = row.times, !.todo = Rest(c)]
      <3>1. /\ v.todo = Rest(c) /\ v.books = k.books /\ v.row = k.row
            /\ v.status = row.status /\ v.times = row.times
        <4> HIDE DEF row
        <4> QED
          BY <1>1, <2>4, Zenon DEF Call
      <3> HIDE DEF v
      <3> QED
        BY <2>0, <2>2, <3>1, Zenon DEF Goes, v
    <2> QED
      BY <2>1, <2>3, <2>4
  <1>5. ~SelectStates(c)
    <2> SUFFICES ASSUME SelectStates(c) PROVE FALSE
      OBVIOUS
    <2>1. Due(c, "states")
      BY DEF SelectStates
    <2>2. k.route = "sync"
      BY <2>1, DueStep, Zenon
    <2> QED
      BY <2>2 DEF StateRoutes
  <1>6. CASE UpdateStatus(c)
    <2>1. Due(c, "status") /\ Follow(c, Rest(c))
      BY <1>6 DEF UpdateStatus
    <2> QED
      BY <2>1, FollowGoes
  <1>7. ASSUME NEW side, NEW seek, NEW insert \in {"insertBookmark", "insertStatistics"},
               Seek(c, side, seek, insert), seek # "read"
        PROVE  Goes(c)
    <2>1. Due(c, seek) /\ (Follow(c, Rest(c)) \/ Follow(c, <<insert>> \o Rest(c)))
      BY <1>7, Zenon DEF Seek
    <2>2. insert \in StateSteps \ {"status", "insert"}
      BY <1>7 DEF StateSteps, RowSteps
    <2> QED
      BY <1>7, <2>1, <2>2, FollowGoes
  <1>8. ASSUME NEW side, NEW insert, InsertSide(c, side, insert), insert # "read" PROVE Goes(c)
    <2>1. Due(c, insert) /\ (Follow(c, Rest(c)) \/ Refuse(c))
      BY <1>8, Zenon DEF InsertSide
    <2> QED
      BY <1>8, <2>1, FollowGoes, RefuseGoes
  <1>9. ASSUME NEW side \in Sides, UpdateSide(c, side) PROVE Goes(c)
    <2>1. Due(c, side) /\ Follow(c, Rest(c)) /\ side # "read"
      BY <1>9 DEF UpdateSide, Sides
    <2> QED
      BY <2>1, FollowGoes
  <1> QED
    BY <1>2, <1>3, <1>4, <1>5, <1>6, <1>7, <1>8, <1>9 DEF Statement

LEMMA WorkGoes ==
  ASSUME TypeOK, StepsOK, NEW c \in Calls, Work(c) \/ Fault(c) \/ Die(c), call[c].route \in StateRoutes
  PROVE  Goes(c)
  <1> DEFINE k == call[c]
  <1>1. call \in [Calls -> Call] /\ k \in Call /\ k.raw \in Nat /\ k.n \in Nat
    BY Current
  <1>2. {"local", "store", "error", "unauthorized"} \subseteq Sources
    BY DEF Sources
  <1>3. ASSUME NEW source \in {"local", "store", "error", "unauthorized"}, NEW raw \in {0, k.raw, k.n},
               Finish(c, source, raw)
        PROVE  Goes(c)
    <2>1. k.phase # "idle"
      BY OneChanges
    <2> QED
      BY <1>1, <1>2, <1>3, <2>1, FinishGoes
  <1>4. ~TokenStatement(c) /\ ~Metadata(c) /\ ~Download(c) /\ ~Cover(c)
    <2>1. ASSUME NEW s \in {"revokeAll", "revokeOne", "insertToken", "files", "file", "cover"}, Due(c, s)
          PROVE  FALSE
      <3>1. k.route \in {"create token", "revoke token", "GET metadata", "local"}
        BY <2>1, DueStep DEF TokenRoutes
      <3> QED
        BY <3>1 DEF StateRoutes
    <2> QED
      BY <2>1 DEF TokenStatement, Metadata, Download, Cover
  <1>5. CASE Authenticate(c)
    <2>1. state' = state
      BY <1>5 DEF Authenticate
    <2>2. Finish(c, "unauthorized", 0)
          \/ \E phase : call' = [call EXCEPT ![c].at = clock', ![c].phase = phase]
      BY <1>5, Zenon DEF Authenticate
    <2> QED
      BY <1>3, <2>1, <2>2, PhaseGoes
  <1>6. CASE Served(c) \/ Refused(c) \/ Proxy(c) \/ LogCall(c)
    <2>1. state' = state
      BY <1>6 DEF Served, Refused, Proxy, LogCall
    <2>2. \/ \E source \in {"local", "store", "error", "unauthorized"}, raw \in {0, k.raw, k.n} :
               Finish(c, source, raw)
          \/ \E phase : call' = [call EXCEPT ![c].phase = phase]
      BY <1>6 DEF Served, Refused, Proxy, LogCall, RawAfterFailure
    <2> QED
      BY <1>3, <2>1, <2>2, PhaseGoes
  <1>7. CASE Answer(c) \/ Die(c)
    <2>1. call' = [call EXCEPT ![c] = Idle]
      BY <1>7 DEF Answer, Die
    <2> QED
      BY <1>1, <2>1, IdleGoes
  <1>8. CASE Fault(c)
    <2>1. CASE call' = [call EXCEPT ![c] = Idle]
      BY <1>1, <2>1, IdleGoes
    <2>2. CASE call' = [call EXCEPT ![c] = [@ EXCEPT !.phase = "refused", !.todo = <<>>]]
      <3>1. Refuse(c)
        BY <2>2, Zenon DEF Refuse
      <3> QED
        BY <3>1, RefuseGoes
    <2>3. \/ Finish(c, "unauthorized", 0)
          \/ call' = [call EXCEPT ![c] = Idle]
          \/ call' = [call EXCEPT ![c] = [@ EXCEPT !.phase = "refused", !.todo = <<>>]]
      BY <1>8, Zenon DEF Fault
    <2> QED
      BY <1>3, <2>1, <2>2, <2>3
  <1>9. CASE Statement(c)
    BY <1>9, StatementGoes
  <1> QED
    BY <1>4, <1>5, <1>6, <1>7, <1>8, <1>9 DEF Work

-----------------------------------------------------------------------------
(* What a step does to the counters of the rows there are: the starts only grow, and  *)
(* grow whenever a row comes to be Reading; only the write of a status changes the     *)
(* number of times the book was started, to what the call read and maybe one more.    *)
Goal(c) == StatusOrDefault(call[c].put.status)

Counted(c, old, new) ==
  /\ new.times  = call[c].times + (IF Goal(c) = "Reading" /\ call[c].status # "Reading" THEN 1 ELSE 0)
  /\ new.starts = old.starts + (IF Goal(c) = "Reading" /\ old.status # "Reading" THEN 1 ELSE 0)

Counts(c) ==
  \A b \in Books : \A i \in DOMAIN state[b] :
    LET old == state[b][i]
        new == state'[b][i] IN
    /\ new.starts \in Nat /\ new.starts >= old.starts
    /\ new.status = "Reading" => old.status = "Reading" \/ new.starts > old.starts
    /\ \/ new.times = old.times
       \/ Due(c, "status") /\ b = Book(c) /\ i = call[c].row /\ Counted(c, old, new)

LEMMA RowTypes ==
  ASSUME TypeOK, NEW b \in Books, NEW i \in DOMAIN state[b]
  PROVE  /\ state[b][i] \in Row /\ state[b][i].starts \in Nat /\ state[b][i].times \in Nat
         /\ state[b][i].owner \in Nat /\ state[b][i].since \in Nat
         /\ DOMAIN state[b] = 1..Len(state[b]) /\ Len(state[b]) \in Nat
  <1>1. state[b] \in Seq(Row)
    BY DEF TypeOK
  <1>2. state[b][i] \in Row /\ DOMAIN state[b] = 1..Len(state[b]) /\ Len(state[b]) \in Nat
    BY <1>1
  <1> QED
    BY <1>2, Zenon DEF Row

LEMMA SameCounts ==
  ASSUME TypeOK, NEW c \in Calls,
         \A b \in Books : \A i \in DOMAIN state[b] :
           /\ state'[b][i].starts = state[b][i].starts /\ state'[b][i].status = state[b][i].status
           /\ state'[b][i].times = state[b][i].times
  PROVE  Counts(c)
  <1>1. \A b \in Books : \A i \in DOMAIN state[b] : state[b][i].starts \in Nat
    BY RowTypes
  <1>2. \A b \in Books : \A i \in DOMAIN state[b] :
          state'[b][i].starts \in Nat /\ state'[b][i].starts >= state[b][i].starts
    BY <1>1
  <1> QED
    BY <1>2, Zenon DEF Counts

LEMMA CountsAfter ==
  ASSUME TypeOK, StepsOK, NEW c \in Calls, Statement(c)
  PROVE  Counts(c)
  <1> DEFINE k == call[c]
             b == Book(c)
             old == state[b][k.row]
  <1>1. CASE state' = state
    BY <1>1, SameCounts
  <1>2. CASE InsertState(c)
    <2>1. CASE Inserts(c)
      <3>1. \A x \in Books : \A i \in DOMAIN state[x] : state'[x][i] = state[x][i]
        BY <2>1, Zenon DEF Inserts, Rows
      <3> QED
        BY <3>1, SameCounts
    <2> DEFINE row == NewState(k.stamp, k.n)
    <2>2. "insert" \in StateSteps
      BY DEF StateSteps
    <2>3. Due(c, "insert") /\ state' = [state EXCEPT ![b] = Append(state[b], row)]
      BY <1>2, Zenon DEF InsertState
    <2>4. b \in Books /\ state[b] \in Seq(Row) /\ state \in [Books -> Seq(Row)]
      BY <2>2, <2>3, StateCall, Current DEF Rows
    <2> HIDE DEF b, row
    <2>5. state'[b] = Append(state[b], row) /\ \A x \in Books : x # b => state'[x] = state[x]
      BY <2>3, <2>4
    <2>6. \A i \in DOMAIN state[b] : Append(state[b], row)[i] = state[b][i]
      BY <2>4
    <2>7. \A x \in Books : \A i \in DOMAIN state[x] : state'[x][i] = state[x][i]
      BY <2>5, <2>6
    <2> QED
      BY <2>7, SameCounts
  <1>3. ASSUME NEW s \in RowSteps, Due(c, s)
        PROVE  b \in Books /\ k.row \in 1..Len(state[b]) /\ old \in Row /\ old.starts \in Nat
    <2>1. s \in StateSteps
      BY DEF StateSteps
    <2>2. b \in Books /\ k.row \in 1..Len(state[b]) /\ state[b] \in Seq(Row)
      BY <1>3, <2>1, StateCall DEF Rows
    <2>3. k.row \in DOMAIN state[b]
      BY <2>2
    <2> QED
      BY <2>2, <2>3, RowTypes
  <1>4. ASSUME NEW row \in Row, b \in Books, k.row \in 1..Len(state[b]),
               state' = [state EXCEPT ![b][k.row] = row]
        PROVE  \A x \in Books : \A i \in DOMAIN state[x] :
                 state'[x][i] = IF x = b /\ i = k.row THEN row ELSE state[x][i]
    <2>1. state \in [Books -> Seq(Row)]
      BY Current
    <2> HIDE DEF b
    <2>2. \A x \in Books : \A j \in 1..Len(state[x]) :
            state'[x][j] = IF x = b /\ j = k.row THEN row ELSE state[x][j]
      BY <1>4, <2>1, RowChanged
    <2>3. \A x \in Books : DOMAIN state[x] = 1..Len(state[x])
      BY <2>1
    <2> QED
      BY <2>2, <2>3, Zenon
  <1>5. CASE UpdateStatus(c)
    <2> DEFINE next == StatusOrDefault(k.put.status)
               times == k.times + (IF Begins(c) THEN 1 ELSE 0)
               starts == old.starts + (IF next = "Reading" /\ old.status # "Reading" THEN 1 ELSE 0)
               late == k.at =< issued
               new == [old EXCEPT !.status = next, !.at = k.at, !.times = times,
                                  !.starts = starts, !.late = late]
    <2>1. "status" \in RowSteps
      BY DEF RowSteps
    <2>2. Due(c, "status") /\ state' = [state EXCEPT ![b][k.row] = new]
      BY <1>5 DEF UpdateStatus, Rows
    <2>3. b \in Books /\ k.row \in 1..Len(state[b]) /\ old \in Row /\ old.starts \in Nat
      BY <1>3, <2>1, <2>2
    <2>4. new \in Row /\ new.times = times /\ new.starts = starts /\ new.status = next
      <3>1. k.times \in Nat /\ k.at \in Nat
        BY Current, Zenon DEF Call
      <3>2. times \in Nat /\ starts \in Nat
        BY <2>3, <3>1
      <3>3. next \in Statuses
        BY DEF StatusOrDefault, Statuses
      <3>4. late \in BOOLEAN
        OBVIOUS
      <3> HIDE DEF times, starts, next, late, old
      <3> QED
        BY <2>3, <3>1, <3>2, <3>3, <3>4, Zenon DEF Row
    <2>5. /\ starts \in Nat /\ starts >= old.starts /\ (next = "Reading" => old.status = "Reading" \/ starts > old.starts)
      BY <2>3
    <2>6. Counted(c, old, new)
      BY <2>4 DEF Counted, Goal, Begins
    <2> HIDE DEF new
    <2>7. \A x \in Books : \A i \in DOMAIN state[x] :
            state'[x][i] = IF x = b /\ i = k.row THEN new ELSE state[x][i]
      BY <1>4, <2>2, <2>3, <2>4
    <2> HIDE DEF next, times, starts, late
    <2>8. new.starts \in Nat /\ new.starts >= old.starts /\ (new.status = "Reading" => old.status = "Reading" \/ new.starts > old.starts)
      BY <2>4, <2>5
    <2>9. \A x \in Books : \A i \in DOMAIN state[x] :
            state[x][i].starts \in Nat /\ state[x][i].starts >= state[x][i].starts
      BY RowTypes
    <2>10. ASSUME NEW x \in Books, NEW i \in DOMAIN state[x]
           PROVE  LET was == state[x][i]
                      is  == state'[x][i] IN
                  /\ is.starts \in Nat /\ is.starts >= was.starts
                  /\ is.status = "Reading" => was.status = "Reading" \/ is.starts > was.starts
                  /\ \/ is.times = was.times
                     \/ Due(c, "status") /\ x = b /\ i = k.row /\ Counted(c, was, is)
      <3>1. CASE x = b /\ i = k.row
        <4>1. state'[x][i] = new /\ state[x][i] = old
          BY <2>7, <3>1
        <4> QED
          BY <2>2, <2>6, <2>8, <3>1, <4>1, Zenon
      <3>2. CASE ~(x = b /\ i = k.row)
        <4>1. state'[x][i] = state[x][i]
          BY <2>7, <3>2
        <4> QED
          BY <2>9, <4>1, Zenon
      <3> QED
        BY <3>1, <3>2
    <2> QED
      BY <2>10, Zenon DEF Counts
  <1>6. ASSUME NEW side \in Sides, NEW time \in Int, NEW s \in RowSteps, Due(c, s),
               state' = [state EXCEPT ![b][k.row].side[side] = time]
        PROVE  Counts(c)
    <2> DEFINE new == [old EXCEPT !.side[side] = time]
    <2>1. b \in Books /\ k.row \in 1..Len(state[b]) /\ old \in Row
      BY <1>3, <1>6
    <2>2. new \in Row /\ new.starts = old.starts /\ new.status = old.status /\ new.times = old.times
      <3> HIDE DEF old
      <3> QED
        BY <1>6, <2>1, Zenon DEF Row
    <2>3. state' = [state EXCEPT ![b][k.row] = new]
      BY <1>6, Zenon
    <2> HIDE DEF new
    <2>4. \A x \in Books : \A i \in DOMAIN state[x] :
            state'[x][i] = IF x = b /\ i = k.row THEN new ELSE state[x][i]
      BY <1>4, <2>1, <2>2, <2>3
    <2>5. \A x \in Books : \A i \in DOMAIN state[x] :
            /\ state'[x][i].starts = state[x][i].starts /\ state'[x][i].status = state[x][i].status
            /\ state'[x][i].times = state[x][i].times
      BY <2>2, <2>4, Zenon
    <2> QED
      BY <2>5, SameCounts
  <1>7. {"insertBookmark", "insertStatistics", "bookmark", "statistics"} \subseteq RowSteps
        /\ Sides = {"bookmark", "statistics"} /\ 0 \in Int
    BY DEF RowSteps, Sides
  <1>8. ASSUME NEW side \in Sides, NEW s \in RowSteps, InsertSide(c, side, s) PROVE Counts(c)
    <2>1. Due(c, s) /\ (state' = state \/ state' = [state EXCEPT ![b][k.row].side[side] = 0])
      BY <1>8, Zenon DEF InsertSide
    <2> QED
      BY <1>1, <1>6, <1>7, <2>1
  <1>9. ASSUME NEW side \in Sides, UpdateSide(c, side) PROVE Counts(c)
    <2>1. k.at \in Int /\ side \in RowSteps
      BY <1>7, Current
    <2> QED
      BY <1>6, <1>9, <2>1 DEF UpdateSide
  <1> QED
    BY <1>1, <1>2, <1>5, <1>7, <1>8, <1>9, Zenon DEF Statement, Find, Read, SelectStates, Seek

-----------------------------------------------------------------------------
(* What a step does to the rows there are, and the one it may add. *)
Adds(c, b, i) ==
  /\ b = Book(c) /\ Due(c, "insert")
  /\ \A j \in DOMAIN state[b] : j < i
  /\ \A j \in DOMAIN state'[b] : j \notin DOMAIN state[b] => j = i
  /\ state'[b][i].owner = call[c].n /\ state'[b][i].since = begun
  /\ state'[b][i].times = 0 /\ state'[b][i].starts = 0

LEMMA Moves ==
  ASSUME TypeOK, StepsOK, NEW c \in Calls, Work(c) \/ Fault(c) \/ Die(c)
  PROVE  /\ Counts(c)
         /\ \A b \in Books : \A i \in DOMAIN state[b] :
              /\ i \in DOMAIN state'[b]
              /\ state'[b][i].owner = state[b][i].owner /\ state'[b][i].since = state[b][i].since
         /\ \A b \in Books : \A i \in DOMAIN state'[b] : i \notin DOMAIN state[b] => Adds(c, b, i)
  <1>1. CASE state' = state
    BY <1>1, SameCounts
  <1>2. CASE Statement(c) /\ Changes(c)
    BY <1>2, CountsAfter, Zenon DEF Changes
  <1>3. CASE Statement(c) /\ Inserts(c)
    <2> DEFINE row == NewState(call[c].stamp, call[c].n)
    <2>0. "insert" \in StateSteps
      BY DEF StateSteps
    <2>1. /\ Due(c, "insert") /\ \A b \in Books : b # Book(c) => state'[b] = state[b]
          /\ DOMAIN state'[Book(c)] = 1..(Len(state[Book(c)]) + 1)
          /\ \A i \in DOMAIN state[Book(c)] : state'[Book(c)][i] = state[Book(c)][i]
          /\ state'[Book(c)][Len(state[Book(c)]) + 1] = row
      BY <1>3 DEF Inserts, Rows
    <2>2. state[Book(c)] \in Seq(Row) /\ Book(c) \in Books
      BY <2>0, <2>1, StateCall DEF Rows
    <2>3. row.owner = call[c].n /\ row.since = begun /\ row.times = 0 /\ row.starts = 0
      BY Zenon DEF NewState
    <2> HIDE DEF row
    <2>4. ASSUME NEW b \in Books, NEW i \in DOMAIN state[b]
          PROVE  i \in DOMAIN state'[b] /\ state'[b][i] = state[b][i]
      <3>1. CASE b = Book(c)
        <4>1. DOMAIN state[Book(c)] = 1..Len(state[Book(c)]) /\ Len(state[Book(c)]) \in Nat
          BY <2>2
        <4> QED
          BY <2>1, <2>4, <3>1, <4>1
      <3> QED
        BY <2>1, <2>4, <3>1
    <2>5. ASSUME NEW b \in Books, NEW i \in DOMAIN state'[b], i \notin DOMAIN state[b]
          PROVE  Adds(c, b, i)
      <3>1. b = Book(c)
        BY <2>1, <2>5
      <3>2. DOMAIN state[Book(c)] = 1..Len(state[Book(c)]) /\ Len(state[Book(c)]) \in Nat
        BY <2>2
      <3>3. i = Len(state[Book(c)]) + 1
        BY <2>1, <2>5, <3>1, <3>2
      <3>4. \A j \in DOMAIN state[b] : j < i
        BY <3>1, <3>2, <3>3
      <3>5. \A j \in DOMAIN state'[b] : j \notin DOMAIN state[b] => j = i
        BY <2>1, <3>1, <3>2, <3>3
      <3> QED
        BY <2>1, <2>3, <3>1, <3>3, <3>4, <3>5 DEF Adds
    <2> QED
      BY <1>3, <2>4, <2>5, CountsAfter
  <1> QED
    BY <1>1, <1>2, <1>3, ClockGrows, RowsAfter

(* What is true of a call of a reading state: its todo is in order, an INSERT that is  *)
(* due finds only states inserted since the call began, and the status it read is      *)
(* behind the row's by at least the starts it has not seen.                          *)
MayInsert(k, rows) == \A i \in DOMAIN rows : k.n =< rows[i].since

MayCount(k, row) ==
  /\ k.times =< row.starts
  /\ row.status = "Reading" /\ k.status # "Reading" => k.times < row.starts

Fits(k, rows) ==
  /\ InOrder(k.todo)
  /\ k.todo # <<>> /\ Head(k.todo) = "insert" => MayInsert(k, rows[Head(k.books)])
  /\ k.todo # <<>> /\ Head(k.todo) = "status" => MayCount(k, rows[Head(k.books)][k.row])

StatesOK ==
  /\ \A c \in Calls : call[c].route \in StateRoutes => Fits(call[c], state)
  /\ SecondStateNeedsOverlap
  /\ StartsAreReal

LEMMA OthersFit ==
  ASSUME TypeOK, StepsOK, NEW c \in Calls, Work(c) \/ Fault(c) \/ Die(c),
         NEW x \in Calls, call[x].route \in StateRoutes, Fits(call[x], state)
  PROVE  Fits(call[x], state')
  <1> DEFINE k == call[x]
             b == Head(k.books)
  <1>1. k \in Call /\ k.n \in Nat /\ k.n =< begun /\ begun \in Nat /\ k.books \in Seq(Books)
        /\ (k.todo # <<>> => k.books # <<>>)
    BY Current DEF CallOK, StateRoutes, BookRoutes
  <1>2. k.times \in Nat
    BY <1>1, Zenon DEF Call
  <1>3. k.todo # <<>> => b \in Books
    BY <1>1
  <1>4. ASSUME k.todo # <<>>, Head(k.todo) = "insert" PROVE MayInsert(k, state'[b])
    <2>1. MayInsert(k, state[b])
      BY <1>4 DEF Fits
    <2>2. ASSUME NEW i \in DOMAIN state'[b] PROVE k.n =< state'[b][i].since
      <3>1. CASE i \in DOMAIN state[b]
        <4>1. state'[b][i].since = state[b][i].since
          BY <1>3, <1>4, <3>1, Moves
        <4> QED
          BY <2>1, <3>1, <4>1 DEF MayInsert
      <3>2. CASE i \notin DOMAIN state[b]
        <4>1. state'[b][i].since = begun
          BY <1>3, <1>4, <2>2, <3>2, Moves DEF Adds
        <4> QED
          BY <1>1, <4>1
      <3> QED
        BY <3>1, <3>2
    <2> QED
      BY <2>2 DEF MayInsert
  <1>5. ASSUME k.todo # <<>>, Head(k.todo) = "status" PROVE MayCount(k, state'[b][k.row])
    <2>1. MayCount(k, state[b][k.row])
      BY <1>5 DEF Fits
    <2>2. k.row \in 1..Len(state[b]) /\ state[b] \in Seq(Row)
      <3>1. "status" \in RowSteps
        BY DEF RowSteps
      <3> QED
        BY <1>3, <1>5, <3>1, Current DEF CallOK
    <2>3. k.row \in DOMAIN state[b]
      BY <2>2
    <2> DEFINE old == state[b][k.row]
               new == state'[b][k.row]
    <2>4. old.starts \in Nat
      BY <1>3, <1>5, <2>3, RowTypes
    <2>5. /\ new.starts \in Nat /\ new.starts >= old.starts
          /\ new.status = "Reading" => old.status = "Reading" \/ new.starts > old.starts
      <3>1. Counts(c)
        BY Moves
      <3> QED
        BY <1>3, <1>5, <2>3, <3>1, Zenon DEF Counts
    <2> HIDE DEF old, new
    <2> QED
      BY <1>2, <2>1, <2>4, <2>5 DEF MayCount, old, new
  <1> QED
    BY <1>4, <1>5 DEF Fits

LEMMA NothingFits == ASSUME NEW k, NEW rows, k.todo = <<>> \/ k.todo = Contact PROVE Fits(k, rows)
  BY NewInOrder, ContactTodo DEF Fits

LEMMA TokenRequest ==
  ASSUME NEW c \in Calls, call \in [Calls -> Call], CreateToken(c) \/ RevokeToken(c)
  PROVE  call'[c].route \in TokenRoutes
  <1>1. ASSUME NEW todo, NEW route, NEW auth,
               \/ Begin(c, [Idle EXCEPT !.phase = "local", !.route = route, !.todo = todo])
               \/ Begin(c, [Idle EXCEPT !.phase = "local", !.route = route, !.todo = todo, !.auth = auth])
        PROVE  call'[c].route = route
    <2>1. CASE Begin(c, [Idle EXCEPT !.phase = "local", !.route = route, !.todo = todo])
      BY <2>1, Zenon DEF Begin, Idle
    <2>2. CASE Begin(c, [Idle EXCEPT !.phase = "local", !.route = route, !.todo = todo, !.auth = auth])
      BY <2>2, Zenon DEF Begin, Idle
    <2> QED
      BY <1>1, <2>1, <2>2
  <1>2. call'[c].route = "create token" \/ call'[c].route = "revoke token"
    BY <1>1, Zenon DEF CreateToken, RevokeToken
  <1> QED
    BY <1>2, Zenon DEF TokenRoutes

LEMMA RequestFits ==
  ASSUME TypeOK, StepsOK, NEW c \in Calls, Request(c), call'[c].route \in StateRoutes
  PROVE  Fits(call'[c], state')
  <1> DEFINE v == call'[c]
  <1>1. call \in [Calls -> Call]
    BY Current
  <1>2. ASSUME NEW d \in Devices, NEW route, NEW books, NEW todo, NEW put, Ask(c, d, route, books, todo, put)
        PROVE  v.route = route /\ v.todo = todo
    <2>1. PICK t \in DOMAIN token :
             Begin(c, [Idle EXCEPT !.phase = "auth", !.route = route, !.device = d, !.auth = t,
                                   !.books = books, !.todo = todo, !.put = put,
                                   !.token = device[d].token, !.raw = device[d].raw])
      BY <1>2 DEF Ask
    <2> QED
      BY <1>1, <2>1, Zenon DEF Begin, Idle
  <1>3. CASE CreateToken(c) \/ RevokeToken(c)
    <2>1. v.route \in TokenRoutes
      BY <1>1, <1>3, TokenRequest
    <2> HIDE DEF v
    <2> QED
      BY <2>1 DEF TokenRoutes, StateRoutes, v
  <1>4. ASSUME NEW d \in Devices, GetStates(c, d) PROVE v.todo = Contact
    BY <1>2, <1>4, Zenon DEF GetStates
  <1>5. ASSUME NEW d \in Devices, PutState(c, d) PROVE \E put : v.todo = Update(put)
    BY <1>2, <1>5, Zenon DEF PutState
  <1>6. ASSUME NEW d \in Devices,
               \/ Synchronise(c, d) \/ GetMetadata(c, d) \/ GetDownload(c, d) \/ GetCover(c, d)
               \/ Initialise(c, d) \/ DeviceAuth(c, d) \/ RefreshAuth(c, d) \/ AnyOther(c, d)
        PROVE  FALSE
    <2>1. v.route \in {"sync", "GET metadata", "local", "store first"}
      BY <1>2, <1>6, Zenon DEF Synchronise, GetMetadata, GetDownload, GetCover, Initialise,
         DeviceAuth, RefreshAuth, AnyOther
    <2> HIDE DEF v
    <2> QED
      BY <2>1 DEF StateRoutes, v
  <1>7. CreateToken(c) \/ RevokeToken(c) \/ v.todo = Contact \/ \E put : v.todo = Update(put)
    BY <1>4, <1>5, <1>6, Zenon DEF Request
  <1> HIDE DEF v
  <1>8. ASSUME NEW put, v.todo = Update(put) PROVE Fits(v, state')
    BY <1>8, NewInOrder, UpdateTodo DEF Fits
  <1> QED
    BY <1>3, <1>7, <1>8, NothingFits DEF v

LEMMA WorkFits ==
  ASSUME TypeOK, StepsOK, StatesOK, NEW c \in Calls, Work(c) \/ Fault(c) \/ Die(c),
         call'[c].route \in StateRoutes
  PROVE  Fits(call'[c], state')
  <1> DEFINE k == call[c]
             v == call'[c]
             b == Head(k.books)
  <1>1. k.route \in StateRoutes /\ v.n = k.n
    <2>1. CASE v = Idle
      <3>1. Idle.route \notin StateRoutes
        BY Zenon DEF Idle, StateRoutes
      <3> QED
        BY <2>1, <3>1
    <2>2. CASE TokenStatement(c) /\ v # Idle
      <3>1. PICK s \in {"revokeAll", "revokeOne", "insertToken"} : Due(c, s)
        BY <2>2 DEF TokenStatement
      <3>2. k.route \in TokenRoutes
        BY <3>1, DueStep
      <3>3. v = [k EXCEPT !.todo = Rest(c)] /\ k \in Call
        BY <2>2, Current DEF TokenStatement
      <3>4. v.route = k.route
        BY <3>3, Zenon DEF Call
      <3> HIDE DEF v
      <3> QED
        BY <3>2, <3>4 DEF TokenRoutes, StateRoutes, v
    <2>3. CASE Kept(k, v, clock')
      <3>1. "none" \notin StateRoutes
        BY DEF StateRoutes
      <3> QED
        BY <2>3, <3>1 DEF Kept
    <2> QED
      BY <2>1, <2>2, <2>3, WorkCall
  <1>2. Fits(k, state) /\ Goes(c)
    BY <1>1, WorkGoes DEF StatesOK
  <1>3. k.todo \in Seq(StateSteps) /\ (k.todo # <<>> => k.books # <<>> /\ k.books \in Seq(Books))
    BY <1>1, Current DEF CallOK, TodoOK, StateRoutes, BookRoutes
  <1>4. InOrder(k.todo)
    BY <1>2 DEF Fits
  <1>5. k.todo # <<>> => /\ InOrder(Rest(c)) /\ Rest(c) \in Seq(StateSteps)
                         /\ Rest(c) # <<>> => /\ Head(Rest(c)) # "insert"
                                              /\ Head(Rest(c)) = "status" => Head(k.todo) = "read"
    BY <1>3, <1>4, TailInOrder DEF Rest
  <1> HIDE DEF v
  <1>6. CASE v.todo = <<>> \/ v.todo = Contact
    BY <1>6, NothingFits DEF v
  <1>7. CASE /\ v.todo = k.todo /\ v.books = k.books /\ v.row = k.row
             /\ v.status = k.status /\ v.times = k.times /\ state' = state
    BY <1>1, <1>2, <1>7 DEF Fits, MayInsert, MayCount, v
  <1>8. CASE k.todo # <<>> /\ Head(k.todo) # "read" /\ v.todo = Rest(c)
    BY <1>5, <1>8 DEF Fits, v
  <1>9. CASE /\ k.todo # <<>> /\ v.books = k.books /\ Head(k.todo) = "read" /\ v.todo = Rest(c)
             /\ v.row = k.row /\ v.status = Rows(c)[k.row].status /\ v.times = Rows(c)[k.row].times
             /\ state' = state
    <2>1. "read" \in RowSteps
      BY DEF RowSteps
    <2>2. b \in Books /\ state[b] \in Seq(Row)
      BY <1>3, <1>9, Current
    <2>3. k.row \in 1..Len(state[b])
      BY <1>9, <2>1, Current DEF CallOK
    <2>4. k.row \in DOMAIN state[b]
      BY <2>2, <2>3
    <2>5. state[b][k.row].times =< state[b][k.row].starts
      BY <2>2, <2>4, Zenon DEF StatesOK, StartsAreReal
    <2>6. v.times = state[b][k.row].times /\ v.status = state[b][k.row].status
      BY <1>9 DEF Rows, Book
    <2>7. MayCount(v, state[b][k.row])
      <3> DEFINE row == state[b][k.row]
      <3> HIDE DEF row
      <3> QED
        BY <2>5, <2>6 DEF MayCount, row
    <2> QED
      BY <1>5, <1>9, <2>7 DEF Fits, v
  <1>10. ASSUME k.todo # <<>>, v.books = k.books, Head(k.todo) # "read", NEW x \in StateSteps \ {"status"},
                v.todo = <<x>> \o Rest(c), x = "insert" => Rows(c) = <<>> /\ state' = state
         PROVE  Fits(v, state')
    <2>1. InOrder(v.todo)
      BY <1>3, <1>4, <1>10, AgainInOrder DEF Rest
    <2>2. Head(v.todo) = x
      BY <1>5, <1>10
    <2>3. x = "insert" => MayInsert(v, state'[Head(v.books)])
      <3> SUFFICES ASSUME x = "insert" PROVE MayInsert(v, state'[Head(v.books)])
        OBVIOUS
      <3>1. state'[Head(v.books)] = <<>>
        BY <1>10 DEF Rows, Book
      <3>2. DOMAIN <<>> = {}
        OBVIOUS
      <3> QED
        BY <3>1, <3>2 DEF MayInsert
    <2> QED
      BY <1>10, <2>1, <2>2, <2>3 DEF Fits
  <1> QED
    BY <1>2, <1>6, <1>7, <1>8, <1>9, <1>10, Zenon DEF Goes, v

LEMMA StatesStep ==
  ASSUME TypeOK, StepsOK, StatesOK, [Next]_vars
  PROVE  StatesOK'
  <1>1. CASE UNCHANGED <<state, call>>
    BY <1>1, Zenon DEF StatesOK, Fits, SecondStateNeedsOverlap, StartsAreReal
  <1>2. ASSUME NEW c \in Calls, Request(c) PROVE StatesOK'
    <2>1. state' = state /\ \A x \in Calls : x # c => call'[x] = call[x]
      BY <1>2, RequestCall
    <2>2. ASSUME NEW x \in Calls, call'[x].route \in StateRoutes PROVE Fits(call'[x], state')
      <3>1. CASE x = c
        BY <1>2, <2>2, <3>1, RequestFits
      <3>2. CASE x # c
        BY <2>1, <2>2, <3>2 DEF StatesOK
      <3> QED
        BY <3>1, <3>2
    <2> QED
      BY <2>1, <2>2, Zenon DEF StatesOK, SecondStateNeedsOverlap, StartsAreReal
  <1>3. ASSUME NEW c \in Calls, Work(c) \/ Fault(c) \/ Die(c) PROVE StatesOK'
    <2> DEFINE k == call[c]
    <2>1. ASSUME NEW x \in Calls, call'[x].route \in StateRoutes PROVE Fits(call'[x], state')
      <3>1. CASE x = c
        BY <1>3, <2>1, <3>1, WorkFits
      <3>2. CASE x # c
        <4>1. call'[x] = call[x]
          BY <1>3, <3>2, OneChanges
        <4>2. Fits(call[x], state)
          BY <2>1, <4>1 DEF StatesOK
        <4> QED
          BY <1>3, <2>1, <4>1, <4>2, OthersFit
      <3> QED
        BY <3>1, <3>2
    <2>2. ASSUME NEW s \in {"insert", "status"}, Due(c, s)
          PROVE  k.route \in StateRoutes /\ k.todo # <<>> /\ Head(k.todo) = s /\ Fits(k, state)
      <3>1. s \in StateSteps
        BY <2>2 DEF StateSteps, RowSteps
      <3>2. k.route \in StateRoutes
        BY <2>2, <3>1, DueStep
      <3> QED
        BY <2>2, <3>2 DEF Due, StatesOK
    <2>3. ASSUME NEW b \in Books, NEW i \in DOMAIN state'[b], NEW j \in DOMAIN state'[b], i < j
          PROVE  state'[b][j].owner =< state'[b][i].since
      <3>1. CASE i \in DOMAIN state[b] /\ j \in DOMAIN state[b]
        <4>1. state'[b][j].owner = state[b][j].owner /\ state'[b][i].since = state[b][i].since
          BY <1>3, <3>1, Moves
        <4> QED
          BY <2>3, <3>1, <4>1, Zenon DEF StatesOK, SecondStateNeedsOverlap
      <3>2. CASE j \notin DOMAIN state[b] /\ i \in DOMAIN state[b]
        <4>1. Adds(c, b, j)
          BY <1>3, <3>2, Moves
        <4>2. state'[b][j].owner = k.n /\ Due(c, "insert") /\ b = Head(k.books)
          BY <4>1 DEF Adds, Book
        <4>3. MayInsert(k, state[b])
          BY <2>2, <4>2 DEF Fits
        <4>4. state'[b][i].since = state[b][i].since
          BY <1>3, <3>2, Moves
        <4> QED
          BY <3>2, <4>2, <4>3, <4>4 DEF MayInsert
      <3>3. CASE i \notin DOMAIN state[b]
        <4>1. Adds(c, b, i)
          BY <1>3, <3>3, Moves
        <4>2. j < i \/ j = i
          BY <4>1, Zenon DEF Adds
        <4>3. i \in Int /\ j \in Int
          <5>1. DOMAIN state'[b] \subseteq Int
            <6>1. state \in [Books -> Seq(Row)]
              BY <1>3, Current
            <6>2. state' = state \/ Inserts(c) \/ Changes(c)
              BY <1>3, ClockGrows, RowsAfter
            <6>3. state[b] \in Seq(Row) /\ state[Book(c)] = Rows(c)
              BY <6>1 DEF Rows
            <6> QED
              BY <6>2, <6>3 DEF Inserts, Changes
          <5> QED
            BY <5>1
        <4> QED
          BY <2>3, <4>2, <4>3
      <3> QED
        BY <3>1, <3>2, <3>3
    <2>4. ASSUME NEW b \in Books, NEW i \in DOMAIN state'[b]
          PROVE  state'[b][i].times =< state'[b][i].starts
      <3>1. CASE i \notin DOMAIN state[b]
        <4>1. state'[b][i].times = 0 /\ state'[b][i].starts = 0
          BY <1>3, <3>1, Moves DEF Adds
        <4> QED
          BY <4>1
      <3>2. CASE i \in DOMAIN state[b]
        <4> DEFINE old == state[b][i]
                   new == state'[b][i]
        <4>1. old.starts \in Nat /\ old.times \in Nat /\ old.times =< old.starts
          BY <3>2, RowTypes DEF StatesOK, StartsAreReal
        <4>2. /\ new.starts \in Nat /\ new.starts >= old.starts
              /\ \/ new.times = old.times
                 \/ Due(c, "status") /\ b = Book(c) /\ i = k.row /\ Counted(c, old, new)
          <5>1. Counts(c)
            BY <1>3, Moves
          <5> QED
            BY <3>2, <5>1, Zenon DEF Counts
        <4>3. CASE Due(c, "status") /\ b = Book(c) /\ i = k.row /\ Counted(c, old, new)
          <5>1. MayCount(k, old)
            BY <2>2, <4>3 DEF Fits, Book
          <5>2. k.times \in Nat
            BY <1>3, Current, Zenon DEF Call
          <5> HIDE DEF old, new
          <5> QED
            BY <4>1, <4>3, <5>1, <5>2 DEF Counted, MayCount, old, new
        <4> HIDE DEF old, new
        <4> QED
          BY <4>1, <4>2, <4>3 DEF old, new
      <3> QED
        BY <3>1, <3>2
    <2> QED
      BY <2>1, <2>3, <2>4, Zenon DEF StatesOK, SecondStateNeedsOverlap, StartsAreReal
  <1> QED
    <2>1. [Next]_vars => \/ UNCHANGED <<state, call>>
                         \/ \E c \in Calls : Request(c) \/ Work(c) \/ Fault(c) \/ Die(c)
      BY Zenon DEF Next, vars, readingVars, GiveUp
    <2> QED
      BY <1>1, <1>2, <1>3, <2>1

-----------------------------------------------------------------------------
LEMMA InitStates ==
  ASSUME Init
  PROVE  RawOK /\ StatesOK
  <1>1. call = [c \in Calls |-> Idle] /\ begun = 0 /\ device = [d \in Devices |-> NewDevice]
    BY DEF Init
  <1>2. \A c \in Calls : call[c].phase = "idle" /\ call[c].route = "none"
    BY <1>1, Zenon DEF Idle
  <1>3. \A d \in Devices : device[d].raw = 0 /\ device[d].waits = 0
    BY <1>1, Zenon DEF NewDevice
  <1>4. RawOK
    BY <1>1, <1>2, <1>3 DEF RawOK
  <1> DEFINE row == [status |-> "ReadyToRead", times |-> 0, at |-> 1, side |-> [s \in Sides |-> 0],
                     starts |-> 0, owner |-> 0, since |-> 0, late |-> FALSE]
  <1>5. PICK used \in SUBSET Known : state = [b \in Books |-> IF b \in used THEN <<row>> ELSE <<>>]
    BY DEF Init
  <1>6. row.times = 0 /\ row.starts = 0
    BY Zenon
  <1> HIDE DEF row
  <1>7. ASSUME NEW b \in Books, NEW i \in DOMAIN state[b] PROVE i = 1 /\ state[b][i] = row
    <2>1. state[b] = <<row>> \/ state[b] = <<>>
      BY <1>5
    <2>2. DOMAIN <<>> = {} /\ DOMAIN <<row>> = {1} /\ <<row>>[1] = row
      OBVIOUS
    <2> QED
      BY <2>1, <2>2
  <1>8. SecondStateNeedsOverlap
    BY <1>7 DEF SecondStateNeedsOverlap
  <1>9. StartsAreReal
    BY <1>6, <1>7 DEF StartsAreReal
  <1>10. "none" \notin StateRoutes
    BY DEF StateRoutes
  <1> QED
    BY <1>2, <1>4, <1>8, <1>9, <1>10, Zenon DEF StatesOK

LEMMA StatesHold == Spec => [](GatewayInvariant /\ RawOK /\ StatesOK)
  <1>1. Init => RawOK /\ StatesOK
    BY InitStates
  <1>2. GatewayInvariant /\ RawOK /\ StatesOK /\ [Next]_vars => RawOK' /\ StatesOK'
    BY RawStep, StatesStep DEF GatewayInvariant
  <1> QED
    BY <1>1, <1>2, GatewayInvariantHolds, PTL DEF Spec

(* getOrCreateReadingStateByBookUuid looks a state up and then inserts it: for any      *)
(* number of requests, a book gets a second state only from one that had begun when the *)
(* first was inserted.                                                             *)
THEOREM SecondStatesOverlap == Spec => []SecondStateNeedsOverlap
  <1>1. StatesOK => SecondStateNeedsOverlap
    BY DEF StatesOK
  <1> QED
    BY <1>1, StatesHold, PTL

(* updateReadingState writes timesStartedReading from what it read some statements      *)
(* before: however the requests interleave, the column never exceeds the starts there    *)
(* were.                                                                           *)
THEOREM NoStartIsMadeUp == Spec => []StartsAreReal
  <1>1. StatesOK => StartsAreReal
    BY DEF StatesOK
  <1> QED
    BY <1>1, StatesHold, PTL

(* The token of Kobo's store that a device carries in the library's is never replaced by *)
(* an older one, whichever requests fail, are lost or are given up.                     *)
THEOREM StoreTokenGrows == Spec => StoreTokenNeverBack
  <1>1. GatewayInvariant /\ RawOK /\ [Next]_vars => \A d \in Devices : device'[d].raw >= device[d].raw
    BY RawStep DEF GatewayInvariant
  <1> QED
    BY <1>1, StatesHold, PTL DEF Spec, StoreTokenNeverBack

-----------------------------------------------------------------------------
(***************************************************************************)
(* Reading progress                                                        *)
(***************************************************************************)

(* The states the property is about: a book's only one, and not written late. *)
Alone(rows) == Len(rows) = 1 /\ ~rows[1].late

-----------------------------------------------------------------------------
(* What a step of a call changes of what the device will learn. *)
Learns(c) ==
  \/ call'[c].route = "none"
  \/ Read(c) \/ SelectStates(c)
  \/ /\ call'[c].shown = call[c].shown /\ call'[c].token = call[c].token
     /\ call[c].route = "sync" => call'[c].todo \in {call[c].todo, <<>>}

LEMMA SameLearns ==
  ASSUME TypeOK, StepsOK, NEW c \in Calls,
         NEW phase, NEW at, NEW row, NEW stamp, NEW books, NEW todo,
         call[c].route = "sync" => todo \in {call[c].todo, <<>>},
         \/ call' = [call EXCEPT ![c].phase = phase]
         \/ call' = [call EXCEPT ![c].at = at, ![c].phase = phase]
         \/ call' = [call EXCEPT ![c].phase = phase, ![c].todo = todo]
         \/ call' = [call EXCEPT ![c].todo = todo]
         \/ call' = [call EXCEPT ![c].row = row, ![c].todo = todo]
         \/ call' = [call EXCEPT ![c].stamp = stamp, ![c].todo = todo]
         \/ call' = [call EXCEPT ![c].row = row, ![c].stamp = stamp, ![c].todo = todo]
         \/ call' = [call EXCEPT ![c].books = books, ![c].todo = todo]
  PROVE  Learns(c)
  <1> DEFINE k == call[c]
             v == call'[c]
  <1>1. call \in [Calls -> Call] /\ k \in Call
    BY Current
  <1>2. \/ v = [k EXCEPT !.phase = phase] \/ v = [k EXCEPT !.at = at, !.phase = phase]
        \/ v = [k EXCEPT !.phase = phase, !.todo = todo] \/ v = [k EXCEPT !.todo = todo]
        \/ v = [k EXCEPT !.row = row, !.todo = todo] \/ v = [k EXCEPT !.stamp = stamp, !.todo = todo]
        \/ v = [k EXCEPT !.row = row, !.stamp = stamp, !.todo = todo]
        \/ v = [k EXCEPT !.books = books, !.todo = todo]
    BY <1>1, Zenon
  <1>3. v.shown = k.shown /\ v.token = k.token /\ (v.todo = k.todo \/ v.todo = todo)
    BY <1>1, <1>2, Zenon DEF Call
  <1> HIDE DEF v
  <1>4. k.route = "sync" => v.todo \in {k.todo, <<>>}
    BY <1>3
  <1> QED
    BY <1>3, <1>4, Zenon DEF Learns, v

LEMMA FinishLearns ==
  ASSUME TypeOK, StepsOK, NEW c \in Calls, NEW source \in Sources, NEW raw \in Nat, Finish(c, source, raw),
         call[c].phase # "idle"
  PROVE  Learns(c)
  <1>1. call \in [Calls -> Call] /\ CallOK(call[c], state, begun) /\ begun \in Nat
    BY Current
  <1>2. PICK v \in Call : call' = [call EXCEPT ![c] = v] /\ Answered(call[c], v, source, raw)
    BY <1>1, FinishCall
  <1>3. call'[c] = v
    BY <1>1, <1>2
  <1>4. Idle.route = "none"
    BY Zenon DEF Idle
  <1>5. v.route = "none" \/ (v.shown = call[c].shown /\ v.token = call[c].token /\ v.todo = <<>>)
    BY <1>2, <1>4 DEF Answered
  <1> QED
    BY <1>3, <1>5 DEF Learns

LEMMA WorkLearns ==
  ASSUME TypeOK, StepsOK, NEW c \in Calls, Work(c) \/ Fault(c) \/ Die(c)
  PROVE  Learns(c)
  <1> DEFINE k == call[c]
  <1>1. call \in [Calls -> Call] /\ k \in Call /\ k.raw \in Nat /\ k.n \in Nat /\ k.phase # "idle"
    BY Current, OneChanges
  <1>2. {"local", "store", "error", "unauthorized"} \subseteq Sources
    BY DEF Sources
  <1>3. ASSUME NEW source \in {"local", "store", "error", "unauthorized"}, NEW raw \in {0, k.raw, k.n},
               Finish(c, source, raw)
        PROVE  Learns(c)
    BY <1>1, <1>2, <1>3, FinishLearns
  <1>4. CASE call' = [call EXCEPT ![c] = Idle]
    <2>1. Idle.route = "none" /\ call'[c] = Idle
      BY <1>1, <1>4, Zenon DEF Idle
    <2> QED
      BY <2>1 DEF Learns
  <1>5. CASE Authenticate(c)
    <2>1. Finish(c, "unauthorized", 0)
          \/ \E phase : call' = [call EXCEPT ![c].at = clock', ![c].phase = phase]
      BY <1>5, Zenon DEF Authenticate
    <2> QED
      BY <1>3, <2>1, SameLearns
  <1>6. CASE Served(c) \/ Refused(c) \/ Proxy(c) \/ LogCall(c)
    <2>1. \/ \E source \in {"local", "store", "error", "unauthorized"}, raw \in {0, k.raw, k.n} :
               Finish(c, source, raw)
          \/ \E phase : call' = [call EXCEPT ![c].phase = phase]
      BY <1>6 DEF Served, Refused, Proxy, LogCall, RawAfterFailure
    <2> QED
      BY <1>3, <2>1, SameLearns
  <1>7. CASE Refuse(c)
    <2>1. call' = [call EXCEPT ![c].phase = "refused", ![c].todo = <<>>]
      BY <1>7 DEF Refuse
    <2> QED
      BY <2>1, SameLearns
  <1>8. CASE Fault(c)
    <2>1. CASE call' = [call EXCEPT ![c] = [@ EXCEPT !.phase = "refused", !.todo = <<>>]]
      <3>1. Refuse(c)
        BY <2>1, Zenon DEF Refuse
      <3> QED
        BY <1>7, <3>1
    <2>2. \/ Finish(c, "unauthorized", 0)
          \/ call' = [call EXCEPT ![c] = Idle]
          \/ call' = [call EXCEPT ![c] = [@ EXCEPT !.phase = "refused", !.todo = <<>>]]
      BY <1>8, Zenon DEF Fault
    <2> QED
      BY <1>3, <1>4, <2>1, <2>2
  <1>9. CASE TokenStatement(c)
    <2>1. PICK s \in {"revokeAll", "revokeOne", "insertToken"} : Due(c, s)
      BY <1>9 DEF TokenStatement
    <2>2. k.route \in TokenRoutes
      BY <2>1, DueStep
    <2>3. k.route # "sync"
      BY <2>2 DEF TokenRoutes
    <2>4. call' = [call EXCEPT ![c] = Idle] \/ call' = [call EXCEPT ![c].todo = Rest(c)]
      BY <1>9, Zenon DEF TokenStatement
    <2> QED
      BY <1>4, <2>3, <2>4, SameLearns
  <1>10. CASE Metadata(c) \/ Download(c) \/ Cover(c)
    <2>1. PICK s \in {"files", "file", "cover"} : Due(c, s)
      BY <1>10 DEF Metadata, Download, Cover
    <2>2. k.route # "sync"
      BY <2>1, DueStep
    <2>3. \/ \E books, todo : call' = [call EXCEPT ![c].books = books, ![c].todo = todo]
          \/ \E todo : call' = [call EXCEPT ![c].todo = todo]
          \/ Refuse(c)
          \/ Finish(c, "store", 0)
      BY <1>10, Zenon DEF Metadata, Download, Cover, Follow
    <2> QED
      BY <1>3, <1>7, <2>2, <2>3, SameLearns
  <1>11. CASE Statement(c)
    <2>1. CASE Read(c) \/ SelectStates(c)
      BY <2>1 DEF Learns
    <2>2. CASE \E s \in StateSteps : Due(c, s)
      <3>1. k.route \in StateRoutes
        BY <2>2, StateCall
      <3>2. k.route # "sync"
        BY <3>1 DEF StateRoutes
      <3>3. CASE Find(c)
        <4>1. \/ Refuse(c)
              \/ \E row, todo : call' = [call EXCEPT ![c].row = row, ![c].todo = todo]
              \/ \E stamp, todo : call' = [call EXCEPT ![c].stamp = stamp, ![c].todo = todo]
          BY <3>3, Zenon DEF Find
        <4> QED
          BY <1>7, <3>2, <4>1, SameLearns
      <3>4. CASE InsertState(c)
        <4>1. \E row, stamp, todo : call' = [call EXCEPT ![c].row = row, ![c].stamp = stamp, ![c].todo = todo]
          BY <3>4, Zenon DEF InsertState
        <4>2. PICK row, stamp, todo :
                 call' = [call EXCEPT ![c].row = row, ![c].stamp = stamp, ![c].todo = todo]
          BY <4>1
        <4> QED
          BY <3>2, <4>2, SameLearns, Zenon
      <3>5. CASE \/ UpdateStatus(c) \/ \E side \in Sides : UpdateSide(c, side)
                 \/ \E side, s, t : Seek(c, side, s, t)
                 \/ \E side, s : InsertSide(c, side, s)
        <4>1. Refuse(c) \/ \E todo : call' = [call EXCEPT ![c].todo = todo]
          BY <3>5, Zenon DEF UpdateStatus, Seek, InsertSide, UpdateSide, Follow
        <4> QED
          BY <1>7, <3>2, <4>1, SameLearns
      <3> QED
        BY <1>11, <2>1, <3>3, <3>4, <3>5, Zenon DEF Statement
    <2> QED
      BY <1>11, <2>1, <2>2, StatementDue
  <1> QED
    BY <1>4, <1>5, <1>6, <1>8, <1>9, <1>10, <1>11 DEF Work, Answer, Die

(* The synchronisation's SELECT.  It shows a state that changed after the token's time, *)
(* and moves the token no further than the latest time it has seen.                   *)
Selected(c) ==
  LET k == call[c]
      v == call'[c] IN
  /\ state' = state /\ clock' = clock /\ v.todo = <<>> /\ v.route = "sync" /\ k.todo = <<"states">>
  /\ v.token \in Nat /\ v.token =< issued' /\ issued' >= issued /\ issued' \in Nat
  /\ \A b \in Books : v.shown[b] \in Nat /\ v.shown[b] =< clock
  /\ \A b \in Known : Len(state[b]) = 1 /\ state[b][1].at > k.token => v.shown[b] = state[b][1].at

LEMMA SelectAfter ==
  ASSUME TypeOK, StepsOK, TimesOK, NEW c \in Calls, SelectStates(c)
  PROVE  Selected(c)
  <1> DEFINE k == call[c]
             changed == {b \in Known : Changed(b, k.token)}
             times == {Last(state[b]).at : b \in changed}
             latest == Latest(times, k.token)
             shown == [b \in Books |-> IF b \in changed THEN Last(state[b]).at ELSE 0]
             v == [k EXCEPT !.shown = shown, !.token = ToSecond(latest), !.todo = Rest(c)]
  <1>1. Due(c, "states") /\ UNCHANGED <<clock, begun, state>>
        /\ issued' = IF latest > issued THEN latest ELSE issued
    BY Zenon DEF SelectStates
  <1>0. clock \in Nat /\ k.token \in Nat /\ issued \in Nat /\ k \in Call
    BY Current
  <1>2. \A b \in changed : Last(state[b]).at \in Nat /\ Last(state[b]).at =< clock
    <2> SUFFICES ASSUME NEW b \in changed
                 PROVE  Last(state[b]).at \in Nat /\ Last(state[b]).at =< clock
      OBVIOUS
    <2>1. b \in Books /\ state[b] # <<>>
      BY ReadingAssumption, Zenon DEF Changed
    <2>2. state[b] \in Seq(Row)
      BY <2>1, Current
    <2>3. Len(state[b]) \in 1..Len(state[b]) /\ DOMAIN state[b] = 1..Len(state[b])
      BY <2>1, <2>2
    <2>4. Last(state[b]) \in Row
      BY <2>2, <2>3 DEF Last
    <2>5. Last(state[b]).at \in Nat
      BY <2>4, Zenon DEF Row
    <2>6. Last(state[b]).at =< clock
      BY <2>1, <2>3, Zenon DEF Last, TimesOK
    <2> QED
      BY <2>5, <2>6
  <1>3. latest \in Nat
    <2> DEFINE N == IF clock > k.token THEN clock ELSE k.token
    <2>2. N \in Nat /\ clock =< N /\ k.token \in 0..N
      BY <1>0
    <2> HIDE DEF N, changed
    <2>3. times \subseteq 0..N
      BY <1>2, <1>0, <2>2
    <2> HIDE DEF times
    <2>4. latest \in times \cup {k.token}
      BY <2>2, <2>3, LatestIs
    <2> HIDE DEF latest
    <2>5. latest \in 0..N
      BY <2>2, <2>3, <2>4, Zenon
    <2> QED
      BY <2>2, <2>5
  <1> HIDE DEF latest
  <1>4. ToSecond(latest) \in Nat /\ ToSecond(latest) =< latest
    BY <1>3, SecondIs
  <1>5. issued' \in Nat /\ issued' >= issued /\ issued' >= latest
    BY <1>0, <1>1, <1>3
  <1>6. k.route = "sync" /\ k.todo = <<"states">> /\ Rest(c) = <<>>
    <2>1. k.route = "sync"
      BY <1>1, DueStep, Zenon
    <2>2. k.todo = <<"states">>
      BY <1>1, <2>1, DueStep DEF TodoOK
    <2> QED
      BY <2>1, <2>2, HeadOf DEF Rest
  <1>7. \A b \in Books : shown[b] \in Nat /\ shown[b] =< clock
    <2> HIDE DEF changed
    <2> QED
      BY <1>0, <1>2
  <1>8. ASSUME NEW b \in Known, Len(state[b]) = 1, state[b][1].at > k.token PROVE shown[b] = state[b][1].at
    <2>1. b \in Books
      BY ReadingAssumption
    <2>2. Last(state[b]) = state[b][1] /\ state[b] # <<>>
      BY <1>8 DEF Last
    <2>3. b \in changed
      BY <1>8, <2>2 DEF Changed
    <2> HIDE DEF changed
    <2> QED
      BY <2>1, <2>2, <2>3
  <1> HIDE DEF shown
  <1>9. call' = [call EXCEPT ![c] = v]
    BY Zenon DEF SelectStates, shown, latest
  <1>10. call'[c] = v
    BY <1>9, Current
  <1>11. v.shown = shown /\ v.token = ToSecond(latest) /\ v.todo = Rest(c) /\ v.route = k.route
    BY <1>0, Zenon DEF Call
  <1> HIDE DEF v
  <1>12. v.token =< issued'
    BY <1>3, <1>4, <1>5, <1>11
  <1> QED
    BY <1>1, <1>4, <1>5, <1>6, <1>7, <1>8, <1>10, <1>11, <1>12 DEF Selected

(* What the answer of a call brings to its device: of a synchronisation a token, and  *)
(* what is shown with it.                                                            *)
Brings(c) ==
  \/ \A d \in Devices : device'[d].token = device[d].token /\ device'[d].waits = device[d].waits
  \/ \E d \in Devices :
       /\ \A x \in Devices : x # d => device'[x].token = device[x].token /\ device'[x].waits = device[x].waits
       /\ d = call[c].device /\ device[d].waits = call[c].n /\ device'[d].waits = 0
       /\ \/ device'[d].token = device[d].token
          \/ /\ call[c].route = "sync" /\ device'[d].token = call[c].token
             /\ \A b \in Books : device'[d].knows[b] >= call[c].shown[b]

(* The bounds on what is known, and the property for a synchronisation under way: it    *)
(* shows, or its device knows, whatever its token says.                              *)
ArrivesOK ==
  /\ \A d \in Devices : /\ device[d].token =< issued
                        /\ \A b \in Books : device[d].knows[b] =< clock
  /\ \A c \in Calls :
       /\ call[c].phase # "idle" => call[c].n # 0
       /\ call[c].route = "sync" => call[c].token =< issued
       /\ call[c].route \in {"GET state", "sync"} => \A b \in Books : call[c].shown[b] =< clock
       /\ call[c].route = "sync" /\ device[call[c].device].waits = call[c].n =>
            /\ call[c].todo = <<"states">> => call[c].token = device[call[c].device].token
            /\ \A b \in Known :
                 Alone(state[b]) /\ state[b][1].at =< call[c].token =>
                   \/ device[call[c].device].knows[b] >= state[b][1].at
                   \/ call[c].shown[b] >= state[b][1].at
  /\ ProgressArrives

LEMMA DeviceTypes ==
  ASSUME TypeOK, NEW d \in Devices
  PROVE  /\ device[d] \in Device /\ device \in [Devices -> Device]
         /\ device[d].token \in Nat /\ device[d].waits \in Nat /\ device[d].raw \in Nat
         /\ device[d].knows \in [Books -> Nat]
         /\ \A b \in Books : device[d].knows[b] \in Nat
  <1>1. device[d] \in Device /\ device \in [Devices -> Device]
    BY DEF TypeOK
  <1>2. device[d].token \in Nat /\ device[d].waits \in Nat /\ device[d].raw \in Nat
        /\ device[d].knows \in [Books -> Nat]
    BY <1>1, Zenon DEF Device
  <1> QED
    BY <1>1, <1>2

LEMMA DeviceLearns ==
  ASSUME TypeOK, StepsOK, ArrivesOK, NEW c \in Calls, Work(c) \/ Fault(c) \/ Die(c)
  PROVE  /\ \A d \in Devices : \A b \in Books :
              device'[d].knows[b] \in Nat /\ device'[d].knows[b] >= device[d].knows[b]
              /\ device'[d].knows[b] =< clock'
         /\ Brings(c)
  <1> DEFINE k == call[c]
             d == k.device
  <1>1. /\ clock \in Nat /\ clock' \in Nat /\ clock' >= clock
        /\ \A x \in Devices : \A b \in Books : device[x].knows[b] \in Nat /\ device[x].knows[b] =< clock
        /\ device \in [Devices -> Device] /\ k \in Call
        /\ \A b \in Books : k.shown[b] \in Nat
        /\ k.shown \in [Books -> Nat]
    BY ClockGrows, Current, DeviceTypes DEF ArrivesOK
  <1>2. CASE device' = device
    BY <1>1, <1>2 DEF Brings
  <1>3. ASSUME NEW new, device' = [device EXCEPT ![d] = new], new.token = device[d].token, new.waits = device[d].waits,
               \A b \in Books : /\ new.knows[b] \in Nat /\ new.knows[b] =< clock'
                                /\ d \in Devices => new.knows[b] >= device[d].knows[b]
        PROVE  /\ \A x \in Devices : \A b \in Books :
                    device'[x].knows[b] \in Nat /\ device'[x].knows[b] >= device[x].knows[b]
                    /\ device'[x].knows[b] =< clock'
               /\ Brings(c)
    <2>1. ASSUME NEW x \in Devices PROVE device'[x] = IF x = d THEN new ELSE device[x]
      BY <1>1, <1>3
    <2> HIDE DEF d
    <2>2. \A x \in Devices : device'[x].token = device[x].token /\ device'[x].waits = device[x].waits
      BY <1>3, <2>1
    <2>3. \A x \in Devices : \A b \in Books :
             device'[x].knows[b] \in Nat /\ device'[x].knows[b] >= device[x].knows[b]
             /\ device'[x].knows[b] =< clock'
      BY <1>1, <1>3, <2>1
    <2> QED
      BY <2>2, <2>3 DEF Brings
  <1>4. CASE Authenticate(c) /\ device' # device
    <2>1. /\ device' = [device EXCEPT ![d].knows[Book(c)] = clock'] /\ clock' = clock + 1
          /\ k.phase = "auth"
      BY <1>4, Zenon DEF Authenticate
    <2> DEFINE new == [device[d] EXCEPT !.knows[Book(c)] = clock']
    <2>2. d \in Devices
      BY <2>1, Current DEF CallOK, TokenRoutes
    <2>3. device[d] \in Device /\ device[d].knows \in [Books -> Nat]
      BY <2>2, DeviceTypes
    <2>4. /\ new.token = device[d].token /\ new.waits = device[d].waits
          /\ new.knows = [device[d].knows EXCEPT ![Book(c)] = clock']
      BY <2>3, Zenon DEF Device
    <2>5. device' = [device EXCEPT ![d] = new]
      BY <2>1, Zenon
    <2> HIDE DEF new
    <2>6. \A b \in Books : new.knows[b] = IF b = Book(c) THEN clock' ELSE device[d].knows[b]
      BY <2>3, <2>4
    <2>7. \A b \in Books : /\ new.knows[b] \in Nat /\ new.knows[b] =< clock'
                           /\ new.knows[b] >= device[d].knows[b]
      BY <1>1, <2>2, <2>6
    <2> QED
      BY <1>3, <2>4, <2>5, <2>7
  <1>5. CASE Answer(c) /\ device[d].waits = k.n
    <2> DEFINE heard == Heard(c, k.source)
               new == [waits |-> 0,
                       token |-> IF heard /\ k.route = "sync" THEN k.token ELSE device[d].token,
                       raw   |-> IF heard /\ k.route = "sync" THEN k.raw ELSE device[d].raw,
                       knows |-> IF heard THEN [b \in Books |-> Greater(device[d].knows[b], k.shown[b])]
                                 ELSE device[d].knows]
    <2>1. k.phase = "answer" /\ device' = [device EXCEPT ![d] = new] /\ clock' = clock
      BY <1>5, Zenon DEF Answer
    <2>2. d \in Devices
      BY <2>1, Current DEF CallOK, TokenRoutes
    <2>3. new.waits = 0 /\ (new.token = device[d].token \/ (heard /\ k.route = "sync" /\ new.token = k.token))
          /\ (heard => new.knows = [b \in Books |-> Greater(device[d].knows[b], k.shown[b])])
          /\ (~heard => new.knows = device[d].knows)
      OBVIOUS
    <2>4. heard => k.route \in {"GET state", "sync"}
      BY DEF Heard
    <2> HIDE DEF new, heard
    <2>5. device'[d] = new /\ \A x \in Devices : x # d => device'[x] = device[x]
      BY <1>1, <2>1, <2>2
    <2>6. heard => \A b \in Books : k.shown[b] =< clock
      BY <2>4 DEF ArrivesOK
    <2>7. \A b \in Books : /\ new.knows[b] \in Nat /\ new.knows[b] =< clock'
                           /\ new.knows[b] >= device[d].knows[b]
                           /\ heard => new.knows[b] >= k.shown[b]
      BY <1>1, <2>1, <2>2, <2>3, <2>6 DEF Greater
    <2>8. \A x \in Devices : \A b \in Books :
             device'[x].knows[b] \in Nat /\ device'[x].knows[b] >= device[x].knows[b]
             /\ device'[x].knows[b] =< clock'
      BY <1>1, <2>5, <2>7
    <2>9. Brings(c)
      BY <1>5, <2>2, <2>3, <2>5, <2>7, Zenon DEF Brings
    <2> QED
      BY <2>8, <2>9
  <1> QED
    BY <1>2, <1>4, <1>5, Zenon DEF Work, Fault, Die, Served, Refused, Proxy, LogCall, Answer,
       TokenStatement, Metadata, Download, Cover

-----------------------------------------------------------------------------
(* What a step does to the time of a row there is: it keeps it, or writes one and says  *)
(* whether a token covers it already.                                               *)
Dates(c) ==
  \A b \in Books : \A i \in DOMAIN state[b] :
    LET old == state[b][i]
        new == state'[b][i] IN
    \/ new.at = old.at /\ new.late = old.late
    \/ new.at \in Nat /\ (new.at =< issued => new.late)

LEMMA DatesAfter ==
  ASSUME TypeOK, StepsOK, NEW c \in Calls, Statement(c)
  PROVE  Dates(c)
  <1> DEFINE k == call[c]
             b == Book(c)
             old == state[b][k.row]
  <1>1. CASE state' = state
    BY <1>1 DEF Dates
  <1>2. CASE InsertState(c)
    <2> DEFINE row == NewState(k.stamp, k.n)
    <2>2. "insert" \in StateSteps
      BY DEF StateSteps
    <2>3. Due(c, "insert") /\ state' = [state EXCEPT ![b] = Append(state[b], row)]
      BY <1>2, Zenon DEF InsertState
    <2>4. b \in Books /\ state[b] \in Seq(Row) /\ state \in [Books -> Seq(Row)]
      BY <2>2, <2>3, StateCall, Current DEF Rows
    <2> HIDE DEF b, row
    <2>5. state'[b] = Append(state[b], row) /\ \A x \in Books : x # b => state'[x] = state[x]
      BY <2>3, <2>4
    <2>6. \A i \in DOMAIN state[b] : Append(state[b], row)[i] = state[b][i]
      BY <2>4
    <2>7. \A x \in Books : \A i \in DOMAIN state[x] : state'[x][i] = state[x][i]
      BY <2>5, <2>6
    <2> QED
      BY <2>7 DEF Dates
  <1>3. ASSUME NEW s \in RowSteps, Due(c, s)
        PROVE  b \in Books /\ k.row \in 1..Len(state[b]) /\ old \in Row
    <2>1. s \in StateSteps
      BY DEF StateSteps
    <2>2. b \in Books /\ k.row \in 1..Len(state[b]) /\ state[b] \in Seq(Row)
      BY <1>3, <2>1, StateCall DEF Rows
    <2>3. k.row \in DOMAIN state[b]
      BY <2>2
    <2> QED
      BY <2>2, <2>3, RowTypes
  <1>4. ASSUME NEW row \in Row, b \in Books, k.row \in 1..Len(state[b]),
               state' = [state EXCEPT ![b][k.row] = row],
               \/ row.at = old.at /\ row.late = old.late
               \/ row.at \in Nat /\ (row.at =< issued => row.late)
        PROVE  Dates(c)
    <2>1. state \in [Books -> Seq(Row)]
      BY Current
    <2> HIDE DEF b
    <2>2. \A x \in Books : \A j \in 1..Len(state[x]) :
            state'[x][j] = IF x = b /\ j = k.row THEN row ELSE state[x][j]
      BY <1>4, <2>1, RowChanged
    <2>3. \A x \in Books : DOMAIN state[x] = 1..Len(state[x])
      BY <2>1
    <2>4. \A x \in Books : \A j \in DOMAIN state[x] :
            state'[x][j] = IF x = b /\ j = k.row THEN row ELSE state[x][j]
      BY <2>2, <2>3, Zenon
    <2>5. ASSUME NEW x \in Books, NEW i \in DOMAIN state[x]
          PROVE  LET was == state[x][i]
                     is  == state'[x][i] IN
                 \/ is.at = was.at /\ is.late = was.late
                 \/ is.at \in Nat /\ (is.at =< issued => is.late)
      <3>1. CASE x = b /\ i = k.row
        <4>1. state'[x][i] = row /\ state[x][i] = old
          BY <2>4, <3>1
        <4> HIDE DEF old
        <4> QED
          BY <1>4, <4>1, Zenon
      <3>2. CASE ~(x = b /\ i = k.row)
        BY <2>4, <3>2
      <3> QED
        BY <3>1, <3>2
    <2> QED
      BY <2>5, Zenon DEF Dates
  <1>5. CASE UpdateStatus(c)
    <2> DEFINE next == StatusOrDefault(k.put.status)
               times == k.times + (IF Begins(c) THEN 1 ELSE 0)
               starts == old.starts + (IF next = "Reading" /\ old.status # "Reading" THEN 1 ELSE 0)
               late == k.at =< issued
               new == [old EXCEPT !.status = next, !.at = k.at, !.times = times,
                                  !.starts = starts, !.late = late]
    <2>1. "status" \in RowSteps
      BY DEF RowSteps
    <2>2. Due(c, "status") /\ state' = [state EXCEPT ![b][k.row] = new]
      BY <1>5 DEF UpdateStatus, Rows
    <2>3. b \in Books /\ k.row \in 1..Len(state[b]) /\ old \in Row
      BY <1>3, <2>1, <2>2
    <2>4. new \in Row /\ new.at = k.at /\ new.late = late /\ k.at \in Nat
      <3>1. k.times \in Nat /\ k.at \in Nat /\ old.starts \in Nat
        BY <2>3, Current, Zenon DEF Call, Row
      <3>2. times \in Nat /\ starts \in Nat
        BY <3>1
      <3>3. next \in Statuses
        BY DEF StatusOrDefault, Statuses
      <3>4. late \in BOOLEAN
        OBVIOUS
      <3> HIDE DEF times, starts, next, late, old
      <3> QED
        BY <2>3, <3>1, <3>2, <3>3, <3>4, Zenon DEF Row
    <2> HIDE DEF new
    <2> QED
      BY <1>4, <2>2, <2>3, <2>4
  <1>6. ASSUME NEW side \in Sides, NEW time \in Int, NEW s \in RowSteps, Due(c, s),
               state' = [state EXCEPT ![b][k.row].side[side] = time]
        PROVE  Dates(c)
    <2> DEFINE new == [old EXCEPT !.side[side] = time]
    <2>1. b \in Books /\ k.row \in 1..Len(state[b]) /\ old \in Row
      BY <1>3, <1>6
    <2>2. new \in Row /\ new.at = old.at /\ new.late = old.late
      <3> HIDE DEF old
      <3> QED
        BY <1>6, <2>1, Zenon DEF Row
    <2>3. state' = [state EXCEPT ![b][k.row] = new]
      BY <1>6, Zenon
    <2> HIDE DEF new
    <2> QED
      BY <1>4, <2>1, <2>2, <2>3
  <1>7. {"insertBookmark", "insertStatistics", "bookmark", "statistics"} \subseteq RowSteps
        /\ Sides = {"bookmark", "statistics"} /\ 0 \in Int
    BY DEF RowSteps, Sides
  <1>8. ASSUME NEW side \in Sides, NEW s \in RowSteps, InsertSide(c, side, s) PROVE Dates(c)
    <2>1. Due(c, s) /\ (state' = state \/ state' = [state EXCEPT ![b][k.row].side[side] = 0])
      BY <1>8, Zenon DEF InsertSide
    <2> QED
      BY <1>1, <1>6, <1>7, <2>1
  <1>9. ASSUME NEW side \in Sides, UpdateSide(c, side) PROVE Dates(c)
    <2>1. k.at \in Int /\ side \in RowSteps
      BY <1>7, Current
    <2> QED
      BY <1>6, <1>9, <2>1 DEF UpdateSide
  <1> QED
    BY <1>1, <1>2, <1>5, <1>7, <1>8, <1>9, Zenon DEF Statement, Find, Read, SelectStates, Seek

(* A book with one state that is not late had it before, with that time, or has it with *)
(* a time that no token covers.                                                     *)
Fresh ==
  \A b \in Books :
    Alone(state'[b]) => \/ Alone(state[b]) /\ state'[b][1].at = state[b][1].at
                        \/ state'[b][1].at > issued'

LEMMA FreshAfter ==
  ASSUME TypeOK, StepsOK, TypeOK', NEW c \in Calls, Work(c) \/ Fault(c) \/ Die(c)
  PROVE  Fresh
  <1>1. CASE state' = state
    BY <1>1 DEF Fresh
  <1>2. ASSUME state' # state
        PROVE  Statement(c) /\ ~SelectStates(c) /\ (Inserts(c) \/ Changes(c)) /\ issued' = issued
    <2>1. Statement(c)
      BY <1>2, ClockGrows
    <2>2. ~SelectStates(c)
      BY <1>2, Zenon DEF SelectStates
    <2>3. issued' = issued
      BY <2>1, <2>2, Zenon DEF Statement, Find, InsertState, Read, UpdateStatus, Seek, InsertSide, UpdateSide
    <2> QED
      BY <1>2, <2>1, <2>2, <2>3, RowsAfter
  <1>3. \A b \in Books : /\ state[b] \in Seq(Row) /\ state'[b] \in Seq(Row)
                         /\ DOMAIN state[b] = 1..Len(state[b]) /\ DOMAIN state'[b] = 1..Len(state'[b])
                         /\ Len(state[b]) \in Nat /\ Len(state'[b]) \in Nat
    BY DEF TypeOK
  <1>4. issued \in Nat
    BY DEF TypeOK
  <1>5. CASE state' # state /\ Inserts(c)
    <2> DEFINE row == NewState(call[c].stamp, call[c].n)
    <2>0. "insert" \in StateSteps
      BY DEF StateSteps
    <2>1. /\ Due(c, "insert") /\ \A b \in Books : b # Book(c) => state'[b] = state[b]
          /\ DOMAIN state'[Book(c)] = 1..(Len(state[Book(c)]) + 1)
          /\ state'[Book(c)][Len(state[Book(c)]) + 1] = row
      BY <1>5 DEF Inserts, Rows
    <2>2. Book(c) \in Books
      BY <2>0, <2>1, StateCall
    <2>3. row.at = call[c].stamp /\ (call[c].stamp =< issued => row.late)
      BY Zenon DEF NewState
    <2>4. call[c].stamp \in Nat
      BY Current, Zenon DEF Call
    <2> HIDE DEF row
    <2>5. ASSUME Alone(state'[Book(c)]) PROVE state'[Book(c)][1].at > issued'
      <3>1. Len(state[Book(c)]) = 0
        BY <1>3, <2>1, <2>2, <2>5 DEF Alone
      <3>2. state'[Book(c)][1] = row
        BY <2>1, <3>1
      <3>3. ~row.late
        BY <2>5, <3>2 DEF Alone
      <3>4. call[c].stamp > issued
        BY <1>4, <2>3, <2>4, <3>3
      <3>5. issued' = issued
        BY <1>2, <1>5
      <3> QED
        BY <2>3, <3>2, <3>4, <3>5
    <2> QED
      BY <2>1, <2>5, Zenon DEF Fresh
  <1>6. CASE state' # state /\ Changes(c)
    <2>1. Dates(c)
      BY <1>2, <1>6, DatesAfter
    <2>2. ASSUME NEW b \in Books, Alone(state'[b])
          PROVE  \/ Alone(state[b]) /\ state'[b][1].at = state[b][1].at
                 \/ state'[b][1].at > issued'
      <3>1. DOMAIN state'[b] = DOMAIN state[b]
        BY <1>6 DEF Changes
      <3>2. Len(state[b]) = 1 /\ 1 \in DOMAIN state[b]
        BY <1>3, <2>2, <3>1 DEF Alone
      <3>3. \/ state'[b][1].at = state[b][1].at /\ state'[b][1].late = state[b][1].late
            \/ state'[b][1].at \in Nat /\ (state'[b][1].at =< issued => state'[b][1].late)
        BY <2>1, <3>2, Zenon DEF Dates
      <3>4. ~state'[b][1].late
        BY <2>2 DEF Alone
      <3>5. CASE state'[b][1].at = state[b][1].at /\ state'[b][1].late = state[b][1].late
        BY <3>2, <3>4, <3>5, Zenon DEF Alone
      <3>6. CASE state'[b][1].at \in Nat /\ ~(state'[b][1].at =< issued)
        BY <1>2, <1>4, <1>6, <3>6
      <3> QED
        BY <3>3, <3>4, <3>5, <3>6, Zenon
    <2> QED
      BY <2>2, Zenon DEF Fresh
  <1> QED
    BY <1>1, <1>2, <1>5, <1>6

LEMMA IssuedGrows ==
  ASSUME TypeOK, StepsOK, TimesOK, NEW c \in Calls, Work(c) \/ Fault(c) \/ Die(c)
  PROVE  issued \in Nat /\ issued' \in Nat /\ issued' >= issued
  <1>1. issued \in Nat
    BY DEF TypeOK
  <1>2. CASE SelectStates(c)
    BY <1>1, <1>2, SelectAfter DEF Selected
  <1>3. SelectStates(c) \/ issued' = issued
    BY Zenon DEF Work, Fault, Die, Authenticate, Served, Refused, Proxy, LogCall, Answer, TokenStatement,
       Metadata, Download, Cover, Statement, Find, InsertState, Read, UpdateStatus, Seek, InsertSide, UpdateSide
  <1> QED
    BY <1>1, <1>2, <1>3

(* The times of the rows, and of the rows that are alone. *)
LEMMA AloneTypes ==
  ASSUME TypeOK, NEW b \in Known, Alone(state[b])
  PROVE  b \in Books /\ 1 \in DOMAIN state[b] /\ state[b][1].at \in Nat
  <1>1. b \in Books /\ state[b] \in Seq(Row)
    BY ReadingAssumption DEF TypeOK
  <1>2. 1 \in DOMAIN state[b] /\ state[b][1] \in Row
    BY <1>1 DEF Alone
  <1> QED
    BY <1>1, <1>2, Zenon DEF Row

(* Of the call whose step it is: the times it shows are past ones, and a synchronisation *)
(* its device waits for shows whatever its new token says.                            *)
LEMMA ReadShows ==
  ASSUME TypeOK, StepsOK, TimesOK, ArrivesOK, NEW c \in Calls, Read(c)
  PROVE  /\ call'[c].route = call[c].route /\ call[c].route \in StateRoutes
         /\ call[c].route = "GET state" => \A b \in Books : call'[c].shown[b] =< clock
  <1> DEFINE k == call[c]
             v == call'[c]
             row == Rows(c)[k.row]
             shown == [k.shown EXCEPT ![Book(c)] = row.at]
  <1>1. Due(c, "read") /\ "read" \in RowSteps /\ "read" \in StateSteps
    BY DEF Read, RowSteps, StateSteps
  <1>2. k.route \in StateRoutes /\ Book(c) \in Books /\ k.row \in 1..Len(Rows(c)) /\ Rows(c) \in Seq(Row)
    BY <1>1, StateCall
  <1>3. row.at =< clock
    <2>1. k.row \in DOMAIN state[Book(c)]
      BY <1>2 DEF Rows
    <2> QED
      BY <1>2, <2>1, Zenon DEF TimesOK, Rows
  <1>4. call \in [Calls -> Call] /\ k \in Call /\ k.shown \in [Books -> Nat]
    BY Current
  <1>5. \A b \in Books : shown[b] = IF b = Book(c) THEN row.at ELSE k.shown[b]
    BY <1>4
  <1> HIDE DEF row
  <1>6. PICK w : /\ call' = [call EXCEPT ![c] = w]
                 /\ \/ w = [k EXCEPT !.shown = shown, !.books = Tail(k.books),
                                     !.todo = IF Len(k.books) > 1 THEN Contact ELSE <<>>]
                    \/ w = [k EXCEPT !.shown = shown, !.status = row.status, !.times = row.times,
                                     !.todo = Rest(c)]
    BY Zenon DEF Read, row
  <1>7. v = w
    BY <1>4, <1>6
  <1> HIDE DEF shown, v
  <1>8. v.route = k.route /\ v.shown = shown
    BY <1>4, <1>6, <1>7, Zenon DEF Call
  <1>9. ASSUME k.route = "GET state", NEW b \in Books PROVE v.shown[b] =< clock
    <2>1. k.shown[b] =< clock
      BY <1>9, Zenon DEF ArrivesOK
    <2> QED
      BY <1>3, <1>5, <1>8, <2>1
  <1> QED
    BY <1>2, <1>8, <1>9 DEF v

LEMMA CallLearns ==
  ASSUME TypeOK, StepsOK, TimesOK, ArrivesOK, NEW c \in Calls, Work(c) \/ Fault(c) \/ Die(c)
  PROVE  LET k == call[c]
             v == call'[c] IN
         /\ v.phase # "idle" => v.n # 0
         /\ v.route \in {"GET state", "sync"} =>
              /\ v.route = k.route /\ v.n = k.n /\ v.device = k.device
              /\ \A b \in Books : v.shown[b] =< clock'
         /\ v.route = "sync" =>
              /\ v.token \in Nat /\ v.token =< issued'
              /\ v.todo = <<"states">> => v.token = k.token /\ k.todo = <<"states">>
              /\ device[k.device].waits = k.n =>
                   \A b \in Known :
                     Alone(state[b]) /\ state[b][1].at =< v.token =>
                       \/ device[k.device].knows[b] >= state[b][1].at
                       \/ v.shown[b] >= state[b][1].at
  <1> DEFINE k == call[c]
             v == call'[c]
  <1>1. /\ k \in Call /\ k.n \in Nat /\ k.token \in Nat /\ k.phase # "idle" /\ k.n # 0
        /\ k.shown \in [Books -> Nat]
        /\ clock \in Nat /\ clock' \in Nat /\ clock' >= clock
        /\ issued \in Nat /\ issued' \in Nat /\ issued' >= issued
    BY Current, OneChanges, ClockGrows, IssuedGrows DEF ArrivesOK
  <1>2. /\ v.phase # "idle" => v.n = k.n
        /\ v.route \in {"GET state", "sync"} => v.route = k.route /\ v.n = k.n /\ v.device = k.device
    <2>1. CASE v = Idle
      <3>1. Idle.phase = "idle" /\ Idle.route = "none"
        BY Zenon DEF Idle
      <3> HIDE DEF v
      <3> QED
        BY <2>1, <3>1
    <2>2. CASE Kept(k, v, clock')
      BY <2>2 DEF Kept
    <2>3. CASE TokenStatement(c) /\ v # Idle
      <3>1. v = [k EXCEPT !.todo = Rest(c)] /\ k \in Call
        BY <2>3, Current DEF TokenStatement
      <3>2. v.n = k.n /\ v.route = k.route /\ v.device = k.device
        BY <3>1, Zenon DEF Call
      <3> QED
        BY <3>2
    <2> QED
      BY <2>1, <2>2, <2>3, WorkCall
  <1>3. k.route \in {"GET state", "sync"} => k.device \in Devices
    BY <1>1, Current DEF CallOK, TokenRoutes
  <1>4. Learns(c)
    BY WorkLearns
  <1> HIDE DEF v
  <1>5. CASE v.route = "none"
    BY <1>1, <1>2, <1>5 DEF v
  <1>6. CASE Read(c)
    <2>1. v.route = k.route /\ k.route # "sync"
          /\ (k.route = "GET state" => \A b \in Books : v.shown[b] =< clock)
      BY <1>6, ReadShows DEF v, StateRoutes
    <2>2. clock' = clock
      BY <1>6 DEF Read
    <2> QED
      BY <1>1, <1>2, <2>1, <2>2 DEF v
  <1>7. CASE SelectStates(c)
    <2>1. /\ state' = state /\ clock' = clock /\ v.todo = <<>> /\ v.route = "sync" /\ k.todo = <<"states">>
          /\ v.token \in Nat /\ v.token =< issued'
          /\ \A b \in Books : v.shown[b] \in Nat /\ v.shown[b] =< clock
          /\ \A b \in Known : Len(state[b]) = 1 /\ state[b][1].at > k.token => v.shown[b] = state[b][1].at
      BY <1>7, SelectAfter, Zenon DEF Selected, v
    <2>2. ASSUME device[k.device].waits = k.n, NEW b \in Known, Alone(state[b])
          PROVE  \/ device[k.device].knows[b] >= state[b][1].at
                 \/ v.shown[b] >= state[b][1].at
      <3>1. k.route = "sync" /\ k.device \in Devices
        BY <1>2, <1>3, <2>1
      <3>2. k.token = device[k.device].token
        BY <2>1, <2>2, <3>1 DEF ArrivesOK
      <3>3. state[b][1].at \in Nat
        BY <2>2, AloneTypes
      <3>4. CASE state[b][1].at > k.token
        <4>1. v.shown[b] = state[b][1].at
          BY <2>1, <2>2, <3>4, Zenon DEF Alone
        <4> QED
          BY <3>3, <4>1
      <3>5. CASE state[b][1].at =< k.token
        BY <2>2, <3>1, <3>2, <3>5, Zenon DEF ArrivesOK, ProgressArrives, Alone
      <3> QED
        BY <1>1, <3>3, <3>4, <3>5
    <2>3. <<>> # <<"states">>
      OBVIOUS
    <2> QED
      BY <1>1, <1>2, <2>1, <2>2, <2>3 DEF v
  <1>8. CASE /\ v.shown = k.shown /\ v.token = k.token
             /\ k.route = "sync" => v.todo \in {k.todo, <<>>}
    <2>1. ASSUME v.route \in {"GET state", "sync"}, NEW b \in Books PROVE v.shown[b] =< clock'
      <3>1. k.shown[b] \in Nat /\ k.shown[b] =< clock
        BY <1>1, <1>2, <2>1 DEF ArrivesOK
      <3> QED
        BY <1>1, <1>8, <3>1
    <2>2. ASSUME v.route = "sync"
          PROVE  /\ v.token \in Nat /\ v.token =< issued'
                 /\ v.todo = <<"states">> => v.token = k.token /\ k.todo = <<"states">>
      <3>1. k.route = "sync" /\ k.token =< issued
        BY <1>2, <2>2 DEF ArrivesOK
      <3>2. v.todo = <<"states">> => k.todo = <<"states">>
        BY <1>8, <3>1
      <3> QED
        BY <1>1, <1>8, <3>1, <3>2
    <2>3. ASSUME v.route = "sync", device[k.device].waits = k.n, NEW b \in Known,
                 Alone(state[b]), state[b][1].at =< v.token
          PROVE  \/ device[k.device].knows[b] >= state[b][1].at
                 \/ v.shown[b] >= state[b][1].at
      <3>1. k.route = "sync" /\ state[b][1].at =< k.token
        BY <1>2, <1>8, <2>3
      <3>2. \/ device[k.device].knows[b] >= state[b][1].at
            \/ k.shown[b] >= state[b][1].at
        BY <2>3, <3>1, Zenon DEF ArrivesOK
      <3> QED
        BY <1>8, <3>2
    <2> QED
      BY <1>1, <1>2, <2>1, <2>2, <2>3 DEF v
  <1> QED
    BY <1>4, <1>5, <1>6, <1>7, <1>8 DEF Learns, v

-----------------------------------------------------------------------------
LEMMA WorkArrives ==
  ASSUME TypeOK, StepsOK, TimesOK, ArrivesOK, TypeOK', NEW c \in Calls, Work(c) \/ Fault(c) \/ Die(c)
  PROVE  ArrivesOK'
  <1> DEFINE k == call[c]
             v == call'[c]
  <1>1. /\ clock \in Nat /\ clock' \in Nat /\ clock' >= clock
        /\ issued \in Nat /\ issued' \in Nat /\ issued' >= issued
        /\ \A x \in Calls : x # c => call'[x] = call[x]
    BY Current, OneChanges, ClockGrows, IssuedGrows
  <1>2. \A d \in Devices : /\ device[d].token \in Nat /\ device[d].waits \in Nat
                           /\ device[d].token =< issued
                           /\ \A b \in Books : device[d].knows[b] \in Nat /\ device[d].knows[b] =< clock
    BY DeviceTypes DEF ArrivesOK
  <1>3. \A d \in Devices : \A b \in Books :
          device'[d].knows[b] \in Nat /\ device'[d].knows[b] >= device[d].knows[b]
          /\ device'[d].knows[b] =< clock'
    BY DeviceLearns
  <1>4. Brings(c) /\ Fresh
    BY DeviceLearns, FreshAfter
  <1>5. \A x \in Calls : /\ call[x].n \in Nat /\ call[x].token \in Nat
                         /\ \A b \in Books : call[x].shown[b] \in Nat
                         /\ call[x].route \in {"GET state", "sync"} => call[x].phase # "idle" /\ call[x].device \in Devices
    <2> SUFFICES ASSUME NEW x \in Calls
                 PROVE  /\ call[x].n \in Nat /\ call[x].token \in Nat
                        /\ \A b \in Books : call[x].shown[b] \in Nat
                        /\ call[x].route \in {"GET state", "sync"} => call[x].phase # "idle" /\ call[x].device \in Devices
      OBVIOUS
    <2>1. call[x].n \in Nat /\ call[x].token \in Nat /\ call[x].shown \in [Books -> Nat]
      BY Current
    <2>2. Idle.route = "none"
      BY Zenon DEF Idle
    <2>3. call[x].route \in {"GET state", "sync"} => call[x].phase # "idle"
      BY <2>2, Current DEF CallOK
    <2>4. call[x].route \in {"GET state", "sync"} => call[x].device \in Devices
      BY <2>3, Current DEF CallOK, TokenRoutes
    <2> QED
      BY <2>1, <2>3, <2>4
  <1>6. /\ v.phase # "idle" => v.n # 0
        /\ v.route \in {"GET state", "sync"} =>
             /\ v.route = k.route /\ v.n = k.n /\ v.device = k.device
             /\ \A b \in Books : v.shown[b] =< clock'
        /\ v.route = "sync" =>
             /\ v.token \in Nat /\ v.token =< issued'
             /\ v.todo = <<"states">> => v.token = k.token /\ k.todo = <<"states">>
             /\ device[k.device].waits = k.n =>
                  \A b \in Known :
                    Alone(state[b]) /\ state[b][1].at =< v.token =>
                      \/ device[k.device].knows[b] >= state[b][1].at
                      \/ v.shown[b] >= state[b][1].at
    BY CallLearns
  <1> HIDE DEF v
  <1>7. ASSUME NEW b \in Known, Alone(state'[b]), state'[b][1].at =< issued'
        PROVE  b \in Books /\ Alone(state[b]) /\ state'[b][1].at = state[b][1].at /\ state[b][1].at \in Nat
    <2>1. b \in Books
      BY ReadingAssumption
    <2>2. state'[b][1].at \in Nat
      <3>1. state'[b] \in Seq(Row)
        BY <2>1 DEF TypeOK
      <3>2. state'[b][1] \in Row
        BY <1>7, <3>1 DEF Alone
      <3> QED
        BY <3>2, Zenon DEF Row
    <2>3. Alone(state[b]) /\ state'[b][1].at = state[b][1].at
      BY <1>1, <1>4, <1>7, <2>1, <2>2 DEF Fresh
    <2> QED
      BY <2>1, <2>2, <2>3
  (* A device that still waits has learnt no token. *)
  <1>8. ASSUME NEW d \in Devices, device'[d].waits # 0
        PROVE  device'[d].token = device[d].token /\ device'[d].waits = device[d].waits
    BY <1>4, <1>8 DEF Brings
  <1>9. ASSUME NEW d \in Devices
        PROVE  \/ device'[d].token = device[d].token
               \/ d = k.device /\ device[d].waits = k.n /\ k.route = "sync" /\ device'[d].token = k.token
                  /\ \A b \in Books : device'[d].knows[b] >= k.shown[b]
    BY <1>4, Zenon DEF Brings
  <1>10. \A d \in Devices : device'[d].token =< issued'
    <2> SUFFICES ASSUME NEW d \in Devices PROVE device'[d].token =< issued'
      OBVIOUS
    <2>1. k.route = "sync" => k.token =< issued
      BY DEF ArrivesOK
    <2>2. k.token \in Nat /\ device[d].token \in Nat /\ device[d].token =< issued
      BY <1>2, <1>5
    <2>3. device'[d].token = device[d].token \/ (k.route = "sync" /\ device'[d].token = k.token)
      BY <1>9
    <2> HIDE DEF k
    <2> QED
      BY <1>1, <2>1, <2>2, <2>3
  <1>11. ASSUME NEW x \in Calls
         PROVE  /\ call'[x].phase # "idle" => call'[x].n # 0
                /\ call'[x].route = "sync" => call'[x].token =< issued'
                /\ call'[x].route \in {"GET state", "sync"} => \A b \in Books : call'[x].shown[b] =< clock'
    <2>1. CASE x = c
      BY <1>6, <2>1 DEF v
    <2>2. CASE x # c
      <3>1. call'[x] = call[x]
        BY <1>1, <2>2
      <3>2. /\ call[x].phase # "idle" => call[x].n # 0
            /\ call[x].route = "sync" => call[x].token =< issued
            /\ call[x].route \in {"GET state", "sync"} => \A b \in Books : call[x].shown[b] =< clock
        BY DEF ArrivesOK
      <3>3. call[x].token \in Nat /\ \A b \in Books : call[x].shown[b] \in Nat
        BY <1>5
      <3>4. call[x].route = "sync" => call[x].token =< issued'
        BY <1>1, <3>2, <3>3
      <3>5. ASSUME call[x].route \in {"GET state", "sync"}, NEW b \in Books
            PROVE  call[x].shown[b] =< clock'
        <4>1. call[x].shown[b] =< clock /\ call[x].shown[b] \in Nat
          BY <3>2, <3>3, <3>5, Zenon
        <4> QED
          BY <1>1, <4>1
      <3> QED
        BY <3>1, <3>2, <3>4, <3>5, Zenon
    <2> QED
      BY <2>1, <2>2
  <1>12. ASSUME NEW x \in Calls, call'[x].route = "sync", device'[call'[x].device].waits = call'[x].n
         PROVE  /\ call[x].route = "sync" /\ call'[x].device = call[x].device /\ call[x].device \in Devices
                /\ device[call[x].device].waits = call[x].n
                /\ device'[call[x].device].token = device[call[x].device].token
    <2>1. call[x].route = "sync" /\ call'[x].device = call[x].device /\ call'[x].n = call[x].n
      <3>1. CASE x = c
        BY <1>6, <1>12, <3>1 DEF v
      <3>2. CASE x # c
        BY <1>1, <1>12, <3>2
      <3> QED
        BY <3>1, <3>2
    <2>2. call[x].device \in Devices /\ call[x].n # 0
      BY <1>5, <2>1 DEF ArrivesOK
    <2> QED
      BY <1>8, <1>12, <2>1, <2>2
  <1>13. ASSUME NEW x \in Calls, call'[x].route = "sync", device'[call'[x].device].waits = call'[x].n
         PROVE  call'[x].todo = <<"states">> => call'[x].token = device'[call'[x].device].token
    <2>1. call[x].todo = <<"states">> => call[x].token = device[call[x].device].token
      BY <1>12, <1>13 DEF ArrivesOK
    <2>2. CASE x = c
      BY <1>6, <1>12, <1>13, <2>1, <2>2 DEF v
    <2>3. CASE x # c
      BY <1>1, <1>12, <1>13, <2>1, <2>3
    <2> QED
      BY <2>2, <2>3
  <1>14. ASSUME NEW x \in Calls, call'[x].route = "sync", device'[call'[x].device].waits = call'[x].n,
                NEW b \in Known, Alone(state'[b]), state'[b][1].at =< call'[x].token
         PROVE  \/ device'[call'[x].device].knows[b] >= state'[b][1].at
                \/ call'[x].shown[b] >= state'[b][1].at
    <2>1. call[x].route = "sync" /\ call'[x].device = call[x].device /\ call[x].device \in Devices
          /\ device[call[x].device].waits = call[x].n
      BY <1>12, <1>14
    <2>2. state'[b][1].at =< issued'
      <3>1. b \in Books /\ 1 \in DOMAIN state'[b] /\ state'[b] \in Seq(Row)
        BY <1>14, ReadingAssumption DEF TypeOK, Alone
      <3>2. state'[b][1].at \in Nat
        <4>1. state'[b][1] \in Row
          BY <3>1
        <4> QED
          BY <4>1, Zenon DEF Row
      <3>3. call'[x].token \in Nat /\ call'[x].token =< issued'
        <4>1. CASE x = c
          BY <1>6, <1>14, <4>1 DEF v
        <4>2. CASE x # c
          BY <1>1, <1>5, <1>11, <1>14, <4>2
        <4> QED
          BY <4>1, <4>2
      <3> QED
        BY <1>1, <1>14, <3>2, <3>3
    <2>3. b \in Books /\ Alone(state[b]) /\ state'[b][1].at = state[b][1].at /\ state[b][1].at \in Nat
      BY <1>7, <1>14, <2>2
    <2>4. \/ device[call[x].device].knows[b] >= state[b][1].at
          \/ call'[x].shown[b] >= state[b][1].at
      <3>1. CASE x = c
        BY <1>6, <1>14, <2>1, <2>3, <3>1 DEF v
      <3>2. CASE x # c
        <4>1. call'[x] = call[x]
          BY <1>1, <3>2
        <4> QED
          BY <1>14, <2>1, <2>3, <4>1 DEF ArrivesOK
      <3> QED
        BY <3>1, <3>2
    <2> QED
      BY <1>2, <1>3, <2>1, <2>3, <2>4
  <1>15. ASSUME NEW d \in Devices, NEW b \in Known, Alone(state'[b]), state'[b][1].at =< device'[d].token
         PROVE  device'[d].knows[b] >= state'[b][1].at
    <2>1. state'[b][1].at =< issued'
      <3>1. b \in Books /\ 1 \in DOMAIN state'[b] /\ state'[b] \in Seq(Row)
        BY <1>15, ReadingAssumption DEF TypeOK, Alone
      <3>2. state'[b][1].at \in Nat
        <4>1. state'[b][1] \in Row
          BY <3>1
        <4> QED
          BY <4>1, Zenon DEF Row
      <3>3. device'[d].token \in Nat /\ device'[d].token =< issued'
        BY <1>2, <1>5, <1>9, <1>10
      <3> QED
        BY <1>1, <1>15, <3>2, <3>3
    <2>2. b \in Books /\ Alone(state[b]) /\ state'[b][1].at = state[b][1].at /\ state[b][1].at \in Nat
      BY <1>7, <1>15, <2>1
    <2>3. CASE device'[d].token = device[d].token
      <3>1. device[d].knows[b] >= state[b][1].at
        BY <1>15, <2>2, <2>3, Zenon DEF ArrivesOK, ProgressArrives, Alone
      <3> QED
        BY <1>2, <1>3, <2>2, <3>1
    <2>4. CASE d = k.device /\ device[d].waits = k.n /\ k.route = "sync" /\ device'[d].token = k.token
               /\ \A x \in Books : device'[d].knows[x] >= k.shown[x]
      <3>1. \/ device[d].knows[b] >= state[b][1].at
            \/ k.shown[b] >= state[b][1].at
        BY <1>15, <2>2, <2>4, Zenon DEF ArrivesOK
      <3>2. k.shown[b] \in Nat /\ device'[d].knows[b] >= k.shown[b]
        BY <1>5, <2>2, <2>4
      <3> QED
        BY <1>2, <1>3, <2>2, <3>1, <3>2
    <2> QED
      BY <1>9, <2>3, <2>4
  <1>16. ProgressArrives'
    BY <1>15, Zenon DEF ProgressArrives, Alone
  <1> QED
    BY <1>3, <1>10, <1>11, <1>13, <1>14, <1>16, Zenon DEF ArrivesOK

(* A new request has shown nothing yet, and carries its device's token. *)
LEMMA RequestShown ==
  ASSUME TypeOK, StepsOK, NEW c \in Calls, Request(c), NEW b \in Books
  PROVE  call'[c].shown[b] = 0
  <1> DEFINE v == call'[c]
  <1>1. call \in [Calls -> Call]
    BY Current
  <1>2. Idle.shown = [x \in Books |-> 0]
    BY Zenon DEF Idle
  <1>3. ASSUME NEW d \in Devices, NEW route, NEW books, NEW todo, NEW put, Ask(c, d, route, books, todo, put)
        PROVE  v.shown = Idle.shown
    <2>1. PICK t \in DOMAIN token :
             Begin(c, [Idle EXCEPT !.phase = "auth", !.route = route, !.device = d, !.auth = t,
                                   !.books = books, !.todo = todo, !.put = put,
                                   !.token = device[d].token, !.raw = device[d].raw])
      BY <1>3 DEF Ask
    <2> QED
      BY <1>1, <2>1, Zenon DEF Begin, Idle
  <1>4. ASSUME NEW todo, NEW route, NEW auth,
               \/ Begin(c, [Idle EXCEPT !.phase = "local", !.route = route, !.todo = todo])
               \/ Begin(c, [Idle EXCEPT !.phase = "local", !.route = route, !.todo = todo, !.auth = auth])
        PROVE  v.shown = Idle.shown
    <2>1. CASE Begin(c, [Idle EXCEPT !.phase = "local", !.route = route, !.todo = todo])
      BY <1>1, <2>1, Zenon DEF Begin, Idle
    <2>2. CASE Begin(c, [Idle EXCEPT !.phase = "local", !.route = route, !.todo = todo, !.auth = auth])
      BY <1>1, <2>2, Zenon DEF Begin, Idle
    <2> QED
      BY <1>4, <2>1, <2>2
  <1> HIDE DEF v
  <1>5. CASE CreateToken(c) \/ RevokeToken(c)
    <2>1. v.shown = Idle.shown
      BY <1>4, <1>5, Zenon DEF CreateToken, RevokeToken
    <2> QED
      BY <1>2, <2>1 DEF v
  <1>6. ASSUME NEW d \in Devices,
               \/ GetStates(c, d) \/ PutState(c, d) \/ Synchronise(c, d) \/ GetMetadata(c, d)
               \/ GetDownload(c, d) \/ GetCover(c, d) \/ Initialise(c, d)
               \/ DeviceAuth(c, d) \/ RefreshAuth(c, d) \/ AnyOther(c, d)
        PROVE  v.shown[b] = 0
    <2>1. \E route, books, todo, put : Ask(c, d, route, books, todo, put)
      BY <1>6, Zenon DEF GetStates, PutState, Synchronise, GetMetadata, GetDownload, GetCover, Initialise,
         DeviceAuth, RefreshAuth, AnyOther
    <2>2. v.shown = Idle.shown
      BY <1>3, <2>1
    <2> QED
      BY <1>2, <2>2
  <1> QED
    BY <1>5, <1>6 DEF Request, v

LEMMA RequestArrives ==
  ASSUME TypeOK, StepsOK, ArrivesOK, NEW c \in Calls, Request(c)
  PROVE  ArrivesOK'
  <1> DEFINE v == call'[c]
  <1>1. /\ begun' = begun + 1 /\ v.n = begun' /\ \A x \in Calls : x # c => call'[x] = call[x]
        /\ clock' = clock /\ state' = state /\ issued' = issued
        /\ \/ device' = device /\ v.route \in TokenRoutes
           \/ \E d \in Devices :
                /\ device' = [device EXCEPT ![d].waits = begun']
                /\ v.device = d /\ v.token = device[d].token
    BY RequestCall, Zenon
  <1>2. clock \in Nat /\ begun \in Nat /\ \A b \in Books : v.shown[b] = 0
    BY RequestShown, Current
  <1> HIDE DEF v
  <1>3. /\ \A d \in Devices : device'[d].token = device[d].token /\ device'[d].knows = device[d].knows
        /\ \A d \in Devices : device'[d].waits = device[d].waits \/ device'[d].waits = begun'
    <2>1. CASE device' = device
      BY <2>1
    <2>2. ASSUME NEW d \in Devices, device' = [device EXCEPT ![d].waits = begun']
          PROVE  /\ \A x \in Devices : device'[x].token = device[x].token /\ device'[x].knows = device[x].knows
                 /\ \A x \in Devices : device'[x].waits = device[x].waits \/ device'[x].waits = begun'
      <3>1. device'[d] = [device[d] EXCEPT !.waits = begun'] /\ \A x \in Devices : x # d => device'[x] = device[x]
        BY <2>2 DEF TypeOK
      <3>2. device[d] \in Device
        BY DEF TypeOK
      <3>3. LET new == [device[d] EXCEPT !.waits = begun'] IN
            new.token = device[d].token /\ new.knows = device[d].knows /\ new.waits = begun'
        BY <3>2, Zenon DEF Device
      <3> QED
        BY <3>1, <3>3
    <2> QED
      BY <1>1, <2>1, <2>2
  <1>4. v.route = "sync" => \E d \in Devices : v.device = d /\ v.token = device[d].token
    <2>1. v.route = "sync" => v.route \notin TokenRoutes
      BY DEF TokenRoutes
    <2> QED
      BY <1>1, <2>1
  <1>5. ProgressArrives'
    BY <1>1, <1>3, Zenon DEF ArrivesOK, ProgressArrives
  <1>6. \A d \in Devices : /\ device'[d].token =< issued'
                           /\ \A b \in Books : device'[d].knows[b] =< clock'
    BY <1>1, <1>3, Zenon DEF ArrivesOK
  <1>7. /\ v.n # 0
        /\ \A b \in Books : v.shown[b] =< clock'
        /\ v.route = "sync" => /\ v.token =< issued' /\ v.token = device'[v.device].token
                               /\ \A b \in Known :
                                    Alone(state'[b]) /\ state'[b][1].at =< v.token =>
                                      device'[v.device].knows[b] >= state'[b][1].at
    <2>1. v.n # 0
      BY <1>1, <1>2
    <2>2. \A b \in Books : v.shown[b] =< clock'
      BY <1>1, <1>2
    <2>3. CASE v.route = "sync"
      <3>1. PICK d \in Devices : v.device = d /\ v.token = device[d].token
        BY <1>4, <2>3
      <3>2. v.token =< issued' /\ v.token = device'[d].token
        BY <1>3, <1>6, <3>1
      <3>3. ASSUME NEW b \in Known, Alone(state'[b]), state'[b][1].at =< v.token
            PROVE  device'[d].knows[b] >= state'[b][1].at
        BY <1>5, <3>2, <3>3, Zenon DEF ProgressArrives, Alone
      <3> QED
        BY <2>1, <2>2, <3>1, <3>2, <3>3
    <2> QED
      BY <2>1, <2>2, <2>3
  <1>8. ASSUME NEW x \in Calls
        PROVE  /\ call'[x].phase # "idle" => call'[x].n # 0
               /\ call'[x].route = "sync" => call'[x].token =< issued'
               /\ call'[x].route \in {"GET state", "sync"} => \A b \in Books : call'[x].shown[b] =< clock'
               /\ call'[x].route = "sync" /\ device'[call'[x].device].waits = call'[x].n =>
                    /\ call'[x].todo = <<"states">> => call'[x].token = device'[call'[x].device].token
                    /\ \A b \in Known :
                         Alone(state'[b]) /\ state'[b][1].at =< call'[x].token =>
                           \/ device'[call'[x].device].knows[b] >= state'[b][1].at
                           \/ call'[x].shown[b] >= state'[b][1].at
    <2>1. CASE x = c
      BY <1>7, <2>1, Zenon DEF v
    <2>2. CASE x # c
      <3>1. call'[x] = call[x] /\ call[x].n # begun'
        <4>1. call[x].n \in Nat /\ call[x].n =< begun
          BY Current DEF CallOK
        <4> QED
          BY <1>1, <1>2, <2>2, <4>1
      <3>2. call[x].route = "sync" => call[x].device \in Devices
        <4>1. Idle.route = "none"
          BY Zenon DEF Idle
        <4> QED
          BY <4>1, Current DEF CallOK, TokenRoutes
      <3>3. call[x].route = "sync" /\ device'[call[x].device].waits = call[x].n
            => device[call[x].device].waits = call[x].n
        BY <1>3, <3>1, <3>2
      <3>4. call[x].route = "sync" => /\ device'[call[x].device].token = device[call[x].device].token
                                      /\ device'[call[x].device].knows = device[call[x].device].knows
        BY <1>3, <3>2
      <3> QED
        BY <1>1, <3>1, <3>3, <3>4, Zenon DEF ArrivesOK
    <2> QED
      BY <2>1, <2>2
  <1> QED
    BY <1>5, <1>6, <1>8, Zenon DEF ArrivesOK

LEMMA ArrivesStep ==
  ASSUME TypeOK, StepsOK, TimesOK, ArrivesOK, TypeOK', [Next]_vars
  PROVE  ArrivesOK'
  <1>1. CASE UNCHANGED vars
    <2>1. device' = device /\ call' = call /\ state' = state /\ clock' = clock /\ issued' = issued
      BY <1>1, Zenon DEF vars, readingVars
    <2> QED
      BY <2>1, Zenon DEF ArrivesOK, ProgressArrives, Alone
  <1>2. ASSUME NEW d \in Devices, GiveUp(d) PROVE ArrivesOK'
    <2>1. /\ device' = [device EXCEPT ![d].waits = 0] /\ call' = call /\ state' = state
          /\ clock' = clock /\ issued' = issued
      BY <1>2, Zenon DEF GiveUp, readingVars
    <2>2. /\ \A x \in Devices : device'[x].token = device[x].token /\ device'[x].knows = device[x].knows
          /\ \A x \in Devices : device'[x].waits = device[x].waits \/ device'[x].waits = 0
      <3>1. device'[d] = [device[d] EXCEPT !.waits = 0] /\ \A x \in Devices : x # d => device'[x] = device[x]
        BY <2>1 DEF TypeOK
      <3>2. device[d] \in Device
        BY DEF TypeOK
      <3>3. LET new == [device[d] EXCEPT !.waits = 0] IN
            new.token = device[d].token /\ new.knows = device[d].knows /\ new.waits = 0
        BY <3>2, Zenon DEF Device
      <3> QED
        BY <3>1, <3>3
    <2>3. ProgressArrives'
      BY <2>1, <2>2, Zenon DEF ArrivesOK, ProgressArrives
    <2>4. \A x \in Devices : /\ device'[x].token =< issued'
                             /\ \A b \in Books : device'[x].knows[b] =< clock'
      BY <2>1, <2>2, Zenon DEF ArrivesOK
    <2>5. ASSUME NEW x \in Calls, call[x].route = "sync", device'[call[x].device].waits = call[x].n
          PROVE  /\ device[call[x].device].waits = call[x].n
                 /\ device'[call[x].device].token = device[call[x].device].token
                 /\ device'[call[x].device].knows = device[call[x].device].knows
      <3>1. call[x].phase # "idle"
        <4>1. Idle.route = "none"
          BY Zenon DEF Idle
        <4> QED
          BY <2>5, <4>1, Current DEF CallOK
      <3>2. call[x].device \in Devices
        BY <2>5, <3>1, Current DEF CallOK, TokenRoutes
      <3>3. call[x].n # 0
        BY <3>1 DEF ArrivesOK
      <3> QED
        BY <2>2, <2>5, <3>2, <3>3
    <2>6. ASSUME NEW x \in Calls
          PROVE  /\ call[x].phase # "idle" => call[x].n # 0
                 /\ call[x].route = "sync" => call[x].token =< issued'
                 /\ call[x].route \in {"GET state", "sync"} => \A b \in Books : call[x].shown[b] =< clock'
                 /\ call[x].route = "sync" /\ device'[call[x].device].waits = call[x].n =>
                      /\ call[x].todo = <<"states">> => call[x].token = device'[call[x].device].token
                      /\ \A b \in Known :
                           Alone(state'[b]) /\ state'[b][1].at =< call[x].token =>
                             \/ device'[call[x].device].knows[b] >= state'[b][1].at
                             \/ call[x].shown[b] >= state'[b][1].at
      BY <2>1, <2>5, Zenon DEF ArrivesOK
    <2> QED
      BY <2>1, <2>3, <2>4, <2>6, Zenon DEF ArrivesOK
  <1> QED
    BY <1>1, <1>2, WorkArrives, RequestArrives DEF Next

LEMMA InitArrives ==
  ASSUME Init
  PROVE  ArrivesOK
  <1>1. call = [c \in Calls |-> Idle] /\ clock = 1 /\ issued = 0 /\ device = [d \in Devices |-> NewDevice]
    BY DEF Init
  <1>2. \A c \in Calls : call[c].phase = "idle" /\ call[c].route = "none"
    BY <1>1, Zenon DEF Idle
  <1>3. NewDevice.token = 0 /\ NewDevice.knows = [b \in Books |-> 0]
    BY Zenon DEF NewDevice
  <1>4. \A d \in Devices : device[d].token = 0 /\ \A b \in Books : device[d].knows[b] = 0
    BY <1>1, <1>3
  <1> DEFINE row == [status |-> "ReadyToRead", times |-> 0, at |-> 1, side |-> [s \in Sides |-> 0],
                     starts |-> 0, owner |-> 0, since |-> 0, late |-> FALSE]
  <1>5. PICK used \in SUBSET Known : state = [b \in Books |-> IF b \in used THEN <<row>> ELSE <<>>]
    BY DEF Init
  <1>6. row.at = 1
    BY Zenon
  <1> HIDE DEF row
  <1>7. ASSUME NEW b \in Known, Len(state[b]) = 1 PROVE state[b][1].at = 1
    <2>1. state[b] = <<row>> \/ state[b] = <<>>
      BY <1>5, ReadingAssumption
    <2>2. state[b] = <<row>>
      BY <1>7, <2>1
    <2> QED
      BY <1>6, <2>2
  <1>8. ProgressArrives
    BY <1>4, <1>7 DEF ProgressArrives
  <1>9. \A d \in Devices : device[d].token =< issued /\ \A b \in Books : device[d].knows[b] =< clock
    BY <1>1, <1>4
  <1>10. "none" \notin {"GET state", "sync"}
    OBVIOUS
  <1> QED
    BY <1>2, <1>8, <1>9, <1>10, Zenon DEF ArrivesOK

(* A synchronisation token is cut to whole seconds and answers get lost, and yet, for   *)
(* any number of devices and requests, a reading state that a device's token covers is  *)
(* one the device has, or has been overtaken there by a later one.                    *)
THEOREM ProgressIsNotSkipped == Spec => []ProgressArrives
  <1>1. Init => ArrivesOK
    BY InitArrives
  <1>2. GatewayInvariant /\ GatewayInvariant' /\ ArrivesOK /\ [Next]_vars => ArrivesOK'
    BY ArrivesStep DEF GatewayInvariant
  <1>3. ArrivesOK => ProgressArrives
    BY DEF ArrivesOK
  <1> QED
    BY <1>1, <1>2, <1>3, GatewayInvariantHolds, PTL DEF Spec
=============================================================================
