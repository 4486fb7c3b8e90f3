----------------------------- MODULE KoboGateway -----------------------------
(***************************************************************************)
(* The Kobo endpoints around the library: the access tokens of a member, and *)
(* what withKoboAuth and the routes do with a device's request, which looks  *)
(* the token up, serves the request from the library, from Kobo's store or   *)
(* from both, logs the exchange and only then answers.                       *)
(*                                                                         *)
(* The store, the devices and the network are outside: the store answers or   *)
(* refuses, an answer may be lost, a device may give a request up and make    *)
(* another while the server still works at the first.                        *)
(* A definition named Mutant... is a plausible slip in the definition that    *)
(* follows it; no specification uses it.                                     *)
(***************************************************************************)
EXTENDS KoboReading

CONSTANTS
  Files,        \* the formats stored of each book of the library
  Covered,      \* the books whose cover is stored
  IdLists,      \* lists of books a request names
  Puts,         \* bodies a device may PUT
  MaxCalls,     \* bound: requests in a behaviour
  MaxFaults     \* bound: statements that fail, answers given up and hosts that die

ASSUME GatewayAssumption ==
  /\ Files \in [Books -> SUBSET {"epub", "kepub", "pdf"}]
  /\ Covered \subseteq Known
  /\ IdLists \subseteq Seq(Books) \ {<<>>}
  /\ "none" \notin Devices
  /\ Puts \subseteq [readable : BOOLEAN, status : Statuses \cup {NoStatus}, sides : SUBSET Sides]
  /\ MaxCalls \in Nat /\ MaxFaults \in Nat

VARIABLES
  token,     \* the kobo_auth_tokens rows, in the order they were inserted
  device,    \* what each device waits for, carries and knows
  faults

vars == <<readingVars, token, device, faults>>

(* began and made number the request that inserted the token and the latest   *)
(* request begun by then; revoked is 0 or the latest request begun when the    *)
(* row got its revoked_at.                                                  *)
NewToken(n) == [began |-> n, made |-> begun, revoked |-> 0]
Active(t) == token[t].revoked = 0

NewDevice == [waits |-> 0, token |-> 0, raw |-> 0, knows |-> [b \in Books |-> 0]]

(* A library used before, with a token and maybe a state that no device has. *)
Init ==
  /\ clock = 1 /\ begun = 0 /\ issued = 0 /\ faults = 0
  /\ \E used \in SUBSET Known :
       state = [b \in Books |->
         IF b \in used
         THEN <<[status |-> "ReadyToRead", times |-> 0, at |-> 1, side |-> [s \in Sides |-> 0],
                 starts |-> 0, owner |-> 0, since |-> 0, late |-> FALSE]>>
         ELSE <<>>]
  /\ call = [c \in Calls |-> Idle]
  /\ token = <<[began |-> 0, made |-> 0, revoked |-> 0]>>
  /\ device = [d \in Devices |-> NewDevice]

-----------------------------------------------------------------------------
(* Requests *)
Begin(c, r) ==
  /\ call[c].phase = "idle" /\ begun < MaxCalls
  /\ begun' = begun + 1
  /\ call' = [call EXCEPT ![c] = [r EXCEPT !.n = begun + 1]]
  /\ UNCHANGED <<clock, state, issued, token, faults>>

(* The settings page *)
MutantKeepsOld(c) ==
  /\ Begin(c, [Idle EXCEPT !.phase = "local", !.route = "create token", !.todo = <<"insertToken">>])
  /\ UNCHANGED device

CreateToken(c) ==
  /\ Begin(c, [Idle EXCEPT !.phase = "local", !.route = "create token",
                           !.todo = <<"revokeAll", "insertToken">>])
  /\ UNCHANGED device

RevokeToken(c) ==
  /\ \/ Begin(c, [Idle EXCEPT !.phase = "local", !.route = "revoke token",
                              !.todo = <<"revokeAll">>])
     \/ \E t \in DOMAIN token :
          Begin(c, [Idle EXCEPT !.phase = "local", !.route = "revoke token",
                                !.todo = <<"revokeOne">>, !.auth = t])
  /\ UNCHANGED device

(* A device presents a token it was once given, and waits for one answer. *)
Ask(c, d, route, books, todo, put) ==
  /\ device[d].waits = 0
  /\ \E t \in DOMAIN token :
       Begin(c, [Idle EXCEPT !.phase = "auth", !.route = route, !.device = d, !.auth = t,
                             !.books = books, !.todo = todo, !.put = put,
                             !.token = device[d].token, !.raw = device[d].raw])
  /\ device' = [device EXCEPT ![d].waits = begun']

GetStates(c, d)  == \E ids \in IdLists : Ask(c, d, "GET state", ids, Contact, NoPut)
PutState(c, d)   == \E ids \in IdLists, put \in Puts :
                      Ask(c, d, "PUT state", <<Head(ids)>>, Update(put), put)
Synchronise(c, d) == Ask(c, d, "sync", <<>>, <<"states">>, NoPut)
GetMetadata(c, d) == \E ids \in IdLists : Ask(c, d, "GET metadata", ids, <<"files">>, NoPut)
GetDownload(c, d) == \E ids \in IdLists : Ask(c, d, "local", <<Head(ids)>>, <<"file">>, NoPut)
GetCover(c, d)    == \E ids \in IdLists : Ask(c, d, "local", <<Head(ids)>>, <<"cover">>, NoPut)
Initialise(c, d)  == Ask(c, d, "local", <<>>, <<>>, NoPut)
DeviceAuth(c, d)  == Ask(c, d, "store first", <<>>, <<>>, NoPut)
RefreshAuth(c, d) == Ask(c, d, "store first", <<>>, <<>>, NoPut)
AnyOther(c, d)    == Ask(c, d, "store first", <<>>, <<>>, NoPut)

LocalOrStore == {"GET state", "PUT state", "GET metadata"}
StoreFirst   == {"store first"}

-----------------------------------------------------------------------------
(* The answer is made: of a request there remains what its device will learn. *)
Heard(c, source) == source = "local" /\ call[c].route \in {"GET state", "sync"}

Finish(c, source, raw) ==
  call' = [call EXCEPT ![c] =
    IF @.device = "none" THEN Idle
    ELSE LET done == [Idle EXCEPT !.phase = "log", !.n = call[c].n, !.device = call[c].device,
                                  !.auth = call[c].auth, !.source = source] IN
         IF Heard(c, source)
         THEN [done EXCEPT !.route = call[c].route, !.shown = call[c].shown,
                           !.token = call[c].token, !.raw = raw]
         ELSE done]

(* withKoboAuth *)
MutantAnyToken(t) == TRUE
Admitted(t) == Active(t)

(* A PUT takes its time as soon as it is admitted; it tells of what the device *)
(* has got to, so that the device knows a state of that time.                *)
Authenticate(c) ==
  LET d == call[c].device
      puts == call[c].route = "PUT state" /\ call[c].todo # <<>> IN
  /\ call[c].phase = "auth"
  /\ \/ /\ Admitted(call[c].auth)
        /\ clock' = IF puts THEN clock + 1 ELSE clock
        /\ call' = [call EXCEPT ![c].at = clock',
             ![c].phase = IF call[c].route \in StoreFirst THEN "store" ELSE "local"]
        /\ device' = IF puts /\ device[d].waits = call[c].n
                     THEN [device EXCEPT ![d].knows[Book(c)] = clock'] ELSE device
     \/ /\ ~Admitted(call[c].auth)
        /\ Finish(c, "unauthorized", 0)
        /\ UNCHANGED <<clock, device>>
  /\ UNCHANGED <<begun, state, issued, token, faults>>

(* The local part is done.  A synchronisation whose books fill the page is      *)
(* answered at once; the last page goes to the store for its share.           *)
Served(c) ==
  /\ Serving(c) /\ call[c].todo = <<>>
  /\ \/ Finish(c, "local", call[c].raw)
     \/ call[c].route = "sync" /\ call' = [call EXCEPT ![c].phase = "store"]
  /\ UNCHANGED <<clock, begun, state, issued, token, device, faults>>

(* What the library cannot serve is asked of the store, or is an error; only    *)
(* the first PUT or GET that fails, whatever the reason, goes to the store.    *)
Refused(c) ==
  /\ call[c].phase = "refused"
  /\ \/ call[c].route \in LocalOrStore /\ call' = [call EXCEPT ![c].phase = "store"]
     \/ call[c].route \notin LocalOrStore /\ Finish(c, "error", 0)
  /\ UNCHANGED <<clock, begun, state, issued, token, device, faults>>

MutantForgetsRaw(c) == 0
RawAfterFailure(c) == call[c].raw

(* proxyKoboHandlerOutput: the store's answer is passed on, and a              *)
(* synchronisation keeps the store's new token with its own.  Without one, the  *)
(* routes that go to the store first answer with a stand-in.                  *)
Proxy(c) ==
  /\ call[c].phase = "store"
  /\ \/ Finish(c, IF call[c].route = "sync" THEN "local" ELSE "store", call[c].n)
     \/ Finish(c, IF call[c].route \in LocalOrStore THEN "error" ELSE "local",
               RawAfterFailure(c))
  /\ UNCHANGED <<clock, begun, state, issued, token, device, faults>>

(* The log's INSERT succeeds or not; the answer waits for neither outcome. *)
LogCall(c) ==
  /\ call[c].phase = "log"
  /\ call' = [call EXCEPT ![c].phase = "answer"]
  /\ UNCHANGED <<clock, begun, state, issued, token, device, faults>>

Greater(a, b) == IF a > b THEN a ELSE b

(* The device takes the answer it waits for; nobody takes one that was given up. *)
Answer(c) ==
  LET d == call[c].device
      heard == Heard(c, call[c].source) IN
  /\ call[c].phase = "answer"
  /\ call' = [call EXCEPT ![c] = Idle]
  /\ \/ /\ device[d].waits = call[c].n
        /\ device' = [device EXCEPT ![d] =
             [waits |-> 0,
              token |-> IF heard /\ call[c].route = "sync" THEN call[c].token ELSE @.token,
              raw   |-> IF heard /\ call[c].route = "sync" THEN call[c].raw ELSE @.raw,
              knows |-> IF heard THEN [b \in Books |-> Greater(@.knows[b], call[c].shown[b])]
                        ELSE @.knows]]
     \/ device[d].waits # call[c].n /\ UNCHANGED device
  /\ UNCHANGED <<clock, begun, state, issued, token, faults>>

-----------------------------------------------------------------------------
(* The statements of the other routes *)
TokensOff(T) ==
  token' = [t \in DOMAIN token |->
              IF t \in T /\ Active(t) THEN [token[t] EXCEPT !.revoked = begun] ELSE token[t]]

TokenStatement(c) ==
  /\ \/ Due(c, "revokeAll") /\ TokensOff(DOMAIN token)
     \/ Due(c, "revokeOne") /\ TokensOff({call[c].auth})
     \/ Due(c, "insertToken") /\ token' = Append(token, NewToken(call[c].n))
  /\ call' = [call EXCEPT ![c] = IF Rest(c) = <<>> THEN Idle ELSE [@ EXCEPT !.todo = Rest(c)]]
  /\ UNCHANGED <<clock, begun, state, issued, device, faults>>

(* Which file a book is offered as, and which file a download of a format is. *)
Advertised(F) == IF "kepub" \in F THEN "kepub" ELSE IF "epub" \in F THEN "epub" ELSE "none"
FileFor(F, asked) ==
  IF asked \in F THEN asked
  ELSE IF asked = "kepub" THEN IF "epub" \in F THEN "epub" ELSE "none"
  ELSE Advertised(F)

Metadata(c) ==
  /\ Due(c, "files")
  /\ \/ /\ Book(c) \in Known /\ Advertised(Files[Book(c)]) # "none"
        /\ call' = [call EXCEPT ![c].books = Tail(@),
                                ![c].todo = IF Len(call[c].books) > 1 THEN @ ELSE <<>>]
     \/ /\ ~(Book(c) \in Known /\ Advertised(Files[Book(c)]) # "none")
        /\ Refuse(c)
  /\ UNCHANGED <<clock, begun, state, issued, token, device, faults>>

(* A book without the file is refused, and so is a file the storage has not. *)
Download(c) ==
  /\ Due(c, "file")
  /\ \/ /\ Book(c) \in Known
        /\ \E asked \in {"kepub", "epub"} : FileFor(Files[Book(c)], asked) # "none"
        /\ Follow(c, <<>>)
     \/ Refuse(c)
  /\ UNCHANGED <<clock, begun, state, issued, token, device, faults>>

(* A cover the library has not is a redirection to the store's. *)
Cover(c) ==
  /\ Due(c, "cover")
  /\ \/ Book(c) \in Covered /\ Follow(c, <<>>)
     \/ Finish(c, "store", 0)
  /\ UNCHANGED <<clock, begun, state, issued, token, device, faults>>

(* A statement fails: the handler answers for it as for any refusal, and a look  *)
(* for the token that fails finds none.  Or the host dies and the device waits   *)
(* in vain.                                                                 *)
Fault(c) ==
  /\ faults < MaxFaults
  /\ faults' = faults + 1
  /\ \/ /\ call[c].phase = "auth"
        /\ Finish(c, "unauthorized", 0)
     \/ /\ Serving(c) /\ call[c].todo # <<>> /\ Head(call[c].todo) # "cover"
        /\ call' = [call EXCEPT ![c] = IF call[c].device = "none" THEN Idle
                                       ELSE [@ EXCEPT !.phase = "refused", !.todo = <<>>]]
  /\ UNCHANGED <<clock, begun, state, issued, token, device>>

Die(c) ==
  /\ faults < MaxFaults /\ call[c].phase # "idle"
  /\ faults' = faults + 1
  /\ call' = [call EXCEPT ![c] = Idle]
  /\ UNCHANGED <<clock, begun, state, issued, token, device>>

(* The answer is lost, or takes too long: the device is free to ask again. *)
GiveUp(d) ==
  /\ faults < MaxFaults /\ device[d].waits # 0
  /\ device' = [device EXCEPT ![d].waits = 0]
  /\ faults' = faults + 1
  /\ UNCHANGED <<readingVars, token>>

Request(c) ==
  \/ CreateToken(c) \/ RevokeToken(c)
  \/ \E d \in Devices :
       \/ GetStates(c, d) \/ PutState(c, d) \/ Synchronise(c, d) \/ GetMetadata(c, d)
       \/ GetDownload(c, d) \/ GetCover(c, d) \/ Initialise(c, d)
       \/ DeviceAuth(c, d) \/ RefreshAuth(c, d) \/ AnyOther(c, d)

Work(c) ==
  \/ Authenticate(c) \/ Served(c) \/ Refused(c) \/ Proxy(c) \/ LogCall(c) \/ Answer(c)
  \/ TokenStatement(c) \/ Metadata(c) \/ Download(c) \/ Cover(c)
  \/ Statement(c) /\ UNCHANGED <<token, device, faults>>

Next ==
  \/ \E c \in Calls : Request(c) \/ Work(c) \/ Fault(c) \/ Die(c)
  \/ \E d \in Devices : GiveUp(d)

Spec == Init /\ [][Next]_vars

-----------------------------------------------------------------------------
(* Type invariant. *)
Row == [status : Statuses, times : Nat, at : Nat, side : [Sides -> Int], starts : Nat,
        owner : Nat, since : Nat, late : BOOLEAN]

Statements ==
  {"revokeAll", "revokeOne", "insertToken", "find", "insert", "seekBookmark", "insertBookmark",
   "seekStatistics", "insertStatistics", "read", "status", "bookmark", "statistics", "states",
   "files", "file", "cover"}

Routes == {"none", "create token", "revoke token", "sync", "local"} \cup LocalOrStore \cup StoreFirst
Put    == [readable : BOOLEAN, status : Statuses \cup {NoStatus}, sides : SUBSET Sides]

Sources == {"none", "local", "store", "error", "unauthorized"}

Call ==
  [phase  : {"idle", "auth", "local", "refused", "store", "log", "answer"}, n : Nat,
   route  : Routes,
   device : Devices \cup {"none"}, auth : Nat, books : Seq(Books), todo : Seq(Statements),
   put    : Put,
   at : Nat, stamp : Nat, row : Nat, status : Statuses \cup {NoStatus}, times : Nat,
   shown  : [Books -> Nat], token : Nat, raw : Nat,
   source : Sources]

Token  == [began : Nat, made : Nat, revoked : Nat]
Device == [waits : Nat, token : Nat, raw : Nat, knows : [Books -> Nat]]

TypeOK ==
  /\ clock \in Nat /\ issued \in Nat /\ begun \in 0..MaxCalls /\ faults \in 0..MaxFaults
  /\ state \in [Books -> Seq(Row)]
  /\ call \in [Calls -> Call]
  /\ token \in Seq(Token)
  /\ device \in [Devices -> Device]

(* The page promises that a new token ends the old ones.  Two tokens are        *)
(* active at a time only when the later one was asked for before the earlier    *)
(* one was there: createKoboAuthToken revokes and inserts in two statements.    *)
OnlyOverlappingTokensSurvive ==
  \A i, j \in DOMAIN token :
    i < j /\ Active(i) /\ Active(j) => token[j].began =< token[i].made

(* A request that began after its token was revoked is served nothing, neither  *)
(* by the library nor by the store, whatever happened between its arrival and   *)
(* its turn.                                                                *)
RevokedTokensServeNothing ==
  \A c \in Calls :
    /\ call[c].device # "none" /\ call[c].source # "unauthorized"
    /\ call[c].phase \notin {"idle", "auth"}
    => Active(call[c].auth) \/ call[c].n =< token[call[c].auth].revoked

(* A book gets a second reading state only from a request that was already under *)
(* way when the first was inserted: no later PUT or GET adds one.               *)
SecondStateNeedsOverlap ==
  \A b \in Books : \A i, j \in DOMAIN state[b] :
    i < j => state[b][j].owner =< state[b][i].since

(* timesStartedReading is read, incremented and written back by statements with  *)
(* others between them; it may lose a start, but never counts one that was not.  *)
StartsAreReal ==
  \A b \in Books : \A i \in DOMAIN state[b] : state[b][i].times =< state[b][i].starts

(* A state that a device's token says it has, it has, or a later one of its own: *)
(* cutting the token's time to seconds, lost answers and abandoned requests skip  *)
(* none.  Excepted are a state written with a time that a token covered already  *)
(* (the PUT took its time, then waited for its statements), and a book with two   *)
(* states, of which GET shows the first and a synchronisation the last.         *)
ProgressArrives ==
  \A d \in Devices, b \in Known :
    /\ Len(state[b]) = 1 /\ ~state[b][1].late
    /\ state[b][1].at =< device[d].token
    => device[d].knows[b] >= state[b][1].at

(* The store's own token goes through the library's: whatever fails or is lost,  *)
(* a device never goes back to an older one, which would have the store list its *)
(* catalogue again.                                                         *)
StoreTokenNeverBack ==
  [][\A d \in Devices : device'[d].raw >= device[d].raw]_vars
=============================================================================
