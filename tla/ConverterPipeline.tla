-------------------------- MODULE ConverterPipeline --------------------------
(***************************************************************************)
(* What a queue job does with the converter container.  A conversion streams  *)
(* R2 -> /convert -> /process -> R2, a metadata sync R2 -> /process -> R2,     *)
(* and nothing of the book is buffered in the Worker: a multipart pump feeds   *)
(* each request, a bridge restores the length of each response, and each of   *)
(* them waits for the next.  Whoever stops early has to let go of the rest.    *)
(*                                                                         *)
(* The streams are the platform's: a write waits for its reader; abort and     *)
(* cancel end the reads and writes that wait.  Both requests go to one of the  *)
(* converter's instances, the worst case of getRandom.                        *)
(* A definition named Mutant... is a plausible slip in the definition that     *)
(* follows it; no specification uses it.                                      *)
(***************************************************************************)
EXTENDS Sequences, ConverterServer

CONSTANTS
  Conversions, Syncs,  \* the jobs of a behaviour
  MaxTroubles          \* bound: faults, timeouts, crashes

Jobs == Conversions \cup Syncs

(* A job's calls, each with its path. *)
Convert(j) == <<j, "convert">>
Process(j) == <<j, "process">>
PipelineRequests == {Convert(j) : j \in Conversions} \cup {Process(j) : j \in Jobs}

ASSUME PipelineAssumption ==
  /\ Conversions \cap Syncs = {}
  /\ Requests = PipelineRequests
  /\ MaxTroubles \in Nat

VARIABLES
  run,        \* the fibre of each job, and the path of the call it makes
  book,       \* each job's book as R2 streams it
  pump,       \* buildMultipartStream, one per request
  bridge,     \* restoreFixedLength, one per response
  mid,        \* the readable side of each bridge
  stored,     \* the jobs whose result R2 has
  troubles    \* those there have been

workerVars == <<run, book, pump, bridge, mid, stored>>
vars == <<kind, serverVars, wireVars, workerVars, troubles>>

NoBridge == [at |-> "none", cancel |-> "none"]
NoStream == [chunk |-> FALSE, end |-> "open"]

(* A job that is not queued in a behaviour is one that is over. *)
Init ==
  /\ ServerInit
  /\ kind \in {k \in [Requests -> Kinds] : \A r \in Requests :
       k[r] \in IF r[2] = "convert" THEN {"convert", "echo", "unsupported"}
                ELSE {"process", "untouched"}}
  /\ \E queued \in SUBSET Jobs :
       run = [j \in Jobs |-> [at |-> IF j \in queued THEN "connecting" ELSE "dead",
                              path |-> IF j \in Conversions THEN "convert" ELSE "process"]]
  /\ book   = [j \in Jobs |-> [left |-> Chunks, end |-> "open"]]
  /\ pump   = [r \in Requests |-> "none"]
  /\ bridge = [r \in Requests |-> NoBridge]
  /\ mid    = [r \in Requests |-> NoStream]
  /\ stored = {}
  /\ troubles \in 0..MaxTroubles

Call(j) == <<j, run[j].path>>
RunAt(j, p) == run[j].at = p
RunGoto(j, p) == run' = [run EXCEPT ![j].at = p]
Over(j) == run[j].at \in {"done", "failed", "dead"}

-----------------------------------------------------------------------------
(* requestContainer.  getReadyStub has asked /health, up to six times; the pump     *)
(* starts with the fetch.                                                    *)
Connected(j) ==
  /\ RunAt(j, "connecting")
  /\ RunGoto(j, "asking")
  /\ open' = [open EXCEPT ![Call(j)] = TRUE]
  /\ pump' = [pump EXCEPT ![Call(j)] = "reading"]
  /\ UNCHANGED <<kind, serverVars, up, down, book, bridge, mid, stored>>

(* Effect.ensuring(converted.cancel()) runs however the /process call ends. *)
Letting(j) == IF run[j].path = "process" /\ j \in Conversions THEN "lettingGo" ELSE "failed"

NeverReady(j) ==
  /\ RunAt(j, "connecting")
  /\ RunGoto(j, Letting(j))
  /\ UNCHANGED <<kind, serverVars, wireVars, book, pump, bridge, mid, stored>>

(* parseStreamResult builds the bridge.  A conversion calls /process with what     *)
(* /convert returned, and lets go of that once it has the second result.         *)
Answered(j) ==
  LET r == Call(j) IN
  /\ RunAt(j, "asking") /\ down[r].status = "ok"
  /\ bridge' = [bridge EXCEPT ![r].at = "reading"]
  /\ run' = [run EXCEPT ![j] =
       IF r[2] = "convert" THEN [at |-> "connecting", path |-> "process"]
       ELSE [@ EXCEPT !.at = IF j \in Conversions THEN "kept" ELSE "storing"]]
  /\ UNCHANGED <<kind, serverVars, wireVars, book, pump, mid, stored>>

Refused(j) ==
  LET r == Call(j) IN
  /\ RunAt(j, "asking")
  /\ down[r].status = "bad" \/ (down[r].status = "none" /\ ~open[r])
  /\ RunGoto(j, Letting(j))
  /\ UNCHANGED <<kind, serverVars, wireVars, book, pump, bridge, mid, stored>>

MutantLeavesBody(j) == open
(* controller.abort() on a timeout, response.body.cancel() on an invalid length. *)
HungUp(j) == [open EXCEPT ![Call(j)] = FALSE]

TimedOut(j) ==
  /\ RunAt(j, "asking") /\ down[Call(j)].status = "none"
  /\ open' = HungUp(j)
  /\ RunGoto(j, Letting(j))
  /\ UNCHANGED <<kind, serverVars, up, down, book, pump, bridge, mid, stored>>

InvalidLength(j) ==
  /\ RunAt(j, "asking") /\ down[Call(j)].status = "ok"
  /\ open' = HungUp(j)
  /\ RunGoto(j, Letting(j))
  /\ UNCHANGED <<kind, serverVars, up, down, book, pump, bridge, mid, stored>>

-----------------------------------------------------------------------------
(* The pump: a chunk is read, then written; the closing boundary is written and     *)
(* the body closed only at the end of the source.  Its source is the job's book,   *)
(* or the bridge of /convert.                                                 *)
FromBook(r) == r[2] = "convert" \/ r[1] \in Syncs

PumpReads(r) ==
  /\ pump[r] = "reading"
  /\ IF FromBook(r)
     THEN /\ book[r[1]].end = "open" /\ book[r[1]].left > 0
          /\ book' = [book EXCEPT ![r[1]].left = @ - 1]
          /\ UNCHANGED mid
     ELSE /\ mid[Convert(r[1])].chunk
          /\ mid' = [mid EXCEPT ![Convert(r[1])].chunk = FALSE]
          /\ UNCHANGED book
  /\ pump' = [pump EXCEPT ![r] = "writing"]
  /\ UNCHANGED <<kind, serverVars, wireVars, run, bridge, stored>>

PumpWrites(r) ==
  /\ pump[r] = "writing" /\ open[r] /\ ~up[r].chunk
  /\ up' = [up EXCEPT ![r].chunk = TRUE]
  /\ pump' = [pump EXCEPT ![r] = "reading"]
  /\ UNCHANGED <<kind, serverVars, down, open, run, book, bridge, mid, stored>>

SourceEnd(r) ==
  IF FromBook(r)
  THEN IF book[r[1]].end = "error" THEN "error"
       ELSE IF book[r[1]].left = 0 THEN "whole" ELSE "open"
  ELSE IF mid[Convert(r[1])].chunk THEN "open" ELSE mid[Convert(r[1])].end

MutantEndsAnyway(r) == "end"
(* writer.close() after the last part, writer.abort(err) in the catch. *)
BodyEnd(r) == IF SourceEnd(r) = "whole" THEN "end" ELSE "error"

PumpEnds(r) ==
  /\ pump[r] = "reading" /\ SourceEnd(r) # "open"
  /\ up' = [up EXCEPT ![r].end = BodyEnd(r)]
  /\ pump' = [pump EXCEPT ![r] = "ended"]
  /\ UNCHANGED <<kind, serverVars, down, open, run, book, bridge, mid, stored>>

(* The connection is gone: the write, or the look at the signal after it, throws. *)
PumpStops(r) ==
  /\ pump[r] = "writing" /\ ~open[r]
  /\ up' = [up EXCEPT ![r].end = "error"]
  /\ pump' = [pump EXCEPT ![r] = "ended"]
  /\ UNCHANGED <<kind, serverVars, down, open, run, book, bridge, mid, stored>>

-----------------------------------------------------------------------------
(* The bridge: read, write, close when the source is done; FixedLengthStream lets    *)
(* a body of another length not be closed.  Once cancelled its reads and writes     *)
(* reject.                                                                   *)
BridgeRuns(r, p) == bridge[r].at = p /\ bridge[r].cancel # "settled"

BridgeReads(r) ==
  /\ BridgeRuns(r, "reading") /\ down[r].chunk
  /\ down' = [down EXCEPT ![r].chunk = FALSE]
  /\ bridge' = [bridge EXCEPT ![r].at = "writing"]
  /\ UNCHANGED <<kind, serverVars, up, open, run, book, pump, mid, stored>>

BridgeWrites(r) ==
  /\ BridgeRuns(r, "writing") /\ ~mid[r].chunk
  /\ mid' = [mid EXCEPT ![r].chunk = TRUE]
  /\ bridge' = [bridge EXCEPT ![r].at = "reading"]
  /\ UNCHANGED <<kind, serverVars, wireVars, run, book, pump, stored>>

AllRead(r) == ~down[r].chunk /\ down[r].end = "whole"

BridgeCloses(r) ==
  /\ BridgeRuns(r, "reading") /\ AllRead(r)
  /\ mid' = [mid EXCEPT ![r].end = "whole"]
  /\ bridge' = [bridge EXCEPT ![r].at = "closing"]
  /\ UNCHANGED <<kind, serverVars, wireVars, run, book, pump, stored>>

(* The catch: cancel(cause), for both ends. *)
OnCatch(r) == "settling"

BridgeFails(r) ==
  /\ BridgeRuns(r, "reading") /\ bridge[r].cancel = "none" /\ ~down[r].chunk
  /\ down[r].end = "cut" \/ (down[r].end = "open" /\ ~open[r])
  /\ bridge' = [bridge EXCEPT ![r].cancel = OnCatch(r)]
  /\ UNCHANGED <<kind, serverVars, wireVars, run, book, pump, mid, stored>>

(* reader.cancel() and writer.abort(), each in a microtask of its own.  Nothing is   *)
(* left to abort of a stream that was closed and read.                          *)
CancelSettles(r) ==
  /\ bridge[r].cancel = "settling"
  /\ bridge' = [bridge EXCEPT ![r].cancel = "settled"]
  /\ open' = [open EXCEPT ![r] = FALSE]
  /\ mid' = IF mid[r].end = "whole" /\ ~mid[r].chunk THEN mid
            ELSE [mid EXCEPT ![r] = [chunk |-> FALSE, end |-> "error"]]
  /\ UNCHANGED <<kind, serverVars, up, down, run, book, pump, stored>>

(* The close resolves when all was read.  The finally awaits a cancellation.      *)
BridgeDone(r) ==
  /\ bridge[r].at \in {"reading", "writing", "closing"}
  /\ \/ bridge[r].cancel = "settled"
     \/ bridge[r] = [at |-> "closing", cancel |-> "none"] /\ ~mid[r].chunk
  /\ bridge' = [bridge EXCEPT ![r].at = "done"]
  /\ UNCHANGED <<kind, serverVars, wireVars, run, book, pump, mid, stored>>

-----------------------------------------------------------------------------
(* uploadBookFile: R2 takes the stream to its end, or nothing. *)
PutReads(j) ==
  /\ RunAt(j, "storing") /\ mid[Process(j)].chunk
  /\ mid' = [mid EXCEPT ![Process(j)].chunk = FALSE]
  /\ UNCHANGED <<kind, serverVars, wireVars, run, book, pump, bridge, stored>>

PutEnds(j) ==
  /\ RunAt(j, "storing")
  /\ mid[Process(j)].end # "open" /\ ~mid[Process(j)].chunk
  /\ stored' = IF mid[Process(j)].end = "whole" THEN stored \cup {j} ELSE stored
  /\ RunGoto(j, IF mid[Process(j)].end = "whole" THEN "stored" ELSE "unstored")
  /\ UNCHANGED <<kind, serverVars, wireVars, book, pump, bridge, mid>>

PutFails(j) ==
  /\ RunAt(j, "storing")
  /\ RunGoto(j, "unstored")
  /\ UNCHANGED <<kind, serverVars, wireVars, book, pump, bridge, mid, stored>>

(* The cancel() of an ensuring is awaited; of a bridge that is done it does        *)
(* nothing.                                                                  *)
Releasing == {"kept", "lettingGo", "stored", "unstored"}
Released(j) == IF run[j].at \in {"kept", "lettingGo"} THEN Convert(j) ELSE Process(j)

AskCancel(j) ==
  LET r == Released(j) IN
  /\ run[j].at \in Releasing
  /\ bridge[r].at # "done" /\ bridge[r].cancel = "none"
  /\ bridge' = [bridge EXCEPT ![r].cancel = "settling"]
  /\ UNCHANGED <<kind, serverVars, wireVars, run, book, pump, mid, stored>>

LetGo(j) ==
  LET r == Released(j) IN
  /\ run[j].at \in Releasing
  /\ bridge[r].at = "done" \/ bridge[r].cancel = "settled"
  /\ RunGoto(j, CASE RunAt(j, "kept") -> "storing"
                  [] RunAt(j, "stored") -> "done"
                  [] OTHER -> "failed")
  /\ UNCHANGED <<kind, serverVars, wireVars, book, pump, bridge, mid, stored>>

-----------------------------------------------------------------------------
(* What the network, R2 and the platform may do. *)
BookBreaks(j) ==
  /\ book[j].end = "open" /\ book[j].left > 0
  /\ book' = [book EXCEPT ![j].end = "error"]
  /\ UNCHANGED <<kind, serverVars, wireVars, run, pump, bridge, mid, stored>>

ConnectionLost(r) ==
  /\ open[r]
  /\ open' = [open EXCEPT ![r] = FALSE]
  /\ UNCHANGED <<kind, serverVars, up, down, workerVars>>

(* The Worker's invocation dies, and everything it ran. *)
Crash(j) ==
  LET mine == {r \in Requests : r[1] = j} IN
  /\ ~Over(j)
  /\ RunGoto(j, "dead")
  /\ open'   = [r \in Requests |-> r \notin mine /\ open[r]]
  /\ pump'   = [r \in Requests |-> IF r \in mine THEN "ended" ELSE pump[r]]
  /\ bridge' = [r \in Requests |-> IF r \in mine THEN [at |-> "done", cancel |-> "none"]
                                   ELSE bridge[r]]
  /\ UNCHANGED <<kind, serverVars, up, down, book, mid, stored>>

Trouble ==
  /\ troubles < MaxTroubles
  /\ troubles' = troubles + 1
  /\ \/ \E j \in Jobs : \/ NeverReady(j) \/ TimedOut(j) \/ InvalidLength(j) \/ PutFails(j)
                        \/ BookBreaks(j) \/ Crash(j)
     \/ \E r \in Requests :
          \/ ConnectionLost(r)
          \/ (Expire(r) \/ WorkFails(r)) /\ UNCHANGED <<kind, workerVars>>

Killed(r) == CtxDone(r) /\ WorkFails(r)

Progress ==
  /\ UNCHANGED troubles
  /\ \/ \E j \in Jobs : \/ Connected(j) \/ Answered(j) \/ Refused(j)
                        \/ PutReads(j) \/ PutEnds(j) \/ AskCancel(j) \/ LetGo(j)
     \/ \E r \in Requests :
          \/ (Handle(r) \/ Killed(r)) /\ UNCHANGED <<kind, workerVars>>
          \/ PumpReads(r) \/ PumpWrites(r) \/ PumpEnds(r) \/ PumpStops(r)
          \/ BridgeReads(r) \/ BridgeWrites(r) \/ BridgeCloses(r) \/ BridgeFails(r)
          \/ CancelSettles(r) \/ BridgeDone(r)

(* Nothing runs any more, in the Worker or in the container. *)
Settled ==
  /\ jobSem = 0
  /\ \A j \in Jobs : Over(j)
  /\ \A r \in Requests :
       /\ srv[r].at \in {"none", "gone"} /\ srv[r].files = {}
       /\ pump[r] \in {"none", "ended"}
       /\ bridge[r].at \in {"none", "done"}

Next == Progress \/ Trouble

(* Everything that runs goes on; only troubles need not come.  No step is undone,   *)
(* so that fairness of Progress is fairness of each of its steps.              *)
Steps == [][Next]_vars /\ WF_vars(Progress)

Spec == Init /\ Steps

-----------------------------------------------------------------------------
(* Type invariant. *)
TypeOK ==
  /\ jobSem \in 0..MaxConcurrentJobs
  /\ kind \in [Requests -> Kinds]
  /\ \A r \in Requests :
       /\ srv[r].at \in {"none", "parsing", "waiting", "working", "streaming", "releasing",
                         "failing", "error", "finishing", "gone"}
       /\ srv[r].files \cup srv[r].clean \subseteq {"input", "renamed", "output"}
       /\ srv[r].sent \in 0..Chunks
       /\ up[r].end \in {"open", "end", "error"}
       /\ down[r].status \in {"none", "ok", "bad"} /\ down[r].end \in {"open", "whole", "cut"}
       /\ open[r] \in BOOLEAN
       /\ pump[r] \in {"none", "reading", "writing", "ended"}
       /\ bridge[r].at \in {"none", "reading", "writing", "closing", "done"}
       /\ bridge[r].cancel \in {"none", "settling", "settled"}
       /\ mid[r].end \in {"open", "whole", "error"}
  /\ \A j \in Jobs : run[j].at \in {"connecting", "asking", "storing", "done", "failed", "dead"}
                                  \cup Releasing
  /\ stored \subseteq Jobs /\ troubles \in 0..MaxTroubles

(* The slots taken are those of the requests at work: no path through a handler,     *)
(* no error and no end of a context leaves one behind or gives one back twice, and  *)
(* there are never more than MaxConcurrentJobs (acquireJobSlot, releaseJobSlot).  *)
(* That the code between the two may panic, which no defer answers, is left out.   *)
AtWork(r) ==
  \/ srv[r].at \in {"working", "releasing", "failing"}
  \/ srv[r].at = "streaming" /\ kind[r] = "convert"
SlotsFollowWork == jobSem = Cardinality({r \in Requests : AtWork(r)})

(* A result in R2 is a whole result made of a whole book: a stream that broke         *)
(* anywhere on the way from R2 and back is never taken for one that ended.        *)
StoredWhole ==
  \A j \in stored : \A r \in {q \in Requests : q[1] = j} :
    down[r].end = "whole" /\ up[r].end = "end" /\ (FromBook(r) => book[j].left = 0)

(* Whatever fails, is refused, lost or given up: every handler returns, every slot   *)
(* is free again, no temporary file is left, no pump or bridge waits, and every    *)
(* job is over.                                                             *)
Settles == <>Settled
=============================================================================
