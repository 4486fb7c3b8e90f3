----------------------- MODULE ConverterPipelineProofs -----------------------
(***************************************************************************)
(* Proofs about ConverterPipeline and the ConverterServer it extends, for    *)
(* any number of conversions and syncs, of chunks, of slots and of troubles. *)
(***************************************************************************)
EXTENDS ConverterPipeline, FiniteSetTheorems, TLAPS

Temporaries == {"input", "renamed", "output"}

Stages == {"none", "parsing", "waiting", "working", "streaming", "releasing", "failing", "error",
           "finishing", "gone"}

Handlers == [at : Stages, holds : BOOLEAN, files : SUBSET Temporaries, clean : SUBSET Temporaries,
             sent : 0 .. Chunks, expired : BOOLEAN]

Bodies  == [chunk : BOOLEAN, end : {"open", "end", "error"}]
Replies == [status : {"none", "ok", "bad"}, chunk : BOOLEAN, end : {"open", "whole", "cut"}]

(* Types, of what the container has and of what the Worker has. *)
ServerTypes ==
  /\ jobSem \in Int
  /\ kind \in [Requests -> Kinds]
  /\ srv  \in [Requests -> Handlers]
  /\ up   \in [Requests -> Bodies]
  /\ down \in [Requests -> Replies]
  /\ open \in [Requests -> BOOLEAN]

Fibres  == [at   : {"connecting", "asking", "storing", "done", "failed", "dead"} \cup Releasing,
            path : {"convert", "process"}]
Books   == [left : 0 .. Chunks, end : {"open", "error"}]
Bridges == [at     : {"none", "reading", "writing", "closing", "done"},
            cancel : {"none", "settling", "settled"}]
Streams == [chunk : BOOLEAN, end : {"open", "whole", "error"}]

WorkerTypes ==
  /\ run    \in [Jobs -> Fibres]
  /\ book   \in [Jobs -> Books]
  /\ pump   \in [Requests -> {"none", "reading", "writing", "ended"}]
  /\ bridge \in [Requests -> Bridges]
  /\ mid    \in [Requests -> Streams]
  /\ stored \in SUBSET Jobs
  /\ \A j \in Jobs : run[j].path = "convert" \/ run[j].at \in {"kept", "lettingGo"} =>
       j \in Conversions

(* A handler holds a slot exactly at the stages at which it is at work. *)
HoldersOK == \A r \in Requests : srv[r].holds <=> AtWork(r)

(* A body ends with its pump, and a call's pump is new. *)
PumpsOK ==
  /\ \A r \in Requests : up[r].end # "open" => pump[r] = "ended"
  /\ \A j \in Jobs : RunAt(j, "connecting") =>
       pump[Call(j)] = "none" /\ pump[Process(j)] = "none"
  /\ \A j \in Conversions : run[j].path = "convert" /\ RunAt(j, "asking") =>
       pump[Process(j)] = "none"

(* The stages of a handler before its answer ends, and those after its request
   was read. *)
ReplyOpen(r) ==
  \/ srv[r].at \in {"none", "parsing", "waiting", "working", "streaming"}
  \/ srv[r].at = "releasing" /\ kind[r] = "process"

Read(r) == srv[r].at \in {"waiting", "working", "streaming", "releasing", "failing", "finishing"}

(* The chain from R2 and back: what ends whole was made of what ended whole. *)
WholeOK ==
  /\ \A r \in Requests : ReplyOpen(r) => down[r].end = "open"
  /\ \A r \in Requests : Read(r) \/ down[r].end = "whole" => up[r].end = "end"
  /\ \A r \in Requests : up[r].end = "end" =>
       IF FromBook(r) THEN book[r[1]].left = 0 ELSE down[Convert(r[1])].end = "whole"
  /\ \A r \in Requests : mid[r].end = "whole" => down[r].end = "whole"
  /\ \A j \in stored : down[Process(j)].end = "whole"

BoundsOK == jobSem <= MaxConcurrentJobs /\ troubles \in 0 .. MaxTroubles

Inv ==
  /\ ServerTypes
  /\ WorkerTypes
  /\ SlotsFollowWork
  /\ HoldersOK
  /\ PumpsOK
  /\ WholeOK
  /\ BoundsOK

-----------------------------------------------------------------------------
(* The steps of the specification, named once for the proofs below. *)

LEMMA StepCases ==
  ASSUME Next
  PROVE  \/ \E j \in Jobs :
              \/ Connected(j) \/ NeverReady(j) \/ Answered(j) \/ Refused(j) \/ TimedOut(j)
              \/ InvalidLength(j) \/ PutReads(j) \/ PutEnds(j) \/ PutFails(j)
              \/ AskCancel(j) \/ LetGo(j) \/ BookBreaks(j) \/ Crash(j)
         \/ \E r \in Requests :
              \/ PumpReads(r) \/ PumpWrites(r) \/ PumpEnds(r) \/ PumpStops(r)
              \/ BridgeReads(r) \/ BridgeWrites(r) \/ BridgeCloses(r) \/ BridgeFails(r)
              \/ CancelSettles(r) \/ BridgeDone(r) \/ ConnectionLost(r)
         \/ \E r \in Requests :
              /\ \/ ReadPart(r) \/ ParseFails(r) \/ Parsed(r) \/ AcquireJobSlot(r)
                 \/ NoFreeSlot(r) \/ WorkDone(r) \/ WorkFails(r) \/ StreamHeader(r)
                 \/ StreamChunk(r) \/ StreamEnds(r) \/ StreamBreaks(r) \/ ReleaseJobSlot(r)
                 \/ WriteError(r) \/ Finish(r) \/ Expire(r)
              /\ UNCHANGED <<kind, workerVars>>
  BY DEF Next, Progress, Trouble, Handle, Killed

LEMMA RequestTypes ==
  /\ \A j \in Conversions : Convert(j) \in Requests
  /\ \A j \in Jobs : Process(j) \in Requests
  /\ \A r \in Requests : \/ r[1] \in Conversions /\ r = Convert(r[1])
                         \/ r[1] \in Jobs /\ r = Process(r[1])
  BY PipelineAssumption DEF PipelineRequests, Convert, Process, Jobs

LEMMA CallTypes ==
  ASSUME WorkerTypes, NEW j \in Jobs
  PROVE  /\ Call(j) \in Requests /\ Call(j)[1] = j /\ Call(j)[2] = run[j].path
         /\ run[j].path = "convert" => j \in Conversions /\ Call(j) = Convert(j)
         /\ run[j].path # "convert" => Call(j) = Process(j)
  <1>1. run[j].path \in {"convert", "process"}
    BY DEF WorkerTypes, Fibres
  <1>2. CASE run[j].path = "convert"
    BY <1>2, RequestTypes DEF WorkerTypes, Call, Convert
  <1>3. CASE run[j].path = "process"
    BY <1>3, RequestTypes DEF Call, Process
  <1> QED
    BY <1>1, <1>2, <1>3

(* The container's state keeps its types. *)
LEMMA NextServerTypes ==
  ASSUME ServerTypes, WorkerTypes, Next
  PROVE  ServerTypes'
  <1> USE DEF serverVars, wireVars, workerVars
  <1>1. ASSUME NEW j \in Jobs, Connected(j) PROVE ServerTypes'
    BY <1>1, CallTypes DEF Connected, RunGoto, RunAt, Call, ServerTypes
  <1>2. ASSUME NEW j \in Jobs, NeverReady(j) PROVE ServerTypes'
    BY <1>2 DEF NeverReady, RunGoto, RunAt, Letting, ServerTypes
  <1>3. ASSUME NEW j \in Jobs, Answered(j) PROVE ServerTypes'
    BY <1>3, CallTypes DEF Answered, RunAt, Call, ServerTypes
  <1>4. ASSUME NEW j \in Jobs, Refused(j) PROVE ServerTypes'
    BY <1>4, CallTypes DEF Refused, RunGoto, RunAt, Letting, Call, ServerTypes
  <1>5. ASSUME NEW j \in Jobs, TimedOut(j) PROVE ServerTypes'
    BY <1>5, CallTypes DEF TimedOut, RunGoto, RunAt, Letting, HungUp, Call, ServerTypes
  <1>6. ASSUME NEW j \in Jobs, InvalidLength(j) PROVE ServerTypes'
    BY <1>6, CallTypes DEF InvalidLength, RunGoto, RunAt, Letting, HungUp, Call, ServerTypes
  <1>7. ASSUME NEW j \in Jobs, PutReads(j) PROVE ServerTypes'
    BY <1>7 DEF PutReads, RunAt, ServerTypes
  <1>8. ASSUME NEW j \in Jobs, PutEnds(j) PROVE ServerTypes'
    BY <1>8 DEF PutEnds, RunGoto, RunAt, ServerTypes
  <1>9. ASSUME NEW j \in Jobs, PutFails(j) PROVE ServerTypes'
    BY <1>9 DEF PutFails, RunGoto, RunAt, ServerTypes
  <1>10. ASSUME NEW j \in Jobs, AskCancel(j) PROVE ServerTypes'
    BY <1>10 DEF AskCancel, Released, Releasing, ServerTypes
  <1>11. ASSUME NEW j \in Jobs, LetGo(j) PROVE ServerTypes'
    BY <1>11 DEF LetGo, RunGoto, Released, Releasing, RunAt, ServerTypes
  <1>12. ASSUME NEW j \in Jobs, BookBreaks(j) PROVE ServerTypes'
    BY <1>12 DEF BookBreaks, ServerTypes
  <1>13. ASSUME NEW j \in Jobs, Crash(j) PROVE ServerTypes'
    BY <1>13 DEF Crash, RunGoto, Over, ServerTypes
  <1>14. ASSUME NEW r \in Requests, PumpReads(r) PROVE ServerTypes'
    BY <1>14 DEF PumpReads, ServerTypes
  <1>15. ASSUME NEW r \in Requests, PumpWrites(r) PROVE ServerTypes'
    <2>1. up'[r] \in Bodies
      BY <1>15 DEF PumpWrites, ServerTypes, Bodies
    <2>2. up' \in [Requests -> Bodies]
      BY <1>15, <2>1 DEF PumpWrites, ServerTypes
    <2> QED
      BY <1>15, <2>2 DEF PumpWrites, ServerTypes
  <1>16. ASSUME NEW r \in Requests, PumpEnds(r) PROVE ServerTypes'
    <2>1. up'[r] \in Bodies
      BY <1>16 DEF PumpEnds, SourceEnd, BodyEnd, ServerTypes, Bodies
    <2>2. up' \in [Requests -> Bodies]
      BY <1>16, <2>1 DEF PumpEnds, SourceEnd, BodyEnd, ServerTypes
    <2> QED
      BY <1>16, <2>2 DEF PumpEnds, SourceEnd, BodyEnd, ServerTypes
  <1>17. ASSUME NEW r \in Requests, PumpStops(r) PROVE ServerTypes'
    <2>1. up'[r] \in Bodies
      BY <1>17 DEF PumpStops, ServerTypes, Bodies
    <2>2. up' \in [Requests -> Bodies]
      BY <1>17, <2>1 DEF PumpStops, ServerTypes
    <2> QED
      BY <1>17, <2>2 DEF PumpStops, ServerTypes
  <1>18. ASSUME NEW r \in Requests, BridgeReads(r) PROVE ServerTypes'
    <2>1. down'[r] \in Replies
      BY <1>18 DEF BridgeReads, BridgeRuns, ServerTypes, Replies
    <2>2. down' \in [Requests -> Replies]
      BY <1>18, <2>1 DEF BridgeReads, BridgeRuns, ServerTypes
    <2> QED
      BY <1>18, <2>2 DEF BridgeReads, BridgeRuns, ServerTypes
  <1>19. ASSUME NEW r \in Requests, BridgeWrites(r) PROVE ServerTypes'
    BY <1>19 DEF BridgeWrites, BridgeRuns, ServerTypes
  <1>20. ASSUME NEW r \in Requests, BridgeCloses(r) PROVE ServerTypes'
    BY <1>20 DEF BridgeCloses, BridgeRuns, AllRead, ServerTypes
  <1>21. ASSUME NEW r \in Requests, BridgeFails(r) PROVE ServerTypes'
    BY <1>21 DEF BridgeFails, BridgeRuns, OnCatch, ServerTypes
  <1>22. ASSUME NEW r \in Requests, CancelSettles(r) PROVE ServerTypes'
    BY <1>22 DEF CancelSettles, ServerTypes
  <1>23. ASSUME NEW r \in Requests, BridgeDone(r) PROVE ServerTypes'
    BY <1>23 DEF BridgeDone, ServerTypes
  <1>24. ASSUME NEW r \in Requests, ConnectionLost(r) PROVE ServerTypes'
    BY <1>24 DEF ConnectionLost, ServerTypes
  <1>25. ASSUME NEW r \in Requests, ReadPart(r), UNCHANGED <<kind, workerVars>> PROVE ServerTypes'
    <2>1. srv'[r] \in Handlers
      <3>1. [srv[r] EXCEPT !.files = srv[r].files \cup {"input"}, !.clean = srv[r].clean \cup {"input"}, !.at = "parsing"] \in Handlers
        <4>1. srv[r] \in Handlers
          BY DEF ServerTypes
        <4> QED
          BY <4>1 DEF Handlers, Stages, Temporaries
      <3> QED
        BY <1>25, <3>1 DEF ReadPart, Parsing, At, ServerTypes
    <2>2. srv' \in [Requests -> Handlers]
      BY <1>25, <2>1 DEF ReadPart, Parsing, At, ServerTypes
    <2>3. up'[r] \in Bodies
      BY <1>25 DEF ReadPart, Parsing, At, ServerTypes, Bodies
    <2>4. up' \in [Requests -> Bodies]
      BY <1>25, <2>3 DEF ReadPart, Parsing, At, ServerTypes
    <2> QED
      BY <1>25, <2>2, <2>4 DEF ReadPart, Parsing, At, ServerTypes
  <1>26. ASSUME NEW r \in Requests, ParseFails(r), UNCHANGED <<kind, workerVars>> PROVE ServerTypes'
    <2>1. srv'[r] \in Handlers
      BY <1>26 DEF ParseFails, Parsing, At, ServerTypes, Handlers, Stages, Temporaries
    <2>2. srv' \in [Requests -> Handlers]
      BY <1>26, <2>1 DEF ParseFails, Parsing, At, ServerTypes
    <2> QED
      BY <1>26, <2>2 DEF ParseFails, Parsing, At, ServerTypes
  <1>27. ASSUME NEW r \in Requests, Parsed(r), UNCHANGED <<kind, workerVars>> PROVE ServerTypes'
    <2>1. srv'[r] \in Handlers
      BY <1>27 DEF Parsed, Parsing, CleanAfterRename, At, ServerTypes, Handlers, Stages, Temporaries
    <2>2. srv' \in [Requests -> Handlers]
      BY <1>27, <2>1 DEF Parsed, Parsing, CleanAfterRename, At, ServerTypes
    <2> QED
      BY <1>27, <2>2 DEF Parsed, Parsing, CleanAfterRename, At, ServerTypes
  <1>28. ASSUME NEW r \in Requests, AcquireJobSlot(r), UNCHANGED <<kind, workerVars>> PROVE ServerTypes'
    <2>1. srv'[r] \in Handlers
      <3>1. [srv[r] EXCEPT !.at = "working", !.holds = TRUE, !.files = srv[r].files \cup {"output"}] \in Handlers
        <4>1. srv[r] \in Handlers
          BY DEF ServerTypes
        <4> QED
          BY <4>1 DEF Handlers, Stages, Temporaries
      <3> QED
        BY <1>28, <3>1 DEF AcquireJobSlot, At, ServerTypes
    <2>2. srv' \in [Requests -> Handlers]
      BY <1>28, <2>1 DEF AcquireJobSlot, At, ServerTypes
    <2> QED
      BY <1>28, <2>2 DEF AcquireJobSlot, At, ServerTypes
  <1>29. ASSUME NEW r \in Requests, NoFreeSlot(r), UNCHANGED <<kind, workerVars>> PROVE ServerTypes'
    <2>1. srv'[r] \in Handlers
      BY <1>29 DEF NoFreeSlot, Goto, At, ServerTypes, Handlers, Stages, Temporaries
    <2>2. srv' \in [Requests -> Handlers]
      BY <1>29, <2>1 DEF NoFreeSlot, Goto, At, ServerTypes
    <2> QED
      BY <1>29, <2>2 DEF NoFreeSlot, Goto, At, ServerTypes
  <1>30. ASSUME NEW r \in Requests, WorkDone(r), UNCHANGED <<kind, workerVars>> PROVE ServerTypes'
    <2>1. srv'[r] \in Handlers
      <3>1. srv[r] \in Handlers
        BY DEF ServerTypes
      <3>2. [srv[r] EXCEPT !.at = "streaming"] \in Handlers
        BY <3>1 DEF Handlers, Stages
      <3>3. [srv[r] EXCEPT !.at = "releasing", !.files = srv[r].files \ {"output"}] \in Handlers
        BY <3>1 DEF Handlers, Stages, Temporaries
      <3> QED
        BY <1>30, <3>2, <3>3 DEF WorkDone, At, ServerTypes
    <2>2. srv' \in [Requests -> Handlers]
      BY <1>30, <2>1 DEF WorkDone, At, ServerTypes
    <2> QED
      BY <1>30, <2>2 DEF WorkDone, At, ServerTypes
  <1>31. ASSUME NEW r \in Requests, WorkFails(r), UNCHANGED <<kind, workerVars>> PROVE ServerTypes'
    <2>1. srv'[r] \in Handlers
      <3>1. [srv[r] EXCEPT !.at = "failing", !.files = srv[r].files \ {"output"}] \in Handlers
        <4>1. srv[r] \in Handlers
          BY DEF ServerTypes
        <4> QED
          BY <4>1 DEF Handlers, Stages, Temporaries
      <3> QED
        BY <1>31, <3>1 DEF WorkFails, At, ServerTypes
    <2>2. srv' \in [Requests -> Handlers]
      BY <1>31, <2>1 DEF WorkFails, At, ServerTypes
    <2> QED
      BY <1>31, <2>2 DEF WorkFails, At, ServerTypes
  <1>32. ASSUME NEW r \in Requests, StreamHeader(r), UNCHANGED <<kind, workerVars>> PROVE ServerTypes'
    <2>1. down'[r] \in Replies
      BY <1>32 DEF StreamHeader, At, ServerTypes, Replies
    <2>2. down' \in [Requests -> Replies]
      BY <1>32, <2>1 DEF StreamHeader, At, ServerTypes
    <2> QED
      BY <1>32, <2>2 DEF StreamHeader, At, ServerTypes
  <1>33. ASSUME NEW r \in Requests, StreamChunk(r), UNCHANGED <<kind, workerVars>> PROVE ServerTypes'
    <2>1. srv'[r] \in Handlers
      <3>1. [srv[r] EXCEPT !.sent = srv[r].sent + 1] \in Handlers
        <4>1. srv[r] \in Handlers /\ srv[r].sent < Chunks
          BY <1>33 DEF StreamChunk, ServerTypes
        <4> QED
          BY <4>1, ServerAssumption DEF Handlers
      <3> QED
        BY <1>33, <3>1 DEF StreamChunk, At, ServerTypes
    <2>2. srv' \in [Requests -> Handlers]
      BY <1>33, <2>1 DEF StreamChunk, At, ServerTypes
    <2>3. down'[r] \in Replies
      BY <1>33 DEF StreamChunk, At, ServerTypes, Replies
    <2>4. down' \in [Requests -> Replies]
      BY <1>33, <2>3 DEF StreamChunk, At, ServerTypes
    <2> QED
      BY <1>33, <2>2, <2>4 DEF StreamChunk, At, ServerTypes
  <1>34. ASSUME NEW r \in Requests, StreamEnds(r), UNCHANGED <<kind, workerVars>> PROVE ServerTypes'
    <2>1. srv'[r] \in Handlers
      BY <1>34 DEF StreamEnds, At, ServerTypes, Handlers, Stages, Temporaries
    <2>2. srv' \in [Requests -> Handlers]
      BY <1>34, <2>1 DEF StreamEnds, At, ServerTypes
    <2>3. down'[r] \in Replies
      BY <1>34 DEF StreamEnds, At, ServerTypes, Replies
    <2>4. down' \in [Requests -> Replies]
      BY <1>34, <2>3 DEF StreamEnds, At, ServerTypes
    <2> QED
      BY <1>34, <2>2, <2>4 DEF StreamEnds, At, ServerTypes
  <1>35. ASSUME NEW r \in Requests, StreamBreaks(r), UNCHANGED <<kind, workerVars>> PROVE ServerTypes'
    <2>1. srv'[r] \in Handlers
      BY <1>35 DEF StreamBreaks, At, ServerTypes, Handlers, Stages, Temporaries
    <2>2. srv' \in [Requests -> Handlers]
      BY <1>35, <2>1 DEF StreamBreaks, At, ServerTypes
    <2>3. down'[r] \in Replies
      BY <1>35 DEF StreamBreaks, At, ServerTypes, Replies
    <2>4. down' \in [Requests -> Replies]
      BY <1>35, <2>3 DEF StreamBreaks, At, ServerTypes
    <2> QED
      BY <1>35, <2>2, <2>4 DEF StreamBreaks, At, ServerTypes
  <1>36. ASSUME NEW r \in Requests, ReleaseJobSlot(r), UNCHANGED <<kind, workerVars>> PROVE ServerTypes'
    <2>1. srv'[r] \in Handlers
      BY <1>36 DEF ReleaseJobSlot, At, ServerTypes, Handlers, Stages, Temporaries
    <2>2. srv' \in [Requests -> Handlers]
      BY <1>36, <2>1 DEF ReleaseJobSlot, At, ServerTypes
    <2> QED
      BY <1>36, <2>2 DEF ReleaseJobSlot, At, ServerTypes
  <1>37. ASSUME NEW r \in Requests, WriteError(r), UNCHANGED <<kind, workerVars>> PROVE ServerTypes'
    <2>1. srv'[r] \in Handlers
      BY <1>37 DEF WriteError, Return, ErrorStatus, At, ServerTypes, Handlers, Stages, Temporaries
    <2>2. srv' \in [Requests -> Handlers]
      BY <1>37, <2>1 DEF WriteError, Return, ErrorStatus, At, ServerTypes
    <2>3. down'[r] \in Replies
      BY <1>37 DEF WriteError, Return, ErrorStatus, At, ServerTypes, Replies
    <2>4. down' \in [Requests -> Replies]
      BY <1>37, <2>3 DEF WriteError, Return, ErrorStatus, At, ServerTypes
    <2> QED
      BY <1>37, <2>2, <2>4 DEF WriteError, Return, ErrorStatus, At, ServerTypes
  <1>38. ASSUME NEW r \in Requests, Finish(r), UNCHANGED <<kind, workerVars>> PROVE ServerTypes'
    <2>1. srv'[r] \in Handlers
      BY <1>38 DEF Finish, Return, At, ServerTypes, Handlers, Stages, Temporaries
    <2>2. srv' \in [Requests -> Handlers]
      BY <1>38, <2>1 DEF Finish, Return, At, ServerTypes
    <2> QED
      BY <1>38, <2>2 DEF Finish, Return, At, ServerTypes
  <1>39. ASSUME NEW r \in Requests, Expire(r), UNCHANGED <<kind, workerVars>> PROVE ServerTypes'
    <2>1. srv'[r] \in Handlers
      <3>1. [srv[r] EXCEPT !.expired = TRUE] \in Handlers
        <4>1. srv[r] \in Handlers
          BY DEF ServerTypes
        <4> QED
          BY <4>1 DEF Handlers, Stages, Temporaries
      <3> QED
        BY <1>39, <3>1 DEF Expire, At, ServerTypes
    <2>2. srv' \in [Requests -> Handlers]
      BY <1>39, <2>1 DEF Expire, At, ServerTypes
    <2> QED
      BY <1>39, <2>2 DEF Expire, At, ServerTypes
  <1>40. QED
    BY StepCases, <1>1, <1>2, <1>3, <1>4, <1>5, <1>6, <1>7, <1>8, <1>9, <1>10, <1>11, <1>12,
       <1>13, <1>14, <1>15, <1>16, <1>17, <1>18, <1>19, <1>20, <1>21, <1>22, <1>23, <1>24,
       <1>25, <1>26, <1>27, <1>28, <1>29, <1>30, <1>31, <1>32, <1>33, <1>34, <1>35, <1>36,
       <1>37, <1>38, <1>39

(* The Worker's state keeps its types. *)
LEMMA NextWorkerTypes ==
  ASSUME WorkerTypes, Next
  PROVE  WorkerTypes'
  <1> USE DEF serverVars, wireVars, workerVars
  <1>1. ASSUME NEW j \in Jobs, Connected(j) PROVE WorkerTypes'
    <2>1. run'[j] \in Fibres
      BY <1>1, RequestTypes, CallTypes DEF Connected, RunGoto, RunAt, Call, WorkerTypes, Fibres,
         Releasing
    <2>2. run' \in [Jobs -> Fibres]
      BY <1>1, RequestTypes, CallTypes, <2>1 DEF Connected, RunGoto, RunAt, Call, WorkerTypes
    <2>3. \A i \in Jobs : run'[i].path = "convert" \/ run'[i].at \in {"kept", "lettingGo"} =>
             i \in Conversions
      BY <1>1, RequestTypes, CallTypes DEF Connected, RunGoto, RunAt, Call, WorkerTypes, Fibres
    <2> QED
      BY <1>1, <2>2, <2>3 DEF Connected, RunGoto, RunAt, Call, WorkerTypes
  <1>2. ASSUME NEW j \in Jobs, NeverReady(j) PROVE WorkerTypes'
    <2>1. run'[j] \in Fibres
      BY <1>2 DEF NeverReady, RunGoto, RunAt, Letting, WorkerTypes, Fibres, Releasing
    <2>2. run' \in [Jobs -> Fibres]
      BY <1>2, <2>1 DEF NeverReady, RunGoto, RunAt, Letting, WorkerTypes
    <2>3. \A i \in Jobs : run'[i].path = "convert" \/ run'[i].at \in {"kept", "lettingGo"} =>
             i \in Conversions
      BY <1>2 DEF NeverReady, RunGoto, RunAt, Letting, WorkerTypes, Fibres
    <2> QED
      BY <1>2, <2>2, <2>3 DEF NeverReady, RunGoto, RunAt, Letting, WorkerTypes
  <1>3. ASSUME NEW j \in Jobs, Answered(j) PROVE WorkerTypes'
    <2>1. run'[j] \in Fibres
      BY <1>3, RequestTypes, CallTypes DEF Answered, RunAt, Call, WorkerTypes, Fibres, Releasing
    <2>2. run' \in [Jobs -> Fibres]
      BY <1>3, RequestTypes, CallTypes, <2>1 DEF Answered, RunAt, Call, WorkerTypes
    <2>3. bridge'[Call(j)] \in Bridges
      BY <1>3, RequestTypes, CallTypes DEF Answered, RunAt, Call, WorkerTypes, Bridges
    <2>4. bridge' \in [Requests -> Bridges]
      BY <1>3, RequestTypes, CallTypes, <2>3 DEF Answered, RunAt, Call, WorkerTypes
    <2>5. \A i \in Jobs : run'[i].path = "convert" \/ run'[i].at \in {"kept", "lettingGo"} =>
             i \in Conversions
      BY <1>3, RequestTypes, CallTypes DEF Answered, RunAt, Call, WorkerTypes, Fibres
    <2> QED
      BY <1>3, <2>2, <2>4, <2>5 DEF Answered, RunAt, Call, WorkerTypes
  <1>4. ASSUME NEW j \in Jobs, Refused(j) PROVE WorkerTypes'
    <2>1. run'[j] \in Fibres
      BY <1>4, RequestTypes, CallTypes DEF Refused, RunGoto, RunAt, Letting, Call, WorkerTypes,
         Fibres, Releasing
    <2>2. run' \in [Jobs -> Fibres]
      BY <1>4, RequestTypes, CallTypes, <2>1 DEF Refused, RunGoto, RunAt, Letting, Call,
         WorkerTypes
    <2>3. \A i \in Jobs : run'[i].path = "convert" \/ run'[i].at \in {"kept", "lettingGo"} =>
             i \in Conversions
      BY <1>4, RequestTypes, CallTypes DEF Refused, RunGoto, RunAt, Letting, Call, WorkerTypes,
         Fibres
    <2> QED
      BY <1>4, <2>2, <2>3 DEF Refused, RunGoto, RunAt, Letting, Call, WorkerTypes
  <1>5. ASSUME NEW j \in Jobs, TimedOut(j) PROVE WorkerTypes'
    <2>1. run'[j] \in Fibres
      BY <1>5, RequestTypes, CallTypes DEF TimedOut, RunGoto, RunAt, Letting, HungUp, Call,
         WorkerTypes, Fibres, Releasing
    <2>2. run' \in [Jobs -> Fibres]
      BY <1>5, RequestTypes, CallTypes, <2>1 DEF TimedOut, RunGoto, RunAt, Letting, HungUp, Call,
         WorkerTypes
    <2>3. \A i \in Jobs : run'[i].path = "convert" \/ run'[i].at \in {"kept", "lettingGo"} =>
             i \in Conversions
      BY <1>5, RequestTypes, CallTypes DEF TimedOut, RunGoto, RunAt, Letting, HungUp, Call,
         WorkerTypes, Fibres
    <2> QED
      BY <1>5, <2>2, <2>3 DEF TimedOut, RunGoto, RunAt, Letting, HungUp, Call, WorkerTypes
  <1>6. ASSUME NEW j \in Jobs, InvalidLength(j) PROVE WorkerTypes'
    <2>1. run'[j] \in Fibres
      BY <1>6, RequestTypes, CallTypes DEF InvalidLength, RunGoto, RunAt, Letting, HungUp, Call,
         WorkerTypes, Fibres, Releasing
    <2>2. run' \in [Jobs -> Fibres]
      BY <1>6, RequestTypes, CallTypes, <2>1 DEF InvalidLength, RunGoto, RunAt, Letting, HungUp,
         Call, WorkerTypes
    <2>3. \A i \in Jobs : run'[i].path = "convert" \/ run'[i].at \in {"kept", "lettingGo"} =>
             i \in Conversions
      BY <1>6, RequestTypes, CallTypes DEF InvalidLength, RunGoto, RunAt, Letting, HungUp, Call,
         WorkerTypes, Fibres
    <2> QED
      BY <1>6, <2>2, <2>3 DEF InvalidLength, RunGoto, RunAt, Letting, HungUp, Call, WorkerTypes
  <1>7. ASSUME NEW j \in Jobs, PutReads(j) PROVE WorkerTypes'
    <2>1. PICK q \in Requests : q = Process(j)
      BY RequestTypes
    <2>2. mid' = [mid EXCEPT ![q].chunk = FALSE] /\ mid[q] \in Streams
      BY <1>7, <2>1 DEF PutReads, WorkerTypes
    <2>3. [mid[q] EXCEPT !.chunk = FALSE] \in Streams
      BY <2>2 DEF Streams
    <2>4. mid' \in [Requests -> Streams]
      BY <2>2, <2>3 DEF WorkerTypes
    <2> QED
      BY <1>7, <2>4 DEF PutReads, WorkerTypes
  <1>8. ASSUME NEW j \in Jobs, PutEnds(j) PROVE WorkerTypes'
    <2>1. run'[j] \in Fibres
      BY <1>8 DEF PutEnds, RunGoto, RunAt, WorkerTypes, Fibres, Releasing
    <2>2. run' \in [Jobs -> Fibres]
      BY <1>8, <2>1 DEF PutEnds, RunGoto, RunAt, WorkerTypes
    <2>3. \A i \in Jobs : run'[i].path = "convert" \/ run'[i].at \in {"kept", "lettingGo"} =>
             i \in Conversions
      BY <1>8 DEF PutEnds, RunGoto, RunAt, WorkerTypes, Fibres
    <2> QED
      BY <1>8, <2>2, <2>3 DEF PutEnds, RunGoto, RunAt, WorkerTypes
  <1>9. ASSUME NEW j \in Jobs, PutFails(j) PROVE WorkerTypes'
    <2>1. run'[j] \in Fibres
      BY <1>9 DEF PutFails, RunGoto, RunAt, WorkerTypes, Fibres, Releasing
    <2>2. run' \in [Jobs -> Fibres]
      BY <1>9, <2>1 DEF PutFails, RunGoto, RunAt, WorkerTypes
    <2>3. \A i \in Jobs : run'[i].path = "convert" \/ run'[i].at \in {"kept", "lettingGo"} =>
             i \in Conversions
      BY <1>9 DEF PutFails, RunGoto, RunAt, WorkerTypes, Fibres
    <2> QED
      BY <1>9, <2>2, <2>3 DEF PutFails, RunGoto, RunAt, WorkerTypes
  <1>10. ASSUME NEW j \in Jobs, AskCancel(j) PROVE WorkerTypes'
    <2>1. PICK q \in Requests : q = Released(j)
      BY RequestTypes DEF Released, WorkerTypes
    <2>2. bridge' = [bridge EXCEPT ![q].cancel = "settling"] /\ bridge[q] \in Bridges
      BY <1>10, <2>1 DEF AskCancel, WorkerTypes
    <2>3. [bridge[q] EXCEPT !.cancel = "settling"] \in Bridges
      BY <2>2 DEF Bridges
    <2>4. bridge' \in [Requests -> Bridges]
      BY <2>2, <2>3 DEF WorkerTypes
    <2> QED
      BY <1>10, <2>4 DEF AskCancel, WorkerTypes
  <1>11. ASSUME NEW j \in Jobs, LetGo(j) PROVE WorkerTypes'
    <2>1. run'[j] \in Fibres
      BY <1>11 DEF LetGo, RunGoto, Released, Releasing, RunAt, WorkerTypes, Fibres
    <2>2. run' \in [Jobs -> Fibres]
      BY <1>11, <2>1 DEF LetGo, RunGoto, Released, Releasing, RunAt, WorkerTypes
    <2>3. \A i \in Jobs : run'[i].path = "convert" \/ run'[i].at \in {"kept", "lettingGo"} =>
             i \in Conversions
      BY <1>11 DEF LetGo, RunGoto, Released, Releasing, RunAt, WorkerTypes, Fibres
    <2> QED
      BY <1>11, <2>2, <2>3 DEF LetGo, RunGoto, Released, Releasing, RunAt, WorkerTypes
  <1>12. ASSUME NEW j \in Jobs, BookBreaks(j) PROVE WorkerTypes'
    <2>1. book'[j] \in Books
      BY <1>12 DEF BookBreaks, WorkerTypes, Books
    <2>2. book' \in [Jobs -> Books]
      BY <1>12, <2>1 DEF BookBreaks, WorkerTypes
    <2> QED
      BY <1>12, <2>2 DEF BookBreaks, WorkerTypes
  <1>13. ASSUME NEW j \in Jobs, Crash(j) PROVE WorkerTypes'
    <2>1. run'[j] \in Fibres
      BY <1>13 DEF Crash, RunGoto, WorkerTypes, Fibres, Releasing
    <2>2. run' \in [Jobs -> Fibres]
      BY <1>13, <2>1 DEF Crash, RunGoto, WorkerTypes
    <2>3. bridge' \in [Requests -> Bridges]
      BY <1>13 DEF Crash, WorkerTypes, Bridges
    <2>4. pump' \in [Requests -> {"none", "reading", "writing", "ended"}]
      BY <1>13 DEF Crash, WorkerTypes
    <2>5. \A i \in Jobs : run'[i].path = "convert" \/ run'[i].at \in {"kept", "lettingGo"} =>
             i \in Conversions
      BY <1>13 DEF Crash, RunGoto, WorkerTypes, Fibres
    <2> QED
      BY <1>13, <2>2, <2>3, <2>4, <2>5 DEF Crash, WorkerTypes
  <1>14. ASSUME NEW r \in Requests, PumpReads(r) PROVE WorkerTypes'
    <2>1. CASE FromBook(r)
      <3>1. PICK j \in Jobs : j = r[1]
        BY RequestTypes DEF Jobs
      <3>2. book' = [book EXCEPT ![j].left = book[j].left - 1] /\ book[j] \in Books /\ book[j].left > 0
        BY <1>14, <2>1, <3>1 DEF PumpReads, WorkerTypes
      <3>3. [book[j] EXCEPT !.left = book[j].left - 1] \in Books
        BY <3>2, ServerAssumption DEF Books
      <3>4. book' \in [Jobs -> Books]
        BY <3>2, <3>3 DEF WorkerTypes
      <3> QED
        BY <1>14, <2>1, <3>4 DEF PumpReads, WorkerTypes
    <2>2. CASE ~FromBook(r)
      <3>1. PICK q \in Requests : q = Convert(r[1])
        BY <2>2, RequestTypes DEF FromBook, Convert, Process, Jobs
      <3>2. mid' = [mid EXCEPT ![q].chunk = FALSE] /\ mid[q] \in Streams
        BY <1>14, <2>2, <3>1 DEF PumpReads, WorkerTypes
      <3>3. [mid[q] EXCEPT !.chunk = FALSE] \in Streams
        BY <3>2 DEF Streams
      <3>4. mid' \in [Requests -> Streams]
        BY <3>2, <3>3 DEF WorkerTypes
      <3> QED
        BY <1>14, <2>2, <3>4 DEF PumpReads, WorkerTypes
    <2> QED
      BY <2>1, <2>2
  <1>15. ASSUME NEW r \in Requests, PumpWrites(r) PROVE WorkerTypes'
    BY <1>15 DEF PumpWrites, WorkerTypes
  <1>16. ASSUME NEW r \in Requests, PumpEnds(r) PROVE WorkerTypes'
    BY <1>16 DEF PumpEnds, SourceEnd, BodyEnd, WorkerTypes
  <1>17. ASSUME NEW r \in Requests, PumpStops(r) PROVE WorkerTypes'
    BY <1>17 DEF PumpStops, WorkerTypes
  <1>18. ASSUME NEW r \in Requests, BridgeReads(r) PROVE WorkerTypes'
    <2>1. bridge'[r] \in Bridges
      BY <1>18 DEF BridgeReads, BridgeRuns, WorkerTypes, Bridges
    <2>2. bridge' \in [Requests -> Bridges]
      BY <1>18, <2>1 DEF BridgeReads, BridgeRuns, WorkerTypes
    <2> QED
      BY <1>18, <2>2 DEF BridgeReads, BridgeRuns, WorkerTypes
  <1>19. ASSUME NEW r \in Requests, BridgeWrites(r) PROVE WorkerTypes'
    <2>1. bridge'[r] \in Bridges
      BY <1>19 DEF BridgeWrites, BridgeRuns, WorkerTypes, Bridges
    <2>2. bridge' \in [Requests -> Bridges]
      BY <1>19, <2>1 DEF BridgeWrites, BridgeRuns, WorkerTypes
    <2>3. mid'[r] \in Streams
      BY <1>19 DEF BridgeWrites, BridgeRuns, WorkerTypes, Streams
    <2>4. mid' \in [Requests -> Streams]
      BY <1>19, <2>3 DEF BridgeWrites, BridgeRuns, WorkerTypes
    <2> QED
      BY <1>19, <2>2, <2>4 DEF BridgeWrites, BridgeRuns, WorkerTypes
  <1>20. ASSUME NEW r \in Requests, BridgeCloses(r) PROVE WorkerTypes'
    <2>1. bridge'[r] \in Bridges
      BY <1>20 DEF BridgeCloses, BridgeRuns, AllRead, WorkerTypes, Bridges
    <2>2. bridge' \in [Requests -> Bridges]
      BY <1>20, <2>1 DEF BridgeCloses, BridgeRuns, AllRead, WorkerTypes
    <2>3. mid'[r] \in Streams
      BY <1>20 DEF BridgeCloses, BridgeRuns, AllRead, WorkerTypes, Streams
    <2>4. mid' \in [Requests -> Streams]
      BY <1>20, <2>3 DEF BridgeCloses, BridgeRuns, AllRead, WorkerTypes
    <2> QED
      BY <1>20, <2>2, <2>4 DEF BridgeCloses, BridgeRuns, AllRead, WorkerTypes
  <1>21. ASSUME NEW r \in Requests, BridgeFails(r) PROVE WorkerTypes'
    <2>1. bridge'[r] \in Bridges
      BY <1>21 DEF BridgeFails, BridgeRuns, OnCatch, WorkerTypes, Bridges
    <2>2. bridge' \in [Requests -> Bridges]
      BY <1>21, <2>1 DEF BridgeFails, BridgeRuns, OnCatch, WorkerTypes
    <2> QED
      BY <1>21, <2>2 DEF BridgeFails, BridgeRuns, OnCatch, WorkerTypes
  <1>22. ASSUME NEW r \in Requests, CancelSettles(r) PROVE WorkerTypes'
    <2>1. bridge'[r] \in Bridges
      BY <1>22 DEF CancelSettles, WorkerTypes, Bridges
    <2>2. bridge' \in [Requests -> Bridges]
      BY <1>22, <2>1 DEF CancelSettles, WorkerTypes
    <2>3. mid'[r] \in Streams
      BY <1>22 DEF CancelSettles, WorkerTypes, Streams
    <2>4. mid' \in [Requests -> Streams]
      BY <1>22, <2>3 DEF CancelSettles, WorkerTypes
    <2> QED
      BY <1>22, <2>2, <2>4 DEF CancelSettles, WorkerTypes
  <1>23. ASSUME NEW r \in Requests, BridgeDone(r) PROVE WorkerTypes'
    <2>1. bridge'[r] \in Bridges
      BY <1>23 DEF BridgeDone, WorkerTypes, Bridges
    <2>2. bridge' \in [Requests -> Bridges]
      BY <1>23, <2>1 DEF BridgeDone, WorkerTypes
    <2> QED
      BY <1>23, <2>2 DEF BridgeDone, WorkerTypes
  <1>24. ASSUME NEW r \in Requests, ConnectionLost(r) PROVE WorkerTypes'
    BY <1>24 DEF ConnectionLost, WorkerTypes
  <1>25. ASSUME NEW r \in Requests, ReadPart(r), UNCHANGED <<kind, workerVars>> PROVE WorkerTypes'
    BY <1>25 DEF ReadPart, Parsing, At, WorkerTypes
  <1>26. ASSUME NEW r \in Requests, ParseFails(r), UNCHANGED <<kind, workerVars>> PROVE WorkerTypes'
    BY <1>26 DEF ParseFails, Parsing, At, WorkerTypes
  <1>27. ASSUME NEW r \in Requests, Parsed(r), UNCHANGED <<kind, workerVars>> PROVE WorkerTypes'
    BY <1>27 DEF Parsed, Parsing, CleanAfterRename, At, WorkerTypes
  <1>28. ASSUME NEW r \in Requests, AcquireJobSlot(r), UNCHANGED <<kind, workerVars>> PROVE WorkerTypes'
    BY <1>28 DEF AcquireJobSlot, At, WorkerTypes
  <1>29. ASSUME NEW r \in Requests, NoFreeSlot(r), UNCHANGED <<kind, workerVars>> PROVE WorkerTypes'
    BY <1>29 DEF NoFreeSlot, Goto, At, WorkerTypes
  <1>30. ASSUME NEW r \in Requests, WorkDone(r), UNCHANGED <<kind, workerVars>> PROVE WorkerTypes'
    BY <1>30 DEF WorkDone, At, WorkerTypes
  <1>31. ASSUME NEW r \in Requests, WorkFails(r), UNCHANGED <<kind, workerVars>> PROVE WorkerTypes'
    BY <1>31 DEF WorkFails, At, WorkerTypes
  <1>32. ASSUME NEW r \in Requests, StreamHeader(r), UNCHANGED <<kind, workerVars>> PROVE WorkerTypes'
    BY <1>32 DEF StreamHeader, At, WorkerTypes
  <1>33. ASSUME NEW r \in Requests, StreamChunk(r), UNCHANGED <<kind, workerVars>> PROVE WorkerTypes'
    BY <1>33 DEF StreamChunk, At, WorkerTypes
  <1>34. ASSUME NEW r \in Requests, StreamEnds(r), UNCHANGED <<kind, workerVars>> PROVE WorkerTypes'
    BY <1>34 DEF StreamEnds, At, WorkerTypes
  <1>35. ASSUME NEW r \in Requests, StreamBreaks(r), UNCHANGED <<kind, workerVars>> PROVE WorkerTypes'
    BY <1>35 DEF StreamBreaks, At, WorkerTypes
  <1>36. ASSUME NEW r \in Requests, ReleaseJobSlot(r), UNCHANGED <<kind, workerVars>> PROVE WorkerTypes'
    BY <1>36 DEF ReleaseJobSlot, At, WorkerTypes
  <1>37. ASSUME NEW r \in Requests, WriteError(r), UNCHANGED <<kind, workerVars>> PROVE WorkerTypes'
    BY <1>37 DEF WriteError, Return, ErrorStatus, At, WorkerTypes
  <1>38. ASSUME NEW r \in Requests, Finish(r), UNCHANGED <<kind, workerVars>> PROVE WorkerTypes'
    BY <1>38 DEF Finish, Return, At, WorkerTypes
  <1>39. ASSUME NEW r \in Requests, Expire(r), UNCHANGED <<kind, workerVars>> PROVE WorkerTypes'
    BY <1>39 DEF Expire, At, WorkerTypes
  <1>40. QED
    BY StepCases, <1>1, <1>2, <1>3, <1>4, <1>5, <1>6, <1>7, <1>8, <1>9, <1>10, <1>11, <1>12,
       <1>13, <1>14, <1>15, <1>16, <1>17, <1>18, <1>19, <1>20, <1>21, <1>22, <1>23, <1>24,
       <1>25, <1>26, <1>27, <1>28, <1>29, <1>30, <1>31, <1>32, <1>33, <1>34, <1>35, <1>36,
       <1>37, <1>38, <1>39

(* A slot is taken when the work begins and given back when it is over. *)
LEMMA NextHolders ==
  ASSUME ServerTypes, HoldersOK, Next
  PROVE  HoldersOK'
  <1> USE DEF serverVars, wireVars, workerVars
  <1>1. ASSUME NEW j \in Jobs, Connected(j) PROVE HoldersOK'
    BY <1>1 DEF Connected, RunGoto, RunAt, Call, HoldersOK, AtWork
  <1>2. ASSUME NEW j \in Jobs, NeverReady(j) PROVE HoldersOK'
    BY <1>2 DEF NeverReady, RunGoto, RunAt, Letting, HoldersOK, AtWork
  <1>3. ASSUME NEW j \in Jobs, Answered(j) PROVE HoldersOK'
    BY <1>3 DEF Answered, RunAt, Call, HoldersOK, AtWork
  <1>4. ASSUME NEW j \in Jobs, Refused(j) PROVE HoldersOK'
    BY <1>4 DEF Refused, RunGoto, RunAt, Letting, Call, HoldersOK, AtWork
  <1>5. ASSUME NEW j \in Jobs, TimedOut(j) PROVE HoldersOK'
    BY <1>5 DEF TimedOut, RunGoto, RunAt, Letting, HungUp, Call, HoldersOK, AtWork
  <1>6. ASSUME NEW j \in Jobs, InvalidLength(j) PROVE HoldersOK'
    BY <1>6 DEF InvalidLength, RunGoto, RunAt, Letting, HungUp, Call, HoldersOK, AtWork
  <1>7. ASSUME NEW j \in Jobs, PutReads(j) PROVE HoldersOK'
    BY <1>7 DEF PutReads, RunAt, HoldersOK, AtWork
  <1>8. ASSUME NEW j \in Jobs, PutEnds(j) PROVE HoldersOK'
    BY <1>8 DEF PutEnds, RunGoto, RunAt, HoldersOK, AtWork
  <1>9. ASSUME NEW j \in Jobs, PutFails(j) PROVE HoldersOK'
    BY <1>9 DEF PutFails, RunGoto, RunAt, HoldersOK, AtWork
  <1>10. ASSUME NEW j \in Jobs, AskCancel(j) PROVE HoldersOK'
    BY <1>10 DEF AskCancel, Released, Releasing, HoldersOK, AtWork
  <1>11. ASSUME NEW j \in Jobs, LetGo(j) PROVE HoldersOK'
    BY <1>11 DEF LetGo, RunGoto, Released, Releasing, RunAt, HoldersOK, AtWork
  <1>12. ASSUME NEW j \in Jobs, BookBreaks(j) PROVE HoldersOK'
    BY <1>12 DEF BookBreaks, HoldersOK, AtWork
  <1>13. ASSUME NEW j \in Jobs, Crash(j) PROVE HoldersOK'
    BY <1>13 DEF Crash, RunGoto, Over, HoldersOK, AtWork
  <1>14. ASSUME NEW r \in Requests, PumpReads(r) PROVE HoldersOK'
    BY <1>14 DEF PumpReads, HoldersOK, AtWork
  <1>15. ASSUME NEW r \in Requests, PumpWrites(r) PROVE HoldersOK'
    BY <1>15 DEF PumpWrites, HoldersOK, AtWork
  <1>16. ASSUME NEW r \in Requests, PumpEnds(r) PROVE HoldersOK'
    BY <1>16 DEF PumpEnds, SourceEnd, BodyEnd, HoldersOK, AtWork
  <1>17. ASSUME NEW r \in Requests, PumpStops(r) PROVE HoldersOK'
    BY <1>17 DEF PumpStops, HoldersOK, AtWork
  <1>18. ASSUME NEW r \in Requests, BridgeReads(r) PROVE HoldersOK'
    BY <1>18 DEF BridgeReads, BridgeRuns, HoldersOK, AtWork
  <1>19. ASSUME NEW r \in Requests, BridgeWrites(r) PROVE HoldersOK'
    BY <1>19 DEF BridgeWrites, BridgeRuns, HoldersOK, AtWork
  <1>20. ASSUME NEW r \in Requests, BridgeCloses(r) PROVE HoldersOK'
    BY <1>20 DEF BridgeCloses, BridgeRuns, AllRead, HoldersOK, AtWork
  <1>21. ASSUME NEW r \in Requests, BridgeFails(r) PROVE HoldersOK'
    BY <1>21 DEF BridgeFails, BridgeRuns, OnCatch, HoldersOK, AtWork
  <1>22. ASSUME NEW r \in Requests, CancelSettles(r) PROVE HoldersOK'
    BY <1>22 DEF CancelSettles, HoldersOK, AtWork
  <1>23. ASSUME NEW r \in Requests, BridgeDone(r) PROVE HoldersOK'
    BY <1>23 DEF BridgeDone, HoldersOK, AtWork
  <1>24. ASSUME NEW r \in Requests, ConnectionLost(r) PROVE HoldersOK'
    BY <1>24 DEF ConnectionLost, HoldersOK, AtWork
  <1>25. ASSUME NEW r \in Requests, ReadPart(r), UNCHANGED <<kind, workerVars>> PROVE HoldersOK'
    BY <1>25 DEF ReadPart, Parsing, At, ServerTypes, Handlers, Stages, HoldersOK, AtWork
  <1>26. ASSUME NEW r \in Requests, ParseFails(r), UNCHANGED <<kind, workerVars>> PROVE HoldersOK'
    BY <1>26 DEF ParseFails, Parsing, At, ServerTypes, Handlers, Stages, HoldersOK, AtWork
  <1>27. ASSUME NEW r \in Requests, Parsed(r), UNCHANGED <<kind, workerVars>> PROVE HoldersOK'
    BY <1>27 DEF Parsed, Parsing, CleanAfterRename, At, ServerTypes, Handlers, Stages,
       HoldersOK, AtWork
  <1>28. ASSUME NEW r \in Requests, AcquireJobSlot(r), UNCHANGED <<kind, workerVars>> PROVE HoldersOK'
    BY <1>28 DEF AcquireJobSlot, At, ServerTypes, Handlers, Stages, HoldersOK, AtWork
  <1>29. ASSUME NEW r \in Requests, NoFreeSlot(r), UNCHANGED <<kind, workerVars>> PROVE HoldersOK'
    BY <1>29 DEF NoFreeSlot, Goto, At, ServerTypes, Handlers, Stages, HoldersOK, AtWork
  <1>30. ASSUME NEW r \in Requests, WorkDone(r), UNCHANGED <<kind, workerVars>> PROVE HoldersOK'
    BY <1>30 DEF WorkDone, At, ServerTypes, Handlers, Stages, HoldersOK, AtWork
  <1>31. ASSUME NEW r \in Requests, WorkFails(r), UNCHANGED <<kind, workerVars>> PROVE HoldersOK'
    BY <1>31 DEF WorkFails, At, ServerTypes, Handlers, Stages, HoldersOK, AtWork
  <1>32. ASSUME NEW r \in Requests, StreamHeader(r), UNCHANGED <<kind, workerVars>> PROVE HoldersOK'
    BY <1>32 DEF StreamHeader, At, ServerTypes, Handlers, Stages, HoldersOK, AtWork
  <1>33. ASSUME NEW r \in Requests, StreamChunk(r), UNCHANGED <<kind, workerVars>> PROVE HoldersOK'
    BY <1>33 DEF StreamChunk, At, ServerTypes, Handlers, Stages, HoldersOK, AtWork
  <1>34. ASSUME NEW r \in Requests, StreamEnds(r), UNCHANGED <<kind, workerVars>> PROVE HoldersOK'
    BY <1>34 DEF StreamEnds, At, ServerTypes, Handlers, Stages, HoldersOK, AtWork
  <1>35. ASSUME NEW r \in Requests, StreamBreaks(r), UNCHANGED <<kind, workerVars>> PROVE HoldersOK'
    BY <1>35 DEF StreamBreaks, At, ServerTypes, Handlers, Stages, HoldersOK, AtWork
  <1>36. ASSUME NEW r \in Requests, ReleaseJobSlot(r), UNCHANGED <<kind, workerVars>> PROVE HoldersOK'
    BY <1>36 DEF ReleaseJobSlot, At, ServerTypes, Handlers, Stages, HoldersOK, AtWork
  <1>37. ASSUME NEW r \in Requests, WriteError(r), UNCHANGED <<kind, workerVars>> PROVE HoldersOK'
    BY <1>37 DEF WriteError, Return, ErrorStatus, At, ServerTypes, Handlers, Stages, HoldersOK,
       AtWork
  <1>38. ASSUME NEW r \in Requests, Finish(r), UNCHANGED <<kind, workerVars>> PROVE HoldersOK'
    BY <1>38 DEF Finish, Return, At, ServerTypes, Handlers, Stages, HoldersOK, AtWork
  <1>39. ASSUME NEW r \in Requests, Expire(r), UNCHANGED <<kind, workerVars>> PROVE HoldersOK'
    BY <1>39 DEF Expire, At, ServerTypes, Handlers, Stages, HoldersOK, AtWork
  <1>40. QED
    BY StepCases, <1>1, <1>2, <1>3, <1>4, <1>5, <1>6, <1>7, <1>8, <1>9, <1>10, <1>11, <1>12,
       <1>13, <1>14, <1>15, <1>16, <1>17, <1>18, <1>19, <1>20, <1>21, <1>22, <1>23, <1>24,
       <1>25, <1>26, <1>27, <1>28, <1>29, <1>30, <1>31, <1>32, <1>33, <1>34, <1>35, <1>36,
       <1>37, <1>38, <1>39

(* How a step moves the slots: one is taken by a request that was not at work and
   then is, given back by one that was, or none moves. *)
SlotsStay == jobSem' = jobSem /\ \A q \in Requests : AtWork(q)' <=> AtWork(q)

SlotTaken(r) == /\ jobSem' = jobSem + 1 /\ ~AtWork(r)
                /\ \A q \in Requests : AtWork(q)' <=> (AtWork(q) \/ q = r)

SlotGiven(r) == /\ jobSem' = jobSem - 1 /\ AtWork(r)
                /\ \A q \in Requests : AtWork(q)' <=> (AtWork(q) /\ q # r)

SlotsMove == SlotsStay \/ \E r \in Requests : SlotTaken(r) \/ SlotGiven(r)

(* A step takes or gives back one slot at most. *)
LEMMA NextSlotsMove ==
  ASSUME ServerTypes, HoldersOK, Next
  PROVE  SlotsMove
  <1> USE DEF serverVars, wireVars, workerVars
  <1>1. ASSUME NEW j \in Jobs, Connected(j) PROVE SlotsMove
    BY <1>1 DEF Connected, RunGoto, RunAt, Call, SlotsMove, SlotsStay, AtWork
  <1>2. ASSUME NEW j \in Jobs, NeverReady(j) PROVE SlotsMove
    BY <1>2 DEF NeverReady, RunGoto, RunAt, Letting, SlotsMove, SlotsStay, AtWork
  <1>3. ASSUME NEW j \in Jobs, Answered(j) PROVE SlotsMove
    BY <1>3 DEF Answered, RunAt, Call, SlotsMove, SlotsStay, AtWork
  <1>4. ASSUME NEW j \in Jobs, Refused(j) PROVE SlotsMove
    BY <1>4 DEF Refused, RunGoto, RunAt, Letting, Call, SlotsMove, SlotsStay, AtWork
  <1>5. ASSUME NEW j \in Jobs, TimedOut(j) PROVE SlotsMove
    BY <1>5 DEF TimedOut, RunGoto, RunAt, Letting, HungUp, Call, SlotsMove, SlotsStay, AtWork
  <1>6. ASSUME NEW j \in Jobs, InvalidLength(j) PROVE SlotsMove
    BY <1>6 DEF InvalidLength, RunGoto, RunAt, Letting, HungUp, Call, SlotsMove, SlotsStay,
       AtWork
  <1>7. ASSUME NEW j \in Jobs, PutReads(j) PROVE SlotsMove
    BY <1>7 DEF PutReads, RunAt, SlotsMove, SlotsStay, AtWork
  <1>8. ASSUME NEW j \in Jobs, PutEnds(j) PROVE SlotsMove
    BY <1>8 DEF PutEnds, RunGoto, RunAt, SlotsMove, SlotsStay, AtWork
  <1>9. ASSUME NEW j \in Jobs, PutFails(j) PROVE SlotsMove
    BY <1>9 DEF PutFails, RunGoto, RunAt, SlotsMove, SlotsStay, AtWork
  <1>10. ASSUME NEW j \in Jobs, AskCancel(j) PROVE SlotsMove
    BY <1>10 DEF AskCancel, Released, Releasing, SlotsMove, SlotsStay, AtWork
  <1>11. ASSUME NEW j \in Jobs, LetGo(j) PROVE SlotsMove
    BY <1>11 DEF LetGo, RunGoto, Released, Releasing, RunAt, SlotsMove, SlotsStay, AtWork
  <1>12. ASSUME NEW j \in Jobs, BookBreaks(j) PROVE SlotsMove
    BY <1>12 DEF BookBreaks, SlotsMove, SlotsStay, AtWork
  <1>13. ASSUME NEW j \in Jobs, Crash(j) PROVE SlotsMove
    BY <1>13 DEF Crash, RunGoto, Over, SlotsMove, SlotsStay, AtWork
  <1>14. ASSUME NEW r \in Requests, PumpReads(r) PROVE SlotsMove
    BY <1>14 DEF PumpReads, SlotsMove, SlotsStay, AtWork
  <1>15. ASSUME NEW r \in Requests, PumpWrites(r) PROVE SlotsMove
    BY <1>15 DEF PumpWrites, SlotsMove, SlotsStay, AtWork
  <1>16. ASSUME NEW r \in Requests, PumpEnds(r) PROVE SlotsMove
    BY <1>16 DEF PumpEnds, SourceEnd, BodyEnd, SlotsMove, SlotsStay, AtWork
  <1>17. ASSUME NEW r \in Requests, PumpStops(r) PROVE SlotsMove
    BY <1>17 DEF PumpStops, SlotsMove, SlotsStay, AtWork
  <1>18. ASSUME NEW r \in Requests, BridgeReads(r) PROVE SlotsMove
    BY <1>18 DEF BridgeReads, BridgeRuns, SlotsMove, SlotsStay, AtWork
  <1>19. ASSUME NEW r \in Requests, BridgeWrites(r) PROVE SlotsMove
    BY <1>19 DEF BridgeWrites, BridgeRuns, SlotsMove, SlotsStay, AtWork
  <1>20. ASSUME NEW r \in Requests, BridgeCloses(r) PROVE SlotsMove
    BY <1>20 DEF BridgeCloses, BridgeRuns, AllRead, SlotsMove, SlotsStay, AtWork
  <1>21. ASSUME NEW r \in Requests, BridgeFails(r) PROVE SlotsMove
    BY <1>21 DEF BridgeFails, BridgeRuns, OnCatch, SlotsMove, SlotsStay, AtWork
  <1>22. ASSUME NEW r \in Requests, CancelSettles(r) PROVE SlotsMove
    BY <1>22 DEF CancelSettles, SlotsMove, SlotsStay, AtWork
  <1>23. ASSUME NEW r \in Requests, BridgeDone(r) PROVE SlotsMove
    BY <1>23 DEF BridgeDone, SlotsMove, SlotsStay, AtWork
  <1>24. ASSUME NEW r \in Requests, ConnectionLost(r) PROVE SlotsMove
    BY <1>24 DEF ConnectionLost, SlotsMove, SlotsStay, AtWork
  <1>25. ASSUME NEW r \in Requests, ReadPart(r), UNCHANGED <<kind, workerVars>> PROVE SlotsMove
    BY <1>25 DEF ReadPart, Parsing, At, ServerTypes, Handlers, Stages, HoldersOK, SlotsMove,
       SlotsStay, AtWork
  <1>26. ASSUME NEW r \in Requests, ParseFails(r), UNCHANGED <<kind, workerVars>> PROVE SlotsMove
    BY <1>26 DEF ParseFails, Parsing, At, ServerTypes, Handlers, Stages, HoldersOK, SlotsMove,
       SlotsStay, AtWork
  <1>27. ASSUME NEW r \in Requests, Parsed(r), UNCHANGED <<kind, workerVars>> PROVE SlotsMove
    BY <1>27 DEF Parsed, Parsing, CleanAfterRename, At, ServerTypes, Handlers, Stages,
       HoldersOK, SlotsMove, SlotsStay, AtWork
  <1>28. ASSUME NEW r \in Requests, AcquireJobSlot(r), UNCHANGED <<kind, workerVars>> PROVE SlotsMove
    BY <1>28 DEF AcquireJobSlot, At, ServerTypes, Handlers, Stages, HoldersOK, SlotsMove,
       SlotsStay, AtWork, SlotTaken
  <1>29. ASSUME NEW r \in Requests, NoFreeSlot(r), UNCHANGED <<kind, workerVars>> PROVE SlotsMove
    BY <1>29 DEF NoFreeSlot, Goto, At, ServerTypes, Handlers, Stages, HoldersOK, SlotsMove,
       SlotsStay, AtWork
  <1>30. ASSUME NEW r \in Requests, WorkDone(r), UNCHANGED <<kind, workerVars>> PROVE SlotsMove
    BY <1>30 DEF WorkDone, At, ServerTypes, Handlers, Stages, HoldersOK, SlotsMove, SlotsStay,
       AtWork
  <1>31. ASSUME NEW r \in Requests, WorkFails(r), UNCHANGED <<kind, workerVars>> PROVE SlotsMove
    BY <1>31 DEF WorkFails, At, ServerTypes, Handlers, Stages, HoldersOK, SlotsMove, SlotsStay,
       AtWork
  <1>32. ASSUME NEW r \in Requests, StreamHeader(r), UNCHANGED <<kind, workerVars>> PROVE SlotsMove
    BY <1>32 DEF StreamHeader, At, ServerTypes, Handlers, Stages, HoldersOK, SlotsMove,
       SlotsStay, AtWork
  <1>33. ASSUME NEW r \in Requests, StreamChunk(r), UNCHANGED <<kind, workerVars>> PROVE SlotsMove
    BY <1>33 DEF StreamChunk, At, ServerTypes, Handlers, Stages, HoldersOK, SlotsMove,
       SlotsStay, AtWork
  <1>34. ASSUME NEW r \in Requests, StreamEnds(r), UNCHANGED <<kind, workerVars>> PROVE SlotsMove
    BY <1>34 DEF StreamEnds, At, ServerTypes, Handlers, Stages, HoldersOK, SlotsMove, SlotsStay,
       AtWork
  <1>35. ASSUME NEW r \in Requests, StreamBreaks(r), UNCHANGED <<kind, workerVars>> PROVE SlotsMove
    BY <1>35 DEF StreamBreaks, At, ServerTypes, Handlers, Stages, HoldersOK, SlotsMove,
       SlotsStay, AtWork
  <1>36. ASSUME NEW r \in Requests, ReleaseJobSlot(r), UNCHANGED <<kind, workerVars>> PROVE SlotsMove
    BY <1>36 DEF ReleaseJobSlot, At, ServerTypes, Handlers, Stages, HoldersOK, SlotsMove,
       SlotsStay, AtWork, SlotGiven
  <1>37. ASSUME NEW r \in Requests, WriteError(r), UNCHANGED <<kind, workerVars>> PROVE SlotsMove
    BY <1>37 DEF WriteError, Return, ErrorStatus, At, ServerTypes, Handlers, Stages, HoldersOK,
       SlotsMove, SlotsStay, AtWork
  <1>38. ASSUME NEW r \in Requests, Finish(r), UNCHANGED <<kind, workerVars>> PROVE SlotsMove
    BY <1>38 DEF Finish, Return, At, ServerTypes, Handlers, Stages, HoldersOK, SlotsMove,
       SlotsStay, AtWork
  <1>39. ASSUME NEW r \in Requests, Expire(r), UNCHANGED <<kind, workerVars>> PROVE SlotsMove
    BY <1>39 DEF Expire, At, ServerTypes, Handlers, Stages, HoldersOK, SlotsMove, SlotsStay,
       AtWork
  <1>40. QED
    BY StepCases, <1>1, <1>2, <1>3, <1>4, <1>5, <1>6, <1>7, <1>8, <1>9, <1>10, <1>11, <1>12,
       <1>13, <1>14, <1>15, <1>16, <1>17, <1>18, <1>19, <1>20, <1>21, <1>22, <1>23, <1>24,
       <1>25, <1>26, <1>27, <1>28, <1>29, <1>30, <1>31, <1>32, <1>33, <1>34, <1>35, <1>36,
       <1>37, <1>38, <1>39

LEMMA NextSlots ==
  ASSUME ServerTypes, SlotsFollowWork, SlotsMove
  PROVE  SlotsFollowWork'
  <1> DEFINE W == {r \in Requests : AtWork(r)}
  <1>1. IsFiniteSet(W) /\ jobSem = Cardinality(W)
    BY ServerAssumption, FS_Subset DEF SlotsFollowWork
  <1>2. Cardinality(W) \in Nat
    BY <1>1, FS_CardinalityType
  <1>3. CASE SlotsStay
    <2>1. W' = W
      BY <1>3 DEF SlotsStay
    <2> QED
      BY <1>1, <1>3, <2>1 DEF SlotsStay, SlotsFollowWork
  <1>4. ASSUME NEW r \in Requests, SlotTaken(r) PROVE SlotsFollowWork'
    <2>1. W' = W \cup {r} /\ r \notin W
      BY <1>4 DEF SlotTaken
    <2>2. Cardinality(W') = Cardinality(W) + 1
      BY <1>1, <2>1, FS_AddElement
    <2> QED
      BY <1>1, <1>4, <2>2 DEF SlotTaken, SlotsFollowWork
  <1>5. ASSUME NEW r \in Requests, SlotGiven(r) PROVE SlotsFollowWork'
    <2>1. W' = W \ {r} /\ r \in W
      BY <1>5 DEF SlotGiven
    <2>2. Cardinality(W') = Cardinality(W) - 1
      BY <1>1, <2>1, FS_RemoveElement
    <2> QED
      BY <1>1, <1>5, <2>2 DEF SlotGiven, SlotsFollowWork
  <1> QED
    BY <1>3, <1>4, <1>5 DEF SlotsMove

(* A pump is started once, and ends its body once. *)
LEMMA NextPumps ==
  ASSUME ServerTypes, WorkerTypes, PumpsOK, Next
  PROVE  PumpsOK'
  <1> USE DEF serverVars, wireVars, workerVars
  <1>1. ASSUME NEW j \in Jobs, Connected(j) PROVE PumpsOK'
    <2>1. PICK q \in Requests : q = Call(j)
      BY CallTypes
    <2>2. /\ pump' = [pump EXCEPT ![q] = "reading"] /\ pump[q] = "none"
          /\ up' = up /\ RunAt(j, "asking")' /\ \A i \in Jobs : run'[i].path = run[i].path
          /\ \A i \in Jobs \ {j} : run'[i] = run[i]
      BY <1>1, <2>1 DEF Connected, RunGoto, RunAt, WorkerTypes, Fibres, PumpsOK
    <2>3. \A i \in Jobs \ {j} : q # Process(i) /\ q # Convert(i)
      BY <2>1 DEF Call, Process, Convert
    <2>4. \A r \in Requests : up'[r].end # "open" => pump'[r] = "ended"
      BY <2>2 DEF PumpsOK, WorkerTypes
    <2>5. ASSUME NEW i \in Jobs, RunAt(i, "connecting")'
          PROVE  pump'[Call(i)'] = "none" /\ pump'[Process(i)] = "none"
      <3>1. i # j /\ Call(i)' = Call(i) /\ RunAt(i, "connecting")
        BY <2>2, <2>5 DEF RunAt, Call
      <3>2. Call(i) \in {Convert(i), Process(i)} /\ Call(i) \in Requests /\ Process(i) \in Requests
        BY CallTypes, RequestTypes
      <3> QED
        BY <2>2, <2>3, <3>1, <3>2 DEF PumpsOK, WorkerTypes
    <2>6. ASSUME NEW i \in Conversions, run'[i].path = "convert", RunAt(i, "asking")'
          PROVE  pump'[Process(i)] = "none"
      <3>1. i \in Jobs /\ Process(i) \in Requests /\ run[i].path = "convert"
        BY <2>2, <2>6, RequestTypes DEF Jobs
      <3>2. q # Process(i)
        BY <2>1, <2>3, <3>1, CallTypes DEF Convert, Process
      <3>3. pump[Process(i)] = "none"
        BY <1>1, <2>2, <2>6, <3>1 DEF Connected, PumpsOK, RunAt
      <3> QED
        BY <2>2, <3>1, <3>2, <3>3 DEF WorkerTypes
    <2> QED
      BY <2>4, <2>5, <2>6 DEF PumpsOK
  <1>2. ASSUME NEW j \in Jobs, NeverReady(j) PROVE PumpsOK'
    BY <1>2, CallTypes, RequestTypes DEF NeverReady, RunGoto, RunAt, Letting, ServerTypes,
       WorkerTypes, Bodies, Fibres, PumpsOK, Call
  <1>3. ASSUME NEW j \in Jobs, Answered(j) PROVE PumpsOK'
    <2>1. /\ up' = up /\ pump' = pump /\ \A i \in Jobs \ {j} : run'[i] = run[i]
          /\ RunAt(j, "connecting")' => run[j].path = "convert" /\ run'[j].path = "process"
          /\ RunAt(j, "asking") /\ ~RunAt(j, "asking")'
      BY <1>3, CallTypes DEF Answered, RunAt, WorkerTypes, Fibres
    <2>2. ASSUME NEW i \in Jobs, RunAt(i, "connecting")'
          PROVE  pump[Call(i)'] = "none" /\ pump[Process(i)] = "none"
      <3>1. CASE i = j
        <4>1. j \in Conversions /\ Call(j)' = Process(j)
          BY <2>1, <2>2, <3>1 DEF WorkerTypes, Call, Process
        <4> QED
          BY <2>1, <2>2, <3>1, <4>1 DEF PumpsOK
      <3>2. CASE i # j
        BY <2>1, <2>2, <3>2 DEF PumpsOK, RunAt, Call
      <3> QED
        BY <3>1, <3>2
    <2>3. \A i \in Conversions : run'[i].path = "convert" /\ RunAt(i, "asking")' =>
            pump[Process(i)] = "none"
      BY <2>1 DEF PumpsOK, RunAt, Jobs
    <2> QED
      BY <2>1, <2>2, <2>3 DEF PumpsOK
  <1>4. ASSUME NEW j \in Jobs, Refused(j) PROVE PumpsOK'
    BY <1>4, CallTypes, RequestTypes DEF Refused, RunGoto, RunAt, Letting, Call, ServerTypes,
       WorkerTypes, Bodies, Fibres, PumpsOK
  <1>5. ASSUME NEW j \in Jobs, TimedOut(j) PROVE PumpsOK'
    BY <1>5, CallTypes, RequestTypes DEF TimedOut, RunGoto, RunAt, Letting, HungUp, Call,
       ServerTypes, WorkerTypes, Bodies, Fibres, PumpsOK
  <1>6. ASSUME NEW j \in Jobs, InvalidLength(j) PROVE PumpsOK'
    BY <1>6, CallTypes, RequestTypes DEF InvalidLength, RunGoto, RunAt, Letting, HungUp, Call,
       ServerTypes, WorkerTypes, Bodies, Fibres, PumpsOK
  <1>7. ASSUME NEW j \in Jobs, PutReads(j) PROVE PumpsOK'
    BY <1>7 DEF PutReads, RunAt, ServerTypes, WorkerTypes, Bodies, Fibres, PumpsOK, Call
  <1>8. ASSUME NEW j \in Jobs, PutEnds(j) PROVE PumpsOK'
    BY <1>8 DEF PutEnds, RunGoto, RunAt, ServerTypes, WorkerTypes, Bodies, Fibres, PumpsOK, Call
  <1>9. ASSUME NEW j \in Jobs, PutFails(j) PROVE PumpsOK'
    BY <1>9 DEF PutFails, RunGoto, RunAt, ServerTypes, WorkerTypes, Bodies, Fibres, PumpsOK, Call
  <1>10. ASSUME NEW j \in Jobs, AskCancel(j) PROVE PumpsOK'
    BY <1>10 DEF AskCancel, Released, Releasing, ServerTypes, WorkerTypes, Bodies, Fibres, PumpsOK,
       RunAt, Call
  <1>11. ASSUME NEW j \in Jobs, LetGo(j) PROVE PumpsOK'
    BY <1>11 DEF LetGo, RunGoto, Released, Releasing, RunAt, ServerTypes, WorkerTypes, Bodies,
       Fibres, PumpsOK, Call
  <1>12. ASSUME NEW j \in Jobs, BookBreaks(j) PROVE PumpsOK'
    BY <1>12 DEF BookBreaks, ServerTypes, WorkerTypes, Bodies, Fibres, PumpsOK, RunAt, Call
  <1>13. ASSUME NEW j \in Jobs, Crash(j) PROVE PumpsOK'
    <2>1. /\ up' = up /\ \A i \in Jobs \ {j} : run'[i] = run[i]
          /\ \A r \in Requests : pump'[r] = (IF r[1] = j THEN "ended" ELSE pump[r])
          /\ run'[j].at = "dead"
      BY <1>13 DEF Crash, RunGoto, WorkerTypes, Fibres
    <2>2. \A r \in Requests : up'[r].end # "open" => pump'[r] = "ended"
      BY <2>1 DEF PumpsOK
    <2>3. ASSUME NEW i \in Jobs, RunAt(i, "connecting")'
          PROVE  pump'[Call(i)'] = "none" /\ pump'[Process(i)] = "none"
      <3>1. i # j /\ Call(i)' = Call(i) /\ RunAt(i, "connecting")
        BY <2>1, <2>3 DEF RunAt, Call
      <3>2. /\ Call(i) \in Requests /\ Process(i) \in Requests
            /\ Call(i)[1] = i /\ Process(i)[1] = i
        BY CallTypes, RequestTypes DEF Process
      <3> QED
        BY <2>1, <3>1, <3>2 DEF PumpsOK
    <2>4. ASSUME NEW i \in Conversions, run'[i].path = "convert", RunAt(i, "asking")'
          PROVE  pump'[Process(i)] = "none"
      <3>1. i # j /\ i \in Jobs /\ run'[i] = run[i] /\ Process(i) \in Requests /\ Process(i)[1] = i
        BY <2>1, <2>4, RequestTypes DEF RunAt, Jobs, Process
      <3> QED
        BY <2>1, <2>4, <3>1 DEF PumpsOK, RunAt
    <2> QED
      BY <2>2, <2>3, <2>4 DEF PumpsOK
  <1>14. ASSUME NEW r \in Requests, PumpReads(r) PROVE PumpsOK'
    BY <1>14 DEF PumpReads, ServerTypes, WorkerTypes, Bodies, Fibres, PumpsOK, RunAt, Call
  <1>15. ASSUME NEW r \in Requests, PumpWrites(r) PROVE PumpsOK'
    BY <1>15 DEF PumpWrites, ServerTypes, WorkerTypes, Bodies, Fibres, PumpsOK, RunAt, Call
  <1>16. ASSUME NEW r \in Requests, PumpEnds(r) PROVE PumpsOK'
    BY <1>16 DEF PumpEnds, SourceEnd, BodyEnd, ServerTypes, WorkerTypes, Bodies, Fibres, PumpsOK,
       RunAt, Call
  <1>17. ASSUME NEW r \in Requests, PumpStops(r) PROVE PumpsOK'
    BY <1>17 DEF PumpStops, ServerTypes, WorkerTypes, Bodies, Fibres, PumpsOK, RunAt, Call
  <1>18. ASSUME NEW r \in Requests, BridgeReads(r) PROVE PumpsOK'
    BY <1>18 DEF BridgeReads, BridgeRuns, ServerTypes, WorkerTypes, Bodies, Fibres, PumpsOK, RunAt,
       Call
  <1>19. ASSUME NEW r \in Requests, BridgeWrites(r) PROVE PumpsOK'
    BY <1>19 DEF BridgeWrites, BridgeRuns, ServerTypes, WorkerTypes, Bodies, Fibres, PumpsOK, RunAt,
       Call
  <1>20. ASSUME NEW r \in Requests, BridgeCloses(r) PROVE PumpsOK'
    BY <1>20 DEF BridgeCloses, BridgeRuns, AllRead, ServerTypes, WorkerTypes, Bodies, Fibres,
       PumpsOK, RunAt, Call
  <1>21. ASSUME NEW r \in Requests, BridgeFails(r) PROVE PumpsOK'
    BY <1>21 DEF BridgeFails, BridgeRuns, OnCatch, ServerTypes, WorkerTypes, Bodies, Fibres,
       PumpsOK, RunAt, Call
  <1>22. ASSUME NEW r \in Requests, CancelSettles(r) PROVE PumpsOK'
    BY <1>22 DEF CancelSettles, ServerTypes, WorkerTypes, Bodies, Fibres, PumpsOK, RunAt, Call
  <1>23. ASSUME NEW r \in Requests, BridgeDone(r) PROVE PumpsOK'
    BY <1>23 DEF BridgeDone, ServerTypes, WorkerTypes, Bodies, Fibres, PumpsOK, RunAt, Call
  <1>24. ASSUME NEW r \in Requests, ConnectionLost(r) PROVE PumpsOK'
    BY <1>24 DEF ConnectionLost, ServerTypes, WorkerTypes, Bodies, Fibres, PumpsOK, RunAt, Call
  <1>25. ASSUME NEW r \in Requests, ReadPart(r), UNCHANGED <<kind, workerVars>> PROVE PumpsOK'
    BY <1>25 DEF ReadPart, Parsing, At, ServerTypes, WorkerTypes, Bodies, Fibres, PumpsOK, RunAt,
       Call
  <1>26. ASSUME NEW r \in Requests, ParseFails(r), UNCHANGED <<kind, workerVars>> PROVE PumpsOK'
    BY <1>26 DEF ParseFails, Parsing, At, ServerTypes, WorkerTypes, Bodies, Fibres, PumpsOK, RunAt,
       Call
  <1>27. ASSUME NEW r \in Requests, Parsed(r), UNCHANGED <<kind, workerVars>> PROVE PumpsOK'
    BY <1>27 DEF Parsed, Parsing, CleanAfterRename, At, ServerTypes, WorkerTypes, Bodies, Fibres,
       PumpsOK, RunAt, Call
  <1>28. ASSUME NEW r \in Requests, AcquireJobSlot(r), UNCHANGED <<kind, workerVars>> PROVE PumpsOK'
    BY <1>28 DEF AcquireJobSlot, At, ServerTypes, WorkerTypes, Bodies, Fibres, PumpsOK, RunAt, Call
  <1>29. ASSUME NEW r \in Requests, NoFreeSlot(r), UNCHANGED <<kind, workerVars>> PROVE PumpsOK'
    BY <1>29 DEF NoFreeSlot, Goto, At, ServerTypes, WorkerTypes, Bodies, Fibres, PumpsOK, RunAt,
       Call
  <1>30. ASSUME NEW r \in Requests, WorkDone(r), UNCHANGED <<kind, workerVars>> PROVE PumpsOK'
    BY <1>30 DEF WorkDone, At, ServerTypes, WorkerTypes, Bodies, Fibres, PumpsOK, RunAt, Call
  <1>31. ASSUME NEW r \in Requests, WorkFails(r), UNCHANGED <<kind, workerVars>> PROVE PumpsOK'
    BY <1>31 DEF WorkFails, At, ServerTypes, WorkerTypes, Bodies, Fibres, PumpsOK, RunAt, Call
  <1>32. ASSUME NEW r \in Requests, StreamHeader(r), UNCHANGED <<kind, workerVars>> PROVE PumpsOK'
    BY <1>32 DEF StreamHeader, At, ServerTypes, WorkerTypes, Bodies, Fibres, PumpsOK, RunAt, Call
  <1>33. ASSUME NEW r \in Requests, StreamChunk(r), UNCHANGED <<kind, workerVars>> PROVE PumpsOK'
    BY <1>33 DEF StreamChunk, At, ServerTypes, WorkerTypes, Bodies, Fibres, PumpsOK, RunAt, Call
  <1>34. ASSUME NEW r \in Requests, StreamEnds(r), UNCHANGED <<kind, workerVars>> PROVE PumpsOK'
    BY <1>34 DEF StreamEnds, At, ServerTypes, WorkerTypes, Bodies, Fibres, PumpsOK, RunAt, Call
  <1>35. ASSUME NEW r \in Requests, StreamBreaks(r), UNCHANGED <<kind, workerVars>> PROVE PumpsOK'
    BY <1>35 DEF StreamBreaks, At, ServerTypes, WorkerTypes, Bodies, Fibres, PumpsOK, RunAt, Call
  <1>36. ASSUME NEW r \in Requests, ReleaseJobSlot(r), UNCHANGED <<kind, workerVars>> PROVE PumpsOK'
    BY <1>36 DEF ReleaseJobSlot, At, ServerTypes, WorkerTypes, Bodies, Fibres, PumpsOK, RunAt, Call
  <1>37. ASSUME NEW r \in Requests, WriteError(r), UNCHANGED <<kind, workerVars>> PROVE PumpsOK'
    BY <1>37 DEF WriteError, Return, ErrorStatus, At, ServerTypes, WorkerTypes, Bodies, Fibres,
       PumpsOK, RunAt, Call
  <1>38. ASSUME NEW r \in Requests, Finish(r), UNCHANGED <<kind, workerVars>> PROVE PumpsOK'
    BY <1>38 DEF Finish, Return, At, ServerTypes, WorkerTypes, Bodies, Fibres, PumpsOK, RunAt, Call
  <1>39. ASSUME NEW r \in Requests, Expire(r), UNCHANGED <<kind, workerVars>> PROVE PumpsOK'
    BY <1>39 DEF Expire, At, ServerTypes, WorkerTypes, Bodies, Fibres, PumpsOK, RunAt, Call
  <1>40. QED
    BY StepCases, <1>1, <1>2, <1>3, <1>4, <1>5, <1>6, <1>7, <1>8, <1>9, <1>10, <1>11, <1>12,
       <1>13, <1>14, <1>15, <1>16, <1>17, <1>18, <1>19, <1>20, <1>21, <1>22, <1>23, <1>24,
       <1>25, <1>26, <1>27, <1>28, <1>29, <1>30, <1>31, <1>32, <1>33, <1>34, <1>35, <1>36,
       <1>37, <1>38, <1>39

(* Only what ended whole is passed on as whole. *)
LEMMA NextWhole ==
  ASSUME ServerTypes, WorkerTypes, HoldersOK, PumpsOK, WholeOK, Next
  PROVE  WholeOK'
  <1> USE DEF serverVars, wireVars, workerVars
  <1>1. ASSUME NEW j \in Jobs, Connected(j) PROVE WholeOK'
    BY <1>1, RequestTypes DEF Connected, RunGoto, RunAt, Call, ServerTypes, WorkerTypes, Handlers,
       Bodies, Replies, Streams, HoldersOK, AtWork, PumpsOK, WholeOK, ReplyOpen, Read
  <1>2. ASSUME NEW j \in Jobs, NeverReady(j) PROVE WholeOK'
    BY <1>2, RequestTypes DEF NeverReady, RunGoto, RunAt, Letting, ServerTypes, WorkerTypes,
       Handlers, Bodies, Replies, Streams, HoldersOK, AtWork, PumpsOK, WholeOK, ReplyOpen, Read
  <1>3. ASSUME NEW j \in Jobs, Answered(j) PROVE WholeOK'
    BY <1>3, RequestTypes DEF Answered, RunAt, Call, ServerTypes, WorkerTypes, Handlers, Bodies,
       Replies, Streams, HoldersOK, AtWork, PumpsOK, WholeOK, ReplyOpen, Read
  <1>4. ASSUME NEW j \in Jobs, Refused(j) PROVE WholeOK'
    BY <1>4, RequestTypes DEF Refused, RunGoto, RunAt, Letting, Call, ServerTypes, WorkerTypes,
       Handlers, Bodies, Replies, Streams, HoldersOK, AtWork, PumpsOK, WholeOK, ReplyOpen, Read
  <1>5. ASSUME NEW j \in Jobs, TimedOut(j) PROVE WholeOK'
    BY <1>5, RequestTypes DEF TimedOut, RunGoto, RunAt, Letting, HungUp, Call, ServerTypes,
       WorkerTypes, Handlers, Bodies, Replies, Streams, HoldersOK, AtWork, PumpsOK, WholeOK,
       ReplyOpen, Read
  <1>6. ASSUME NEW j \in Jobs, InvalidLength(j) PROVE WholeOK'
    BY <1>6, RequestTypes DEF InvalidLength, RunGoto, RunAt, Letting, HungUp, Call, ServerTypes,
       WorkerTypes, Handlers, Bodies, Replies, Streams, HoldersOK, AtWork, PumpsOK, WholeOK,
       ReplyOpen, Read
  <1>7. ASSUME NEW j \in Jobs, PutReads(j) PROVE WholeOK'
    BY <1>7, RequestTypes DEF PutReads, RunAt, ServerTypes, WorkerTypes, Handlers, Bodies, Replies,
       Streams, HoldersOK, AtWork, PumpsOK, WholeOK, ReplyOpen, Read
  <1>8. ASSUME NEW j \in Jobs, PutEnds(j) PROVE WholeOK'
    BY <1>8, RequestTypes DEF PutEnds, RunGoto, RunAt, ServerTypes, WorkerTypes, Handlers, Bodies,
       Replies, Streams, HoldersOK, AtWork, PumpsOK, WholeOK, ReplyOpen, Read
  <1>9. ASSUME NEW j \in Jobs, PutFails(j) PROVE WholeOK'
    BY <1>9, RequestTypes DEF PutFails, RunGoto, RunAt, ServerTypes, WorkerTypes, Handlers, Bodies,
       Replies, Streams, HoldersOK, AtWork, PumpsOK, WholeOK, ReplyOpen, Read
  <1>10. ASSUME NEW j \in Jobs, AskCancel(j) PROVE WholeOK'
    BY <1>10, RequestTypes DEF AskCancel, Released, Releasing, ServerTypes, WorkerTypes, Handlers,
       Bodies, Replies, Streams, HoldersOK, AtWork, PumpsOK, WholeOK, ReplyOpen, Read
  <1>11. ASSUME NEW j \in Jobs, LetGo(j) PROVE WholeOK'
    BY <1>11, RequestTypes DEF LetGo, RunGoto, Released, Releasing, RunAt, ServerTypes, WorkerTypes,
       Handlers, Bodies, Replies, Streams, HoldersOK, AtWork, PumpsOK, WholeOK, ReplyOpen, Read
  <1>12. ASSUME NEW j \in Jobs, BookBreaks(j) PROVE WholeOK'
    BY <1>12, RequestTypes DEF BookBreaks, ServerTypes, WorkerTypes, Handlers, Bodies, Replies,
       Streams, HoldersOK, AtWork, PumpsOK, WholeOK, ReplyOpen, Read
  <1>13. ASSUME NEW j \in Jobs, Crash(j) PROVE WholeOK'
    BY <1>13, RequestTypes DEF Crash, RunGoto, Over, ServerTypes, WorkerTypes, Handlers, Bodies,
       Replies, Streams, HoldersOK, AtWork, PumpsOK, WholeOK, ReplyOpen, Read
  <1>14. ASSUME NEW r \in Requests, PumpReads(r) PROVE WholeOK'
    <2>1. srv' = srv /\ kind' = kind /\ up' = up /\ down' = down /\ stored' = stored
      BY <1>14 DEF PumpReads
    <2>2. \A q \in Requests : mid'[q].end = mid[q].end
      BY <1>14 DEF PumpReads, WorkerTypes, Streams
    <2>3. \A q \in Requests : book[q[1]].left = 0 => book'[q[1]].left = 0
      BY <1>14, RequestTypes DEF PumpReads, WorkerTypes, Books, Jobs
    <2> QED
      BY <2>1, <2>2, <2>3 DEF WholeOK, ReplyOpen, Read, FromBook
  <1>15. ASSUME NEW r \in Requests, PumpWrites(r) PROVE WholeOK'
    BY <1>15, RequestTypes DEF PumpWrites, ServerTypes, WorkerTypes, Handlers, Bodies, Replies,
       Streams, HoldersOK, AtWork, PumpsOK, WholeOK, ReplyOpen, Read
  <1>16. ASSUME NEW r \in Requests, PumpEnds(r) PROVE WholeOK'
    <2>1. /\ srv' = srv /\ kind' = kind /\ down' = down /\ stored' = stored /\ mid' = mid /\ book' = book
          /\ \A q \in Requests \ {r} : up'[q] = up[q]
          /\ up'[r].end = BodyEnd(r) /\ up[r].end = "open"
      BY <1>16 DEF PumpEnds, ServerTypes, Bodies, PumpsOK
    <2>2. \A q \in Requests : Read(q) \/ down[q].end = "whole" => q # r
      BY <2>1 DEF WholeOK
    <2>3. BodyEnd(r) = "end" =>
            IF FromBook(r) THEN book[r[1]].left = 0 ELSE down[Convert(r[1])].end = "whole"
      <3>1. ~FromBook(r) => Convert(r[1]) \in Requests
        BY RequestTypes DEF FromBook, Convert, Process, Jobs
      <3> QED
        BY <3>1 DEF BodyEnd, SourceEnd, WholeOK
    <2> QED
      BY <2>1, <2>2, <2>3 DEF WholeOK, ReplyOpen, Read, FromBook
  <1>17. ASSUME NEW r \in Requests, PumpStops(r) PROVE WholeOK'
    BY <1>17, RequestTypes DEF PumpStops, ServerTypes, WorkerTypes, Handlers, Bodies, Replies,
       Streams, HoldersOK, AtWork, PumpsOK, WholeOK, ReplyOpen, Read
  <1>18. ASSUME NEW r \in Requests, BridgeReads(r) PROVE WholeOK'
    BY <1>18, RequestTypes DEF BridgeReads, BridgeRuns, ServerTypes, WorkerTypes, Handlers, Bodies,
       Replies, Streams, HoldersOK, AtWork, PumpsOK, WholeOK, ReplyOpen, Read
  <1>19. ASSUME NEW r \in Requests, BridgeWrites(r) PROVE WholeOK'
    BY <1>19, RequestTypes DEF BridgeWrites, BridgeRuns, ServerTypes, WorkerTypes, Handlers, Bodies,
       Replies, Streams, HoldersOK, AtWork, PumpsOK, WholeOK, ReplyOpen, Read
  <1>20. ASSUME NEW r \in Requests, BridgeCloses(r) PROVE WholeOK'
    BY <1>20, RequestTypes DEF BridgeCloses, BridgeRuns, AllRead, ServerTypes, WorkerTypes,
       Handlers, Bodies, Replies, Streams, HoldersOK, AtWork, PumpsOK, WholeOK, ReplyOpen, Read
  <1>21. ASSUME NEW r \in Requests, BridgeFails(r) PROVE WholeOK'
    BY <1>21, RequestTypes DEF BridgeFails, BridgeRuns, OnCatch, ServerTypes, WorkerTypes, Handlers,
       Bodies, Replies, Streams, HoldersOK, AtWork, PumpsOK, WholeOK, ReplyOpen, Read
  <1>22. ASSUME NEW r \in Requests, CancelSettles(r) PROVE WholeOK'
    BY <1>22, RequestTypes DEF CancelSettles, ServerTypes, WorkerTypes, Handlers, Bodies, Replies,
       Streams, HoldersOK, AtWork, PumpsOK, WholeOK, ReplyOpen, Read
  <1>23. ASSUME NEW r \in Requests, BridgeDone(r) PROVE WholeOK'
    BY <1>23, RequestTypes DEF BridgeDone, ServerTypes, WorkerTypes, Handlers, Bodies, Replies,
       Streams, HoldersOK, AtWork, PumpsOK, WholeOK, ReplyOpen, Read
  <1>24. ASSUME NEW r \in Requests, ConnectionLost(r) PROVE WholeOK'
    BY <1>24, RequestTypes DEF ConnectionLost, ServerTypes, WorkerTypes, Handlers, Bodies, Replies,
       Streams, HoldersOK, AtWork, PumpsOK, WholeOK, ReplyOpen, Read
  <1>25. ASSUME NEW r \in Requests, ReadPart(r), UNCHANGED <<kind, workerVars>> PROVE WholeOK'
    BY <1>25, RequestTypes DEF ReadPart, Parsing, At, ServerTypes, WorkerTypes, Handlers, Bodies,
       Replies, Streams, HoldersOK, AtWork, PumpsOK, WholeOK, ReplyOpen, Read
  <1>26. ASSUME NEW r \in Requests, ParseFails(r), UNCHANGED <<kind, workerVars>> PROVE WholeOK'
    BY <1>26, RequestTypes DEF ParseFails, Parsing, At, ServerTypes, WorkerTypes, Handlers, Bodies,
       Replies, Streams, HoldersOK, AtWork, PumpsOK, WholeOK, ReplyOpen, Read
  <1>27. ASSUME NEW r \in Requests, Parsed(r), UNCHANGED <<kind, workerVars>> PROVE WholeOK'
    BY <1>27, RequestTypes DEF Parsed, Parsing, CleanAfterRename, At, ServerTypes, WorkerTypes,
       Handlers, Bodies, Replies, Streams, HoldersOK, AtWork, PumpsOK, WholeOK, ReplyOpen, Read
  <1>28. ASSUME NEW r \in Requests, AcquireJobSlot(r), UNCHANGED <<kind, workerVars>> PROVE WholeOK'
    BY <1>28, RequestTypes DEF AcquireJobSlot, At, ServerTypes, WorkerTypes, Handlers, Bodies,
       Replies, Streams, HoldersOK, AtWork, PumpsOK, WholeOK, ReplyOpen, Read
  <1>29. ASSUME NEW r \in Requests, NoFreeSlot(r), UNCHANGED <<kind, workerVars>> PROVE WholeOK'
    BY <1>29, RequestTypes DEF NoFreeSlot, Goto, At, ServerTypes, WorkerTypes, Handlers, Bodies,
       Replies, Streams, HoldersOK, AtWork, PumpsOK, WholeOK, ReplyOpen, Read
  <1>30. ASSUME NEW r \in Requests, WorkDone(r), UNCHANGED <<kind, workerVars>> PROVE WholeOK'
    BY <1>30, RequestTypes DEF WorkDone, At, ServerTypes, WorkerTypes, Handlers, Bodies, Replies,
       Streams, HoldersOK, AtWork, PumpsOK, WholeOK, ReplyOpen, Read
  <1>31. ASSUME NEW r \in Requests, WorkFails(r), UNCHANGED <<kind, workerVars>> PROVE WholeOK'
    BY <1>31, RequestTypes DEF WorkFails, At, ServerTypes, WorkerTypes, Handlers, Bodies, Replies,
       Streams, HoldersOK, AtWork, PumpsOK, WholeOK, ReplyOpen, Read
  <1>32. ASSUME NEW r \in Requests, StreamHeader(r), UNCHANGED <<kind, workerVars>> PROVE WholeOK'
    BY <1>32, RequestTypes DEF StreamHeader, At, ServerTypes, WorkerTypes, Handlers, Bodies,
       Replies, Streams, HoldersOK, AtWork, PumpsOK, WholeOK, ReplyOpen, Read
  <1>33. ASSUME NEW r \in Requests, StreamChunk(r), UNCHANGED <<kind, workerVars>> PROVE WholeOK'
    BY <1>33, RequestTypes DEF StreamChunk, At, ServerTypes, WorkerTypes, Handlers, Bodies, Replies,
       Streams, HoldersOK, AtWork, PumpsOK, WholeOK, ReplyOpen, Read
  <1>34. ASSUME NEW r \in Requests, StreamEnds(r), UNCHANGED <<kind, workerVars>> PROVE WholeOK'
    BY <1>34, RequestTypes DEF StreamEnds, At, ServerTypes, WorkerTypes, Handlers, Bodies, Replies,
       Streams, HoldersOK, AtWork, PumpsOK, WholeOK, ReplyOpen, Read
  <1>35. ASSUME NEW r \in Requests, StreamBreaks(r), UNCHANGED <<kind, workerVars>> PROVE WholeOK'
    BY <1>35, RequestTypes DEF StreamBreaks, At, ServerTypes, WorkerTypes, Handlers, Bodies,
       Replies, Streams, HoldersOK, AtWork, PumpsOK, WholeOK, ReplyOpen, Read
  <1>36. ASSUME NEW r \in Requests, ReleaseJobSlot(r), UNCHANGED <<kind, workerVars>> PROVE WholeOK'
    BY <1>36, RequestTypes DEF ReleaseJobSlot, At, ServerTypes, WorkerTypes, Handlers, Bodies,
       Replies, Streams, HoldersOK, AtWork, PumpsOK, WholeOK, ReplyOpen, Read
  <1>37. ASSUME NEW r \in Requests, WriteError(r), UNCHANGED <<kind, workerVars>> PROVE WholeOK'
    BY <1>37, RequestTypes DEF WriteError, Return, ErrorStatus, At, ServerTypes, WorkerTypes,
       Handlers, Bodies, Replies, Streams, HoldersOK, AtWork, PumpsOK, WholeOK, ReplyOpen, Read
  <1>38. ASSUME NEW r \in Requests, Finish(r), UNCHANGED <<kind, workerVars>> PROVE WholeOK'
    BY <1>38, RequestTypes DEF Finish, Return, At, ServerTypes, WorkerTypes, Handlers, Bodies,
       Replies, Streams, HoldersOK, AtWork, PumpsOK, WholeOK, ReplyOpen, Read
  <1>39. ASSUME NEW r \in Requests, Expire(r), UNCHANGED <<kind, workerVars>> PROVE WholeOK'
    BY <1>39, RequestTypes DEF Expire, At, ServerTypes, WorkerTypes, Handlers, Bodies, Replies,
       Streams, HoldersOK, AtWork, PumpsOK, WholeOK, ReplyOpen, Read
  <1>40. QED
    BY StepCases, <1>1, <1>2, <1>3, <1>4, <1>5, <1>6, <1>7, <1>8, <1>9, <1>10, <1>11, <1>12,
       <1>13, <1>14, <1>15, <1>16, <1>17, <1>18, <1>19, <1>20, <1>21, <1>22, <1>23, <1>24,
       <1>25, <1>26, <1>27, <1>28, <1>29, <1>30, <1>31, <1>32, <1>33, <1>34, <1>35, <1>36,
       <1>37, <1>38, <1>39

(* The slots and the troubles keep to their bounds. *)
LEMMA NextBounds ==
  ASSUME ServerTypes, BoundsOK, Next
  PROVE  BoundsOK'
  <1>1. troubles' \in 0 .. MaxTroubles
    BY PipelineAssumption DEF BoundsOK, Next, Progress, Trouble
  <1>2. jobSem' \in {jobSem, jobSem - 1} \/ (jobSem < MaxConcurrentJobs /\ jobSem' = jobSem + 1)
    BY StepCases DEF Connected, NeverReady, Answered, Refused, TimedOut, InvalidLength,
       PutReads, PutEnds, PutFails, AskCancel, LetGo, BookBreaks, Crash, PumpReads, PumpWrites,
       PumpEnds, PumpStops, BridgeReads, BridgeWrites, BridgeCloses, BridgeFails, CancelSettles,
       BridgeDone, ConnectionLost, ReadPart, ParseFails, Parsed, AcquireJobSlot, NoFreeSlot,
       Goto, WorkDone, WorkFails, StreamHeader, StreamChunk, StreamEnds, StreamBreaks,
       ReleaseJobSlot, WriteError, Finish, Expire, serverVars, workerVars, ServerTypes
  <1> QED
    BY <1>1, <1>2, ServerAssumption DEF BoundsOK, ServerTypes

LEMMA InitInv == Init => Inv
  <1> SUFFICES ASSUME Init PROVE Inv
    OBVIOUS
  <1> USE DEF Init, ServerInit
  <1>1. ServerTypes
    <2>1. NoHandler \in Handlers /\ EmptyBody \in Bodies /\ NoReply \in Replies
      BY ServerAssumption DEF NoHandler, Handlers, Stages, Temporaries, EmptyBody, Bodies, NoReply,
         Replies
    <2> QED
      BY <2>1 DEF ServerTypes
  <1>2. WorkerTypes
    <2>1. PICK queued \in SUBSET Jobs :
            run = [j \in Jobs |-> [at |-> IF j \in queued THEN "connecting" ELSE "dead",
                                   path |-> IF j \in Conversions THEN "convert" ELSE "process"]]
      OBVIOUS
    <2>2. run \in [Jobs -> Fibres]
      BY <2>1 DEF Fibres
    <2>3. \A j \in Jobs : run[j].path = "convert" \/ run[j].at \in {"kept", "lettingGo"} =>
            j \in Conversions
      BY <2>1
    <2>4. NoBridge \in Bridges /\ NoStream \in Streams
      BY DEF NoBridge, Bridges, NoStream, Streams
    <2>5. book \in [Jobs -> Books]
      BY ServerAssumption DEF Books
    <2> QED
      BY <2>2, <2>3, <2>4, <2>5 DEF WorkerTypes
  <1>3. \A r \in Requests : srv[r].at = "none" /\ srv[r].holds = FALSE
    BY DEF NoHandler
  <1>4. SlotsFollowWork
    <2>1. {r \in Requests : AtWork(r)} = {}
      BY <1>3 DEF AtWork
    <2> QED
      BY <2>1, FS_EmptySet DEF SlotsFollowWork
  <1>5. HoldersOK
    BY <1>3 DEF HoldersOK, AtWork
  <1>6. PumpsOK
    <2>1. \A r \in Requests : up[r].end = "open" /\ pump[r] = "none"
      BY DEF EmptyBody
    <2>2. \A j \in Jobs : Call(j) \in Requests /\ Process(j) \in Requests
      BY <1>2, CallTypes, RequestTypes
    <2> QED
      BY <2>1, <2>2 DEF PumpsOK, Jobs
  <1>7. WholeOK
    BY <1>3 DEF WholeOK, ReplyOpen, Read, EmptyBody, NoReply, NoStream
  <1>8. BoundsOK
    BY ServerAssumption, PipelineAssumption DEF BoundsOK
  <1> QED
    BY <1>1, <1>2, <1>4, <1>5, <1>6, <1>7, <1>8 DEF Inv

LEMMA InvUnchanged == Inv /\ UNCHANGED vars => Inv'
  <1> SUFFICES ASSUME Inv, UNCHANGED vars PROVE Inv'
    OBVIOUS
  <1> USE DEF vars, serverVars, wireVars, workerVars
  <1>1. ServerTypes' /\ WorkerTypes' /\ BoundsOK'
    BY DEF Inv, ServerTypes, WorkerTypes, BoundsOK
  <1>2. SlotsFollowWork' /\ HoldersOK'
    BY DEF Inv, SlotsFollowWork, HoldersOK, AtWork
  <1>3. PumpsOK' /\ WholeOK'
    BY DEF Inv, PumpsOK, RunAt, Call, WholeOK, ReplyOpen, Read, FromBook
  <1> QED
    BY <1>1, <1>2, <1>3 DEF Inv

(* The invariant holds in every state of every behaviour. *)
THEOREM Invariance == Spec => []Inv
  <1>1. Inv /\ [Next]_vars => Inv'
    <2> SUFFICES ASSUME Inv, [Next]_vars PROVE Inv'
      OBVIOUS
    <2>1. CASE Next
      BY <2>1, NextServerTypes, NextWorkerTypes, NextBounds, NextHolders, NextSlotsMove, NextSlots,
         NextPumps, NextWhole DEF Inv
    <2>2. CASE UNCHANGED vars
      BY <2>2, InvUnchanged
    <2> QED
      BY <2>1, <2>2
  <1> QED
    BY InitInv, <1>1, PTL DEF Spec, Steps

-----------------------------------------------------------------------------
(* The theorems. *)

(* Every variable keeps its type. *)
THEOREM TypeCorrect == Spec => []TypeOK
  <1>1. Inv => TypeOK
    <2> SUFFICES ASSUME Inv PROVE TypeOK
      OBVIOUS
    <2>1. jobSem \in 0 .. MaxConcurrentJobs
      <3>1. IsFiniteSet({r \in Requests : AtWork(r)})
        BY ServerAssumption, FS_Subset
      <3> QED
        BY <3>1, FS_CardinalityType, ServerAssumption DEF Inv, SlotsFollowWork, ServerTypes, BoundsOK
    <2>2. \A r \in Requests : srv[r] \in Handlers /\ up[r] \in Bodies /\ down[r] \in Replies
      BY DEF Inv, ServerTypes
    <2>3. \A r \in Requests : bridge[r] \in Bridges /\ mid[r] \in Streams
      BY DEF Inv, WorkerTypes
    <2>4. \A r \in Requests :
            /\ srv[r].at \in Stages /\ srv[r].files \cup srv[r].clean \subseteq Temporaries
            /\ srv[r].sent \in 0 .. Chunks
      BY <2>2 DEF Handlers
    <2>5. \A r \in Requests : up[r].end \in {"open", "end", "error"}
      BY <2>2 DEF Bodies
    <2>6. \A r \in Requests :
            down[r].status \in {"none", "ok", "bad"} /\ down[r].end \in {"open", "whole", "cut"}
      BY <2>2 DEF Replies
    <2>7. \A r \in Requests : /\ bridge[r].at \in {"none", "reading", "writing", "closing", "done"}
                              /\ bridge[r].cancel \in {"none", "settling", "settled"}
      BY <2>3 DEF Bridges
    <2>8. \A r \in Requests : mid[r].end \in {"open", "whole", "error"}
      BY <2>3 DEF Streams
    <2>9. \A j \in Jobs : run[j].at \in {"connecting", "asking", "storing", "done", "failed", "dead"}
                                          \cup Releasing
      BY DEF Inv, WorkerTypes, Fibres
    <2> QED
      BY <2>1, <2>4, <2>5, <2>6, <2>7, <2>8, <2>9
         DEF Inv, ServerTypes, WorkerTypes, BoundsOK, TypeOK, Stages, Temporaries
  <1> QED
    BY Invariance, <1>1, PTL

(* No path through a handler leaves a slot behind or gives one back twice. *)
THEOREM SlotsAreNotLost == Spec => []SlotsFollowWork
  <1>1. Inv => SlotsFollowWork
    BY DEF Inv
  <1> QED
    BY Invariance, <1>1, PTL

(* A stream that broke anywhere between R2 and R2 is never stored as a result. *)
THEOREM OnlyWholeIsStored == Spec => []StoredWhole
  <1>1. Inv => StoredWhole
    <2> SUFFICES ASSUME Inv, NEW j \in stored, NEW r \in Requests, r[1] = j
                 PROVE  /\ down[r].end = "whole" /\ up[r].end = "end"
                        /\ FromBook(r) => book[j].left = 0
      BY DEF StoredWhole
    <2>1. j \in Jobs /\ Process(j) \in Requests
      BY RequestTypes DEF Inv, WorkerTypes
    <2>2. down[Process(j)].end = "whole" /\ up[Process(j)].end = "end"
      BY <2>1 DEF Inv, WholeOK
    <2>3. CASE r = Process(j)
      BY <2>2, <2>3 DEF Inv, WholeOK
    <2>4. CASE r = Convert(j) /\ j \in Conversions
      <3>1. ~FromBook(Process(j)) /\ Process(j)[1] = j
        BY <2>4, PipelineAssumption DEF FromBook, Process
      <3>2. down[r].end = "whole"
        BY <2>1, <2>2, <2>4, <3>1 DEF Inv, WholeOK
      <3> QED
        BY <3>2 DEF Inv, WholeOK
    <2> QED
      BY <2>3, <2>4, RequestTypes
  <1> QED
    BY Invariance, <1>1, PTL
=============================================================================
