--------------------------- MODULE ConverterServer ---------------------------
(***************************************************************************)
(* The converter container: an HTTP server that runs Calibre and kepubify,    *)
(* at most MaxConcurrentJobs of them at a time.  A request is read into        *)
(* temporary files, waits for a slot, works, and streams its result; a         *)
(* conversion keeps its slot until the last byte of the result is written.     *)
(*                                                                         *)
(* The wire to the Worker carries one chunk at a time each way, so that a      *)
(* writer waits for its reader.  A request's context ends when the Worker      *)
(* closes the connection or the time is up; a write that waits is ended by the  *)
(* former only.                                                             *)
(* A definition named Mutant... is a plausible slip in the definition that     *)
(* follows it; no specification uses it.                                      *)
(***************************************************************************)
EXTENDS Integers, FiniteSets

CONSTANTS
  Requests,            \* requests made in a behaviour
  MaxConcurrentJobs,   \* the capacity of jobSem
  Chunks               \* chunks of a file, and of a result

ASSUME ServerAssumption ==
  /\ IsFiniteSet(Requests)
  /\ MaxConcurrentJobs \in Nat \ {0}
  /\ Chunks \in Nat \ {0}

VARIABLES
  kind,      \* what each request asks for
  jobSem,    \* slots taken
  srv,       \* the handler of each request
  up,        \* the request's body on its way to the server
  down,      \* the response on its way to the Worker
  open       \* the connection is there

serverVars == <<jobSem, srv>>
wireVars   == <<up, down, open>>

(* /convert to another format; to the same one; from a format it refuses;        *)
(* /process with metadata or a cover to embed; with none.                      *)
Kinds == {"convert", "echo", "unsupported", "process", "untouched"}

(* files are the temporary files there are, clean those a deferred or collected  *)
(* clean-up will remove.                                                    *)
NoHandler == [at |-> "none", holds |-> FALSE, files |-> {}, clean |-> {}, sent |-> 0,
              expired |-> FALSE]
EmptyBody == [chunk |-> FALSE, end |-> "open"]
NoReply   == [status |-> "none", chunk |-> FALSE, end |-> "open"]

ServerInit ==
  /\ jobSem = 0
  /\ srv  = [r \in Requests |-> NoHandler]
  /\ up   = [r \in Requests |-> EmptyBody]
  /\ down = [r \in Requests |-> NoReply]
  /\ open = [r \in Requests |-> FALSE]

At(r, p) == srv[r].at = p
Goto(r, p) == srv' = [srv EXCEPT ![r].at = p]
CtxDone(r) == srv[r].expired \/ ~open[r]

-----------------------------------------------------------------------------
(* The mux has started a handler, which parses the body before anything else. *)
Parsing(r) == At(r, "parsing") \/ (At(r, "none") /\ open[r])

(* A file part is copied to a temporary file, whose removal is collected. *)
ReadPart(r) ==
  /\ Parsing(r) /\ up[r].chunk
  /\ up' = [up EXCEPT ![r].chunk = FALSE]
  /\ srv' = [srv EXCEPT ![r].files = @ \cup {"input"}, ![r].clean = @ \cup {"input"},
                        ![r].at = "parsing"]
  /\ UNCHANGED <<jobSem, down, open>>

(* Broken, ended without a file, or too slow for the server's ReadTimeout: what   *)
(* was collected is removed and the request refused.                          *)
ParseFails(r) ==
  /\ Parsing(r) /\ ~up[r].chunk
  /\ \/ up[r].end = "error"
     \/ CtxDone(r)
     \/ up[r].end = "end" /\ srv[r].files = {}
  /\ srv' = [srv EXCEPT ![r].files = @ \ srv[r].clean, ![r].at = "error"]
  /\ UNCHANGED <<jobSem, wireVars>>

CleanAfterRename(r) == srv[r].clean \cup {"renamed"}

(* The input is renamed to carry its format, if the format is a supported one.   *)
(* Which way the request goes is decided by its formats and metadata.           *)
Parsed(r) ==
  /\ Parsing(r) /\ ~up[r].chunk /\ up[r].end = "end" /\ srv[r].files # {}
  /\ ~srv[r].expired
  /\ srv' = [srv EXCEPT
       ![r].files = IF kind[r] = "unsupported" THEN @ ELSE {"renamed"},
       ![r].clean = IF kind[r] = "unsupported" THEN @ ELSE CleanAfterRename(r),
       ![r].at = CASE kind[r] = "unsupported" -> "error"
                   [] kind[r] \in {"echo", "untouched"} -> "streaming"
                   [] OTHER -> "waiting"]
  /\ UNCHANGED <<jobSem, wireVars>>

(* The tools write to a file of their own; its removal is deferred by the function. *)
AcquireJobSlot(r) ==
  /\ At(r, "waiting") /\ jobSem < MaxConcurrentJobs
  /\ jobSem' = jobSem + 1
  /\ srv' = [srv EXCEPT ![r].at = "working", ![r].holds = TRUE, ![r].files = @ \cup {"output"}]
  /\ UNCHANGED wireVars

(* An end of the connection that Go does not notice here is as good as the        *)
(* eight minutes that end the context in any case.                             *)
NoFreeSlot(r) ==
  /\ At(r, "waiting") /\ CtxDone(r)
  /\ Goto(r, "error")
  /\ UNCHANGED <<jobSem, wireVars>>

(* Calibre or kepubify.  A conversion's file is what is sent; the metadata tools'  *)
(* replaces the input.                                                       *)
WorkDone(r) ==
  /\ At(r, "working")
  /\ srv' = IF kind[r] = "convert"
            THEN [srv EXCEPT ![r].at = "streaming"]
            ELSE [srv EXCEPT ![r].at = "releasing", ![r].files = @ \ {"output"}]
  /\ UNCHANGED <<jobSem, wireVars>>

MutantSkipsRelease(r) ==
  /\ At(r, "working")
  /\ srv' = [srv EXCEPT ![r].at = "error", ![r].files = @ \ {"output"}]
  /\ UNCHANGED <<jobSem, wireVars>>

(* A book the tools refuse, or the context that kills them. *)
WorkFails(r) ==
  /\ At(r, "working")
  /\ srv' = [srv EXCEPT ![r].at = "failing", ![r].files = @ \ {"output"}]
  /\ UNCHANGED <<jobSem, wireVars>>

(* writeFileResponseFromPath: the header, then the bytes.  Between two reads of    *)
(* the file the context is looked at; the client's end of the connection is       *)
(* noticed by the write.  A conversion's own file goes with its function.         *)
StreamHeader(r) ==
  /\ At(r, "streaming") /\ down[r].status = "none"
  /\ down' = [down EXCEPT ![r].status = "ok"]
  /\ UNCHANGED <<jobSem, srv, up, open>>

StreamChunk(r) ==
  /\ At(r, "streaming") /\ down[r].status = "ok" /\ ~down[r].chunk /\ open[r]
  /\ srv[r].sent < Chunks
  /\ down' = [down EXCEPT ![r].chunk = TRUE]
  /\ srv' = [srv EXCEPT ![r].sent = @ + 1]
  /\ UNCHANGED <<jobSem, up, open>>

(* /convert still has its slot. *)
StreamEnds(r) ==
  /\ At(r, "streaming") /\ srv[r].sent = Chunks /\ ~down[r].chunk
  /\ down' = [down EXCEPT ![r].end = "whole"]
  /\ srv' = [srv EXCEPT ![r].files = @ \ {"output"},
                        ![r].at = IF srv[r].holds THEN "releasing" ELSE "finishing"]
  /\ UNCHANGED <<jobSem, up, open>>

StreamBreaks(r) ==
  /\ At(r, "streaming") /\ down[r].status = "ok"
  /\ down[r].chunk \/ srv[r].sent < Chunks
  /\ ~open[r] \/ (srv[r].expired /\ ~down[r].chunk)
  /\ down' = [down EXCEPT ![r].end = "cut"]
  /\ srv' = [srv EXCEPT ![r].files = @ \ {"output"},
                        ![r].at = IF srv[r].holds THEN "failing" ELSE "error"]
  /\ UNCHANGED <<jobSem, up, open>>

(* /process gives its slot back before it streams, /convert afterwards. *)
ReleaseJobSlot(r) ==
  /\ srv[r].at \in {"releasing", "failing"}
  /\ jobSem' = jobSem - 1
  /\ srv' = [srv EXCEPT ![r].holds = FALSE,
       ![r].at = CASE At(r, "failing") -> "error"
                   [] kind[r] = "process" -> "streaming"
                   [] OTHER -> "finishing"]
  /\ UNCHANGED wireVars

(* writeErrorIfPossible: no second response once the first was begun. *)
ErrorStatus(r) == IF down[r].status = "none" THEN "bad" ELSE down[r].status

(* The deferred clean-up; the handler returns, and net/http ends the connection if *)
(* there is more of the body than it would skip.                               *)
Return(r) ==
  /\ srv' = [srv EXCEPT ![r].files = @ \ srv[r].clean, ![r].at = "gone"]
  /\ open' = [open EXCEPT ![r] = @ /\ up[r].end = "end"]

WriteError(r) ==
  /\ At(r, "error")
  /\ down' = [down EXCEPT ![r].status = ErrorStatus(r)]
  /\ Return(r)
  /\ UNCHANGED <<jobSem, up>>

Finish(r) ==
  /\ At(r, "finishing")
  /\ Return(r)
  /\ UNCHANGED <<jobSem, up, down>>

(* Eight minutes, or ReadTimeout's five, are up. *)
Expire(r) ==
  /\ srv[r].at \in {"parsing", "waiting", "working", "streaming"} /\ ~srv[r].expired
  /\ srv' = [srv EXCEPT ![r].expired = TRUE]
  /\ UNCHANGED <<jobSem, wireVars>>

Handle(r) ==
  \/ ReadPart(r) \/ ParseFails(r) \/ Parsed(r)
  \/ AcquireJobSlot(r) \/ NoFreeSlot(r) \/ WorkDone(r)
  \/ StreamHeader(r) \/ StreamChunk(r) \/ StreamEnds(r) \/ StreamBreaks(r)
  \/ ReleaseJobSlot(r) \/ WriteError(r) \/ Finish(r)
=============================================================================
