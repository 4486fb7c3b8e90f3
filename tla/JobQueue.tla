------------------------------ MODULE JobQueue ------------------------------
(***************************************************************************)
(* A Cloudflare queue as the two job consumers use it: one message per job,  *)
(* delivered at least once and at most MaxDeliveries times, then deleted,   *)
(* since no dead-letter queue is configured.  A message may be delivered    *)
(* again while an earlier delivery of it is still being processed.          *)
(***************************************************************************)
EXTENDS Integers

CONSTANTS
  Jobs,           \* ids of the jobs that can be created
  MaxDeliveries   \* max_retries + 1

ASSUME QueueAssumption == MaxDeliveries \in Nat \ {0}

VARIABLES
  message,   \* the queue's view of the message of a job
  attempts   \* deliveries of it so far

queueVars == <<message, attempts>>

QueueTypeOK ==
  /\ message  \in [Jobs -> {"none", "queued", "inflight", "acked", "discarded"}]
  /\ attempts \in [Jobs -> 0 .. MaxDeliveries]

QueueInit ==
  /\ message  = [j \in Jobs |-> "none"]
  /\ attempts = [j \in Jobs |-> 0]

Enqueue(j) ==
  /\ message' = [message EXCEPT ![j] = "queued"]
  /\ UNCHANGED attempts

\* max_retries bounds how often a message is delivered.
Deliverable(j) == message[j] \in {"queued", "inflight"} /\ attempts[j] < MaxDeliveries

Hand(j) ==
  /\ Deliverable(j)
  /\ message'  = [message EXCEPT ![j] = "inflight"]
  /\ attempts' = [attempts EXCEPT ![j] = @ + 1]

Acknowledge(j) ==
  /\ message' = [message EXCEPT ![j] = "acked"]
  /\ UNCHANGED attempts

\* message.retry(), or a consumer that is lost: the message is delivered again
\* unless another delivery of it was acknowledged or there have been enough.
Return(j) ==
  /\ message' = [message EXCEPT ![j] =
       IF @ = "acked" THEN @
       ELSE IF attempts[j] < MaxDeliveries THEN "queued" ELSE "discarded"]
  /\ UNCHANGED attempts
=============================================================================
