---------------------------- MODULE JobLifecycle ----------------------------
(***************************************************************************)
(* What a background job of the notification centre promises, whoever runs  *)
(* it: a row is inserted "pending", is worked on, and ends "done" or        *)
(* "failed".  A job never returns to the state of one that nobody touched,  *)
(* is never reported done without having been processed, and does not stay  *)
(* unsettled.  Delivery, retries, crashes and the sweeper are the business  *)
(* of the modules that implement this one.                                  *)
(***************************************************************************)

CONSTANT Jobs

VARIABLE status

Statuses == {"none", "pending", "processing", "done", "failed"}

Unsettled == {"pending", "processing"}

Init == status = [j \in Jobs |-> "none"]

Create(j) ==
  /\ status[j] = "none"
  /\ status' = [status EXCEPT ![j] = "pending"]

\* A settled job may be picked up again: the queue delivers at least once.
Start(j) ==
  /\ status[j] # "none"
  /\ status' = [status EXCEPT ![j] = "processing"]

\* A consumer that outlives a verdict on its job may still report success.
Complete(j) ==
  /\ status[j] \in {"processing", "failed", "done"}
  /\ status' = [status EXCEPT ![j] = "done"]

\* One sweep fails several jobs at once.
Fail(J) ==
  /\ \A j \in J : status[j] # "none"
  /\ status' = [j \in Jobs |-> IF j \in J THEN "failed" ELSE status[j]]

Next ==
  \/ \E j \in Jobs : Create(j) \/ Start(j) \/ Complete(j)
  \/ \E J \in SUBSET Jobs : Fail(J)

\* The safety half, which the refinement theorems prove.
Safe == Init /\ [][Next]_status

\* Every job that exists is settled in the end, and stays settled.
SettlesForGood == \A j \in Jobs : <>[](status[j] \notin Unsettled)

Spec == Safe /\ SettlesForGood
=============================================================================
