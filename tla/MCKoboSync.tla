----------------------------- MODULE MCKoboSync -----------------------------
(* Values for checking KoboSync with TLC. *)
EXTENDS KoboSync, TLC

CONSTANTS b1, b2, b3, s1, s2, e1, e2, q1, q2

Symmetries == Permutations(Books) \cup Permutations(Shelves)

LibraryOps == AllOps \ {"rename", "create",
                       "tagAdd", "tagRemove", "tagRename", "tagDelete", "tagCreate"}

(* Behaviours of whole synchronisations, of shelves that are enabled at first. *)
TurnsInit == Init /\ \E s \in Shelves : shelf[s].enabled

TurnsSpec == TurnsInit /\ [][Next]_vars

(* Behaviours about pages, of three books and one request that may die, and behaviours  *)
(* about one book and two requests that overlap.                               *)
Paged == b3 \in Uploaded

PagesInit == Init /\ (~Paged => Uploaded = {b1})

Begins(e, ops) == task'[e].op \in {task[e].op, "none"} \cup ops
PagesNext ==
  /\ Next
  /\ IF Paged THEN edits' =< 1 /\ Begins(e1, {"add", "remove", "edit"}) /\ Begins(e2, {})
     ELSE /\ deaths' = 0
          /\ Begins(e1, {"add", "remove", "disable", "discard", "drop"})
          /\ Begins(e2, {"add", "create", "rename", "tagAdd", "tagRemove", "tagCreate",
                           "tagDelete", "tagRename"})

PagesSpec == PagesInit /\ [][PagesNext]_vars
=============================================================================
