-------------------------- MODULE MCConversionJobs --------------------------
(* Instances of ConversionJobs: one book uploaded as EPUB, and jobs that
   compete for its KEPUB. *)
EXTENDS ConversionJobs, FiniteSets, TLC

CONSTANTS epub, kepub, user, kobo, w1, w2

WorkerSymmetry == Permutations({w1, w2})

\* One result of the wrong size at a time, whose delete is under way or was the
\* last thing to happen to its object.
OneMismatch == Cardinality(deletes) + Cardinality(wiped) =< 1

\* A user's trigger and a Kobo sync convert the same file.
PairSource == [j \in {user, kobo} |-> epub]
PairTarget == [j \in {user, kobo} |-> kepub]

\* One valid job, one for a format the consumer rejects.
MixedTarget == [j \in {user, kobo} |-> IF j = user THEN Unsupported ELSE kepub]
=============================================================================
