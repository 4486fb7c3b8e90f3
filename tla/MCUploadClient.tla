--------------------------- MODULE MCUploadClient ---------------------------
(* Instances of UploadClient for TLC. *)
EXTENDS UploadClient

CONSTANTS f1, f2, f3, c1, c2, c3, m1

MCLimit == [k \in Kinds |-> 1]
MCParts == [f \in Uploads |-> IF f = f1 THEN 2 ELSE 1]

(* In a behaviour new tasks may come, old ones have finished before the page came up,    *)
(* some of them just now, and there are no others.  Of the faults some are spent.      *)
Scenario(new, old, files, spent) ==
  \E now \in SUBSET old :
    InitWith([t \in Tasks |->
                IF t \in new THEN NotAsked
                ELSE IF t \in old THEN [status |-> "success", read |-> FALSE, recent |-> t \in now]
                ELSE [NotAsked EXCEPT !.status = "never"]],
             files, spent)

(* A list shows one task only, so that the next one pushes it off: one upload of two     *)
(* parts; two in a row; one beside that of another page; somebody else's conversion, or   *)
(* one's own, after an old one; a saved book.                                  *)
MCInit ==
  \/ Scenario({f1}, {}, {f1}, 0)
  \/ Scenario({f1, f2}, {}, {f1, f2}, MaxFaults)
  \/ Scenario({f2, f3}, {}, {f2}, MaxFaults)
  \/ \E c \in {c1, c2} : Scenario({c}, {c3}, {}, MaxFaults)
  \/ Scenario({m1}, {}, {}, MaxFaults - 1)

MCSpec == MCInit /\ Steps
=============================================================================
