---------------------------- MODULE MCConverter ----------------------------
(* Instances of ConverterPipeline for TLC. *)
EXTENDS ConverterPipeline

CONSTANTS j1, j2, j3

MCConversions == {j1}
MCSyncs == {j2, j3}
MCRequests == {<<j1, "convert">>, <<j1, "process">>, <<j2, "process">>, <<j3, "process">>}

Queued(js) == \A j \in Jobs : ~Over(j) <=> j \in js
Plain(js) == \A r \in Requests : r[1] \in js => kind[r] = r[2]

(* A conversion alone, asking for anything, with all the troubles there may be; two   *)
(* syncs that compete for the slot, with one less; a conversion and a sync, with   *)
(* none.                                                                     *)
MCInit ==
  /\ Init
  /\ \/ Queued({j1}) /\ Plain({j2, j3}) /\ troubles = 0
     \/ Queued({j2, j3}) /\ Plain({j1, j3}) /\ troubles = 1
     \/ Queued({j1, j2}) /\ Plain(Jobs) /\ troubles = 2

MCSpec == MCInit /\ Steps
=============================================================================
