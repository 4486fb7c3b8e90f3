--------------------------- MODULE MCMetadataSync ---------------------------
(* Instances of MetadataSync: one book that is edited once or twice. *)
EXTENDS MetadataSync, TLC

CONSTANTS first, second, w1, w2, epub, kepub

WorkerSymmetry == Permutations({w1, w2})
=============================================================================
