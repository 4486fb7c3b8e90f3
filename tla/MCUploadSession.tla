-------------------------- MODULE MCUploadSession --------------------------
(* An instance of UploadSession: a client that gives up on requests which are
   still running, and sends them again. *)
EXTENDS UploadSession

CONSTANTS p1, c1, c2, a1
=============================================================================
