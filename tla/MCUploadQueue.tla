---------------------------- MODULE MCUploadQueue ----------------------------
(* TLC instances of UploadQueue: where the uploads go. *)
EXTENDS UploadQueue, TLC

CONSTANTS f1, f2, p

Aged == {<<f1, "caller">>}
SamePlace == [f \in Files |-> p]
=============================================================================
