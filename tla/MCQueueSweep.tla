---------------------------- MODULE MCQueueSweep ----------------------------
(* TLC instance of QueueSweep. *)
EXTENDS QueueSweep

IdSymmetry == Permutations(Ids)
=============================================================================
