-------------------------- MODULE MCActiveMessages --------------------------
(* TLC instances of ActiveMessages: who the messages are for. *)
EXTENDS ActiveMessages, TLC

CONSTANTS m1, m2, m3, k1, k2

AllToOne == [m \in Msgs |-> k1]
Split == [m \in Msgs |-> IF m = m1 THEN k1 ELSE k2]

MsgSymmetry == Permutations(Msgs)
=============================================================================
