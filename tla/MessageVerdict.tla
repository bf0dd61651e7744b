--------------------------- MODULE MessageVerdict ---------------------------
(***************************************************************************)
(* What the sender of an active message may rely on, whatever the routes,  *)
(* timeouts and failures between it and the child's session: a message     *)
(* gets at most one verdict; "accepted" means that the child holds it,     *)
(* "rejected" that it does not and never will.  Only "uncertain" leaves    *)
(* both open.                                                              *)
(***************************************************************************)
CONSTANT Msgs

VARIABLES
    inserted,       \* the messages the child's session holds
    verdict

Verdicts == {"none", "accepted", "rejected", "uncertain"}

Init == inserted = {} /\ verdict = [m \in Msgs |-> "none"]

\* The child takes a message that was not refused.
Insert(m) ==
    /\ m \in Msgs \ inserted
    /\ verdict[m] \in {"none", "uncertain"}
    /\ inserted' = inserted \cup {m}
    /\ UNCHANGED verdict

\* One step of the router may answer several senders.
Resolve ==
    /\ verdict' \in [Msgs -> Verdicts]
    /\ \A m \in Msgs :
        \/ verdict'[m] = verdict[m]
        \/ /\ verdict[m] = "none"
           /\ verdict'[m] = "accepted" => m \in inserted
           /\ verdict'[m] = "rejected" => m \notin inserted
    /\ UNCHANGED inserted

Next == Resolve \/ \E m \in Msgs : Insert(m)

vars == <<inserted, verdict>>

Spec == Init /\ [][Next]_vars
=============================================================================
