----------------------------- MODULE QueueSweep -----------------------------
(***************************************************************************)
(* start_queued_within_capacity as the loop it is: one action takes the    *)
(* entry at the front of the drained queue, sets it aside if its token is  *)
(* cancelled, starts it if its session has capacity at that moment (the    *)
(* starts of earlier iterations included), or keeps it.                    *)
(*                                                                         *)
(* SubagentCoordinator describes the same sweep in closed form, with the   *)
(* queue as an order (ahead) and the started spawns as a set (Startable).  *)
(* This module shows that the loop computes that set, from every queue and *)
(* every population of running children within the bounds.                 *)
(***************************************************************************)
EXTENDS SubagentCoordinator, SequencesExt

VARIABLES
    todo,       \* entries the loop has not looked at: the rest of the drained queue
    kept,       \* the new queue
    cancelled,  \* entries set aside
    sweeping    \* draining_queued

sweepVars == <<co, todo, kept, cancelled, sweeping>>

\* The actor's order for a queue held as a sequence.
AheadIn(q) ==
    [i \in Ids |-> {q[n] : n \in {m \in DOMAIN q : \E k \in DOMAIN q : m < k /\ q[k] = i}}]

Blank == [session |-> CHOOSE s \in Roots : TRUE, prompt |-> "p", run |-> NoRun,
          mode |-> "foreground", surface |-> TRUE]

Population(q, executing, session, tokens, owner) ==
    [fail |-> FALSE, phase |-> [i \in Ids |-> IF i \in ToSet(q) THEN "queued"
                              ELSE IF i \in executing THEN "active" ELSE "none"],
     req |-> [i \in Ids |-> [Blank EXCEPT !.session = session[i], !.run = owner[i]]],
     ahead |-> AheadIn(q),
     before |-> [i \in Ids |-> {}],
     reply |-> [i \in Ids |-> "none"], told |-> [i \in Ids |-> "no"],
     token |-> tokens, deadline |-> {}, handleOnly |-> {}, defBackground |-> {},
     killed |-> {}, runs |-> executing, terminal |-> {}, waiting |-> {},
     drains |-> {}, cancelWaiters |-> {}, teardown |-> {}, blocked |-> {},
     buffer |-> {}, torn |-> {}, notified |-> {}]

\* Any queue of Task spawns, any running children (Task or workflow), any tokens, in an
\* actor that queues.
SweepInit ==
    /\ FALSE \in FailModes
    /\ \E waitingIds \in SUBSET Ids :
       \E q \in SetToSeqs(waitingIds), executing \in SUBSET (Ids \ waitingIds) :
       \E session \in [Ids -> Roots], tokens \in SUBSET waitingIds :
       \E owner \in [Ids -> Runs \cup {NoRun}] :
            /\ \A i \in Ids \ executing : owner[i] = NoRun
            /\ \A i \in Ids \ (executing \cup waitingIds) : session[i] = Blank.session
            /\ co = Population(q, executing, session, tokens, owner)
            /\ todo = q
    /\ kept = <<>> /\ cancelled = <<>> /\ sweeping = TRUE

HasCapacity(c, s) == Cardinality(SessionRunning(c, s)) < MaxConcurrent

SetAside ==
    /\ todo # <<>> /\ Head(todo) \in co.token
    /\ cancelled' = Append(cancelled, Head(todo))
    /\ todo' = Tail(todo)
    /\ UNCHANGED <<co, kept, sweeping>>

StartHead ==
    /\ todo # <<>> /\ Head(todo) \notin co.token
    /\ HasCapacity(co, co.req[Head(todo)].session)
    /\ co' = StartAll(co, {Head(todo)})
    /\ todo' = Tail(todo)
    /\ UNCHANGED <<kept, cancelled, sweeping>>

\* Mutant of KeepHead: put back at the front.
KeepHeadInFront ==
    /\ todo # <<>> /\ Head(todo) \notin co.token
    /\ ~HasCapacity(co, co.req[Head(todo)].session)
    /\ kept' = <<Head(todo)>> \o kept
    /\ todo' = Tail(todo)
    /\ UNCHANGED <<co, cancelled, sweeping>>

KeepHead ==
    /\ todo # <<>> /\ Head(todo) \notin co.token
    /\ ~HasCapacity(co, co.req[Head(todo)].session)
    /\ kept' = Append(kept, Head(todo))
    /\ todo' = Tail(todo)
    /\ UNCHANGED <<co, cancelled, sweeping>>

SweepEnds ==
    /\ todo = <<>> /\ sweeping
    /\ sweeping' = FALSE
    /\ UNCHANGED <<co, todo, kept, cancelled>>

SweepNext == SetAside \/ StartHead \/ KeepHead \/ SweepEnds

SweepSpec == SweepInit /\ [][SweepNext]_sweepVars

(* Properties *)

\* What the loop decides for the entry at the front is what the closed form says:
\* it starts it now if and only if it is in Startable, and what it kept is not.
SweepMatchesClosedForm ==
    /\ ToSet(kept) \cap Startable(co) = {}
    /\ todo # <<>> =>
        (Head(todo) \in Startable(co)
            <=> Head(todo) \notin co.token /\ HasCapacity(co, co.req[Head(todo)].session))

\* At the end: the kept entries are in queue order, and are exactly the actor's
\* queue without the cancelled ones, in the order the actor's ahead relation has.
SweepKeepsOrder ==
    ~sweeping =>
        /\ ToSet(kept) = Queued(co) \ co.token
        /\ ToSet(cancelled) = Queued(co) \cap co.token
        /\ \A m, n \in DOMAIN kept : m < n <=> kept[m] \in co.ahead[kept[n]]

=============================================================================
