----------------------- MODULE SubagentRecordsProofs -----------------------
(***************************************************************************)
(* What holds of every record of the subagent coordinator, for every set   *)
(* of ids, sessions, runs and requests and every limit: callers, runs,     *)
(* completions and waiters match the children that are alive.  Together    *)
(* with the relation between the states before and after a handler it      *)
(* gives the two promises about steps: a stopped session gains no child,   *)
(* and the queue of a session is first in, first out.                      *)
(***************************************************************************)
EXTENDS SubagentCoordinatorProofs

(***************************************************************************)
(* What the handlers keep of every record, beside what the coordinator's   *)
(* other proofs keep of the queue.  X is the spawn that is being admitted: *)
(* between its registration and its admission it has a caller and no map   *)
(* holds it yet.                                                           *)
(***************************************************************************)
\* A caller that still waits has its reply held by a live record.
CallersHeld(c, X) ==
    \A i \in Ids : c.told[i] = "waiting" => c.reply[i] = "open" /\ i \in Live(c) \cup X

\* An executing child has a run or a buffered output, and nobody else has either.
RunsFit(c) ==
    /\ \A i \in Ids : i \in c.runs \/ i \in c.terminal <=> i \in Executing(c)
    /\ \A i \in Ids : ~(i \in c.runs /\ i \in c.terminal)

\* Results and notifications are of completed children.  A handle-only child whose reply
\* is open was spawned in the background.
DeliveryFits(c, X) ==
    /\ \A i \in c.notified : /\ c.phase[i] = "completed"
                             /\ c.req[i].mode = "background" \/ c.told[i] # "result"
    /\ \A i \in Ids : c.told[i] = "result" => c.phase[i] = "completed"
    /\ \A i \in c.handleOnly : /\ i \in Live(c) \cup X
                               /\ c.reply[i] = "open" => c.req[i].mode = "background"

\* A child of a torn-down session has left no completion, and will leave none.
SilentFits(c) ==
    \A i \in c.torn : /\ c.phase[i] # "none"
                      /\ <<c.req[i].session, i>> \notin c.buffer
                      /\ i \in Live(c) => ~c.req[i].surface

\* Whoever is parked has something to wait for.
WaitersFit(c) ==
    /\ \A r \in c.cancelWaiters : WorkflowOutstanding(c, r) # {}
    /\ \A s \in c.teardown : SessionChildren(c, s) # {} /\ s \in c.blocked
    /\ c.waiting \subseteq Live(c)

Tidy(c, X) ==
    CallersHeld(c, X) /\ RunsFit(c) /\ DeliveryFits(c, X) /\ SilentFits(c) /\ WaitersFit(c)

\* Between two iterations the turns that wait have something to wait for, too.
TidyInv == Tidy(co, {}) /\ \A scope \in co.drains : TurnBlocking(co, scope) # {}

----------------------------------------------------------------------------
(* The fields of the states that the building blocks return. *)

\* Taking ids out of the maps.
LEMMA RemovedFields ==
    ASSUME NEW c \in State, NEW F \in SUBSET Ids, NEW e, e = Removed(c, F)
    PROVE  /\ e \in State
           /\ e.phase = c.phase /\ e.req = c.req /\ e.told = c.told /\ e.before = c.before
           /\ e.reply = [i \in Ids |-> IF i \in F THEN "none" ELSE c.reply[i]]
           /\ e.handleOnly = c.handleOnly \ F /\ e.runs = c.runs \ F
           /\ e.terminal = c.terminal \ F /\ e.waiting = c.waiting \ F
           /\ e.buffer = c.buffer /\ e.notified = c.notified /\ e.torn = c.torn
           /\ e.cancelWaiters = c.cancelWaiters /\ e.teardown = c.teardown /\ e.blocked = c.blocked
<1>1. e \in State
  BY RemovedShape
<1>2. /\ e.phase = c.phase /\ e.req = c.req /\ e.told = c.told /\ e.before = c.before
      /\ e.buffer = c.buffer /\ e.notified = c.notified
      /\ e.cancelWaiters = c.cancelWaiters /\ e.teardown = c.teardown /\ e.blocked = c.blocked
  BY RemovedShape
<1>3. /\ e.reply = [i \in Ids |-> IF i \in F THEN "none" ELSE c.reply[i]]
      /\ e.handleOnly = c.handleOnly \ F /\ e.runs = c.runs \ F
  BY DEF Removed, State
<1>4. /\ e.terminal = c.terminal \ F /\ e.waiting = c.waiting \ F /\ e.torn = c.torn
  BY DEF Removed, State
<1> QED
  BY <1>1, <1>2, <1>3, <1>4

\* The waiters that FinishAll answers.
RunsDone(c, F) == {r \in c.cancelWaiters : /\ WorkflowOutstanding(c, r) \subseteq F
                                           /\ \E i \in F : c.req[i].run = r}
Drained(c, F) == {s \in c.teardown : /\ SessionChildren(c, s) \subseteq F
                                     /\ \E i \in F : c.req[i].session = s}
Summaries(c, F) == {<<c.req[i].session, i>> : i \in {j \in F : /\ BufferCompletions
                                                               /\ c.req[j].surface
                                                               /\ ~IsWorkflow(c, j)}}

\* e is c after the ids of F were finished.
Finished(c, F, result, e) ==
    /\ e \in State
    /\ e.phase = [i \in Ids |-> IF i \in F THEN "completed" ELSE c.phase[i]]
    /\ e.ahead = [i \in Ids |-> IF i \in F THEN {} ELSE c.ahead[i] \ F]
    /\ e.req = c.req
    /\ e.told = [i \in Ids |-> IF i \in F /\ c.reply[i] = "open" THEN "result" ELSE c.told[i]]
    /\ e.reply = [i \in Ids |-> IF i \in F THEN "none" ELSE c.reply[i]]
    /\ e.handleOnly = c.handleOnly \ F /\ e.runs = c.runs \ F
    /\ e.terminal = c.terminal \ F /\ e.waiting = c.waiting \ F
    /\ e.buffer = c.buffer \cup Summaries(c, F)
    /\ e.notified = c.notified \cup Surfaced(c, F, result)
    /\ e.torn = c.torn
    /\ e.cancelWaiters = c.cancelWaiters \ RunsDone(c, F)
    /\ e.teardown = c.teardown \ Drained(c, F) /\ e.blocked = c.blocked \ Drained(c, F)

\* Finishing ids.
LEMMA FinishAllFields ==
    ASSUME NEW c \in State, NEW F \in SUBSET Ids, NEW result
    PROVE  Finished(c, F, result, FinishAll(c, F, result))
<1> DEFINE e == FinishAll(c, F, result)
           m == Removed(c, F)
           ph == [i \in Ids |-> IF i \in F THEN "completed" ELSE m.phase[i]]
           be == [i \in Ids |-> IF i \in F THEN In(c, {"completed"}) \cup (F \cap c.ahead[i])
                                ELSE m.before[i]]
           heard == {i \in F : c.reply[i] = "open"}
           to == [i \in Ids |-> IF i \in heard THEN "result" ELSE m.told[i]]
           rd == RunsDone(c, F)
           dr == Drained(c, F)
           su == Summaries(c, F)
           sf == Surfaced(c, F, result)
           n == [m EXCEPT !.phase = ph, !.before = be, !.told = to,
                          !.buffer = m.buffer \cup su, !.notified = m.notified \cup sf,
                          !.cancelWaiters = m.cancelWaiters \ rd,
                          !.teardown = m.teardown \ dr, !.blocked = m.blocked \ dr]
<1>1. e = n
  BY DEF FinishAll, RunsDone, Drained, Summaries
<1>2. /\ m \in State
      /\ m.phase = c.phase /\ m.req = c.req /\ m.told = c.told
      /\ m.reply = [i \in Ids |-> IF i \in F THEN "none" ELSE c.reply[i]]
      /\ m.handleOnly = c.handleOnly \ F /\ m.runs = c.runs \ F
      /\ m.terminal = c.terminal \ F /\ m.waiting = c.waiting \ F
      /\ m.buffer = c.buffer /\ m.notified = c.notified /\ m.torn = c.torn
      /\ m.cancelWaiters = c.cancelWaiters /\ m.teardown = c.teardown /\ m.blocked = c.blocked
  BY RemovedFields
<1>3. /\ e \in State
      /\ e.phase = [i \in Ids |-> IF i \in F THEN "completed" ELSE c.phase[i]]
      /\ e.ahead = [i \in Ids |-> IF i \in F THEN {} ELSE c.ahead[i] \ F]
      /\ e.req = c.req
  BY FinishAllShape
<1>4. to = [i \in Ids |-> IF i \in F /\ c.reply[i] = "open" THEN "result" ELSE c.told[i]]
  BY <1>2
<1> HIDE DEF m, ph, be, to, rd, dr, su, sf
<1>5. /\ n.told = to /\ n.reply = m.reply /\ n.handleOnly = m.handleOnly /\ n.runs = m.runs
      /\ n.terminal = m.terminal /\ n.waiting = m.waiting
  BY <1>2 DEF State
<1>6. /\ n.buffer = m.buffer \cup su /\ n.notified = m.notified \cup sf /\ n.torn = m.torn
      /\ n.cancelWaiters = m.cancelWaiters \ rd
      /\ n.teardown = m.teardown \ dr /\ n.blocked = m.blocked \ dr
  BY <1>2 DEF State
<1> HIDE DEF n, e
<1>7. Finished(c, F, result, e)
  BY <1>1, <1>2, <1>3, <1>4, <1>5, <1>6 DEF rd, dr, su, sf, Finished
<1> QED
  BY <1>7 DEF e

\* e is c after the ids of F were started.
Launched(c, F, e) ==
    /\ e \in State
    /\ e.phase = [i \in Ids |-> IF i \in F THEN "pending" ELSE c.phase[i]]
    /\ e.ahead = [i \in Ids |-> IF i \in F THEN {} ELSE c.ahead[i] \ F]
    /\ e.req = c.req /\ e.told = c.told /\ e.reply = c.reply
    /\ e.handleOnly = c.handleOnly
           \cup {i \in F : c.req[i].mode = "background" \/ c.reply[i] = "none"}
    /\ e.runs = c.runs \cup F
    /\ e.terminal = c.terminal /\ e.waiting = c.waiting
    /\ e.buffer = c.buffer /\ e.notified = c.notified /\ e.torn = c.torn
    /\ e.cancelWaiters = c.cancelWaiters /\ e.teardown = c.teardown /\ e.blocked = c.blocked

\* Starting ids.
LEMMA StartAllFields ==
    ASSUME NEW c \in State, NEW F \in SUBSET Ids
    PROVE  Launched(c, F, StartAll(c, F))
<1> DEFINE e == StartAll(c, F)
<1>1. /\ e \in State
      /\ e.phase = [i \in Ids |-> IF i \in F THEN "pending" ELSE c.phase[i]]
      /\ e.ahead = [i \in Ids |-> IF i \in F THEN {} ELSE c.ahead[i] \ F]
      /\ e.req = c.req
  BY StartAllShape
<1>2. /\ e.told = c.told /\ e.reply = c.reply
      /\ e.handleOnly = c.handleOnly
             \cup {i \in F : c.req[i].mode = "background" \/ c.reply[i] = "none"}
      /\ e.runs = c.runs \cup F
  BY DEF StartAll, State
<1>3. /\ e.terminal = c.terminal /\ e.waiting = c.waiting
      /\ e.buffer = c.buffer /\ e.notified = c.notified /\ e.torn = c.torn
  BY DEF StartAll, State
<1>4. /\ e.cancelWaiters = c.cancelWaiters /\ e.teardown = c.teardown /\ e.blocked = c.blocked
  BY DEF StartAll, State
<1> HIDE DEF e
<1>5. Launched(c, F, e)
  BY <1>1, <1>2, <1>3, <1>4 DEF Launched
<1> QED
  BY <1>5 DEF e

----------------------------------------------------------------------------
(***************************************************************************)
(* How a handler may move children: forward from phase to phase, each in   *)
(* its session and under its owner, and out of the queue in its order.     *)
(***************************************************************************)
Forward(c, e) ==
    \A i \in Ids :
        /\ c.phase[i] # "none" => /\ e.phase[i] # "none"
                                  /\ e.req[i].session = c.req[i].session
                                  /\ e.req[i].run = c.req[i].run
        /\ e.phase[i] = "queued" => c.phase[i] \in {"none", "queued"}
        /\ e.phase[i] = "pending" => c.phase[i] \in {"none", "queued", "pending"}
        /\ c.phase[i] = "completed" => e.phase[i] = "completed"

\* i is in front of j in the queue of their session.
InFront(c, i, j) ==
    /\ c.phase[i] = "queued" /\ c.phase[j] = "queued"
    /\ c.req[i].session = c.req[j].session /\ i \in c.ahead[j]

KeepsLine(c, e) ==
    \A i, j \in Ids : InFront(c, i, j) =>
        /\ e.phase[j] = "pending" => e.phase[i] # "queued"
        /\ e.phase[i] = "queued" /\ e.phase[j] = "queued" => i \in e.ahead[j]

Later(c, e) == Forward(c, e) /\ KeepsLine(c, e)

\* The handler admits nobody.
AddsNone(c, e) == \A i \in Ids : c.phase[i] = "none" => e.phase[i] = "none"

\* What two handlers do in a row.
LEMMA LaterTransitive ==
    ASSUME NEW c, NEW d, NEW e, Later(c, d), Later(d, e)
    PROVE  Later(c, e) /\ (AddsNone(c, d) /\ AddsNone(d, e) => AddsNone(c, e))
<1>1. Forward(c, e)
  BY DEF Later, Forward
<1>2. ASSUME NEW i \in Ids, NEW j \in Ids, InFront(c, i, j)
      PROVE  /\ e.phase[j] = "pending" => e.phase[i] # "queued"
             /\ e.phase[i] = "queued" /\ e.phase[j] = "queued" => i \in e.ahead[j]
  <2>1. /\ d.phase[i] # "none" /\ d.phase[j] # "none"
        /\ d.req[i].session = d.req[j].session
    BY <1>2 DEF InFront, Later, Forward
  <2>2. /\ d.phase[j] = "pending" => d.phase[i] # "queued"
        /\ d.phase[i] = "queued" /\ d.phase[j] = "queued" => i \in d.ahead[j]
    BY <1>2 DEF Later, KeepsLine
  <2>3. /\ e.phase[i] = "queued" => d.phase[i] = "queued"
        /\ e.phase[j] = "queued" => d.phase[j] = "queued"
        /\ e.phase[j] = "pending" => d.phase[j] \in {"queued", "pending"}
    BY <2>1 DEF Later, Forward
  <2>4. CASE d.phase[i] = "queued" /\ d.phase[j] = "queued"
    <3>1. InFront(d, i, j) BY <2>1, <2>2, <2>4 DEF InFront
    <3> QED BY <3>1 DEF Later, KeepsLine
  <2>5. CASE ~(d.phase[i] = "queued" /\ d.phase[j] = "queued")
    BY <2>2, <2>3, <2>5
  <2> QED BY <2>4, <2>5
<1>3. KeepsLine(c, e) BY <1>2 DEF KeepsLine
<1>4. AddsNone(c, d) /\ AddsNone(d, e) => AddsNone(c, e)
  BY DEF AddsNone
<1> QED BY <1>1, <1>3, <1>4 DEF Later

\* A handler that leaves phases, order, sessions and owners alone.
LEMMA LaterSame ==
    ASSUME NEW c \in State, NEW e, e.phase = c.phase, e.ahead = c.ahead,
           \A i \in Ids : c.phase[i] # "none" => /\ e.req[i].session = c.req[i].session
                                                 /\ e.req[i].run = c.req[i].run
    PROVE  Later(c, e) /\ AddsNone(c, e)
BY DEF Later, Forward, KeepsLine, InFront, AddsNone

\* Finishing children takes them out of the queue and changes nobody's place.
LEMMA FinishAllLater ==
    ASSUME NEW c \in State, NEW F \in SUBSET Ids, NEW result, NEW e,
           e = FinishAll(c, F, result)
    PROVE  /\ Later(c, e)
           /\ \A i \in Ids \ F : c.phase[i] = "none" => e.phase[i] = "none"
           /\ e.blocked \subseteq c.blocked
<1>1. /\ e.phase = [i \in Ids |-> IF i \in F THEN "completed" ELSE c.phase[i]]
      /\ e.ahead = [i \in Ids |-> IF i \in F THEN {} ELSE c.ahead[i] \ F]
      /\ e.req = c.req
      /\ e.blocked = c.blocked \ Drained(c, F)
  <2>1. Finished(c, F, result, e)
    BY FinishAllFields
  <2> QED BY <2>1 DEF Finished
<1> QED
  BY <1>1 DEF Later, Forward, KeepsLine, InFront, AddsNone

\* The sweep of the queue: a spawn that starts leaves no earlier one of its session
\* behind, because whoever is in front of it has fewer competitors.
LEMMA StartQueuedLater ==
    ASSUME NEW c, Core(c)
    PROVE  /\ Later(c, StartQueued(c)) /\ AddsNone(c, StartQueued(c))
           /\ StartQueued(c).blocked \subseteq c.blocked
<1> DEFINE S == Startable(c)
           d == StartAll(c, S)
           F == Queued(d) \cap d.token
           e == FinishAll(d, F, "cancelled")
<1>0. c \in State /\ StartQueued(c) = e
  BY DEF Core, StartQueued
<1>1. S \in SUBSET Ids /\ \A i \in S : c.phase[i] = "queued" /\ i \notin c.token
  BY DEF Startable, Queued, In
<1>2. ASSUME NEW i \in Ids, NEW j \in S, InFront(c, i, j), i \notin c.token
      PROVE  i \in S
  <2>1. j \in Ids /\ i \in Queued(c) /\ j \in Queued(c)
    BY <1>1, <1>2 DEF InFront, Queued, In
  <2>2. Competing(c, i) \subseteq Competing(c, j)
    <3>1. c.ahead[i] \cap Queued(c) \subseteq c.ahead[j]
      BY <1>2, <2>1 DEF Core, QueueOrder, InFront
    <3> QED BY <1>2, <3>1 DEF Competing, InFront
  <2>3. Competing(c, j) \subseteq Ids
    BY DEF Competing, Queued, In
  <2>4. /\ IsFiniteSet(Competing(c, j)) /\ Cardinality(Competing(c, j)) \in Nat
        /\ Cardinality(Competing(c, i)) \in Nat
        /\ Cardinality(Competing(c, i)) <= Cardinality(Competing(c, j))
    BY <2>2, <2>3, FS_Subset, FS_CardinalityType, CoordinatorAssumption
  <2>5. Cardinality(SessionRunning(c, c.req[j].session)) + Cardinality(Competing(c, j)) < MaxConcurrent
    BY DEF Startable
  <2>6. c.req[i].session = c.req[j].session
    BY <1>2 DEF InFront
  <2>7. Cardinality(SessionRunning(c, c.req[i].session)) + Cardinality(Competing(c, i)) < MaxConcurrent
    BY <2>4, <2>5, <2>6, Counted, CoordinatorAssumption
  <2> QED BY <1>2, <2>1, <2>7 DEF Startable
<1> HIDE DEF S
<1>3. /\ d \in State /\ d.req = c.req /\ d.token = c.token /\ d.blocked = c.blocked
      /\ d.phase = [i \in Ids |-> IF i \in S THEN "pending" ELSE c.phase[i]]
      /\ d.ahead = [i \in Ids |-> IF i \in S THEN {} ELSE c.ahead[i] \ S]
  <2>1. d.token = c.token
    BY ZenonT(60), <1>0, <1>1, StartAllShape
  <2>2. Launched(c, S, d)
    BY <1>0, <1>1, StartAllFields
  <2> QED BY <2>1, <2>2 DEF Launched
<1> HIDE DEF d
<1>4. F \in SUBSET Ids /\ \A i \in Ids : i \in F <=> d.phase[i] = "queued" /\ i \in c.token
  BY <1>3 DEF Queued, In
<1> HIDE DEF F
<1>5. /\ e.phase = [i \in Ids |-> IF i \in F THEN "completed" ELSE d.phase[i]]
      /\ e.ahead = [i \in Ids |-> IF i \in F THEN {} ELSE d.ahead[i] \ F]
      /\ e.req = d.req /\ e.blocked = d.blocked \ Drained(d, F)
  <2>1. Finished(d, F, "cancelled", e)
    BY <1>3, <1>4, FinishAllFields
  <2> QED BY <2>1 DEF Finished
<1> HIDE DEF e
<1>6. Forward(c, e) /\ AddsNone(c, e) /\ e.blocked \subseteq c.blocked
  BY <1>1, <1>3, <1>4, <1>5 DEF Forward, AddsNone
<1>7. KeepsLine(c, e)
  <2> SUFFICES ASSUME NEW i \in Ids, NEW j \in Ids, InFront(c, i, j)
               PROVE  /\ e.phase[j] = "pending" => e.phase[i] # "queued"
                      /\ e.phase[i] = "queued" /\ e.phase[j] = "queued" => i \in e.ahead[j]
    BY DEF KeepsLine
  <2>1. c.phase[i] = "queued" /\ c.phase[j] = "queued" /\ i \in c.ahead[j]
    BY DEF InFront
  <2>2. e.phase[j] = "pending" => j \in S
    BY <1>3, <1>4, <1>5, <2>1
  <2>3. e.phase[i] = "queued" => i \notin S /\ i \notin F /\ i \notin c.token
    BY <1>3, <1>4, <1>5
  <2>4. e.phase[j] = "queued" => j \notin S /\ j \notin F
    BY <1>3, <1>5
  <2>5. i \notin S /\ i \notin F /\ j \notin S /\ j \notin F => i \in e.ahead[j]
    BY <1>3, <1>5, <2>1
  <2> QED BY <1>2, <2>2, <2>3, <2>4, <2>5
<1> QED BY <1>0, <1>6, <1>7 DEF Later

----------------------------------------------------------------------------
(* The building blocks keep the records tidy. *)

\* Finishing children, the spawn that is being admitted among them or not: callers are
\* answered, runs and outputs are gone, and the waiters without anything left are released.
LEMMA FinishAllTidy ==
    ASSUME NEW c \in State, NEW F \in SUBSET Ids, NEW X \in SUBSET F, NEW result, NEW e,
           Finished(c, F, result, e), Tidy(c, X), \A i \in F : c.phase[i] # "completed"
    PROVE  Tidy(e, {})
<1>1. /\ \A i \in Ids : e.phase[i] = IF i \in F THEN "completed" ELSE c.phase[i]
      /\ \A i \in Ids : e.told[i] = IF i \in F /\ c.reply[i] = "open" THEN "result" ELSE c.told[i]
      /\ \A i \in Ids : e.reply[i] = IF i \in F THEN "none" ELSE c.reply[i]
      /\ e.req = c.req
  BY DEF Finished
<1>2. \A i \in Ids : /\ i \in Live(e) <=> i \in Live(c) /\ i \notin F
                     /\ i \in Executing(e) <=> i \in Executing(c) /\ i \notin F
  BY <1>1 DEF Live, Executing, In
<1>3. CallersHeld(e, {})
  BY <1>1, <1>2 DEF Tidy, CallersHeld
<1>4. RunsFit(e)
  <2>1. e.runs = c.runs \ F /\ e.terminal = c.terminal \ F BY DEF Finished
  <2> QED BY <1>2, <2>1 DEF Tidy, RunsFit
<1>5. DeliveryFits(e, {})
  <2>1. /\ e.notified = c.notified \cup Surfaced(c, F, result) /\ c.notified \subseteq Ids
        /\ e.handleOnly = c.handleOnly \ F /\ c.handleOnly \subseteq Ids
    BY DEF Finished, State
  <2>2. /\ \A i \in c.notified : /\ c.phase[i] = "completed"
                                 /\ c.req[i].mode = "background" \/ c.told[i] # "result"
        /\ \A i \in Ids : c.told[i] = "result" => c.phase[i] = "completed"
        /\ \A i \in c.handleOnly : /\ i \in Live(c) \cup X
                                   /\ c.reply[i] = "open" => c.req[i].mode = "background"
    BY DEF Tidy, DeliveryFits
  <2>3. ASSUME NEW i \in Surfaced(c, F, result)
        PROVE  i \in F /\ (c.req[i].mode = "background" \/ e.told[i] # "result")
    <3>1. i \in F /\ i \in Ids /\ (i \in c.handleOnly \/ c.reply[i] # "open") BY DEF Surfaced
    <3> QED BY <1>1, <2>2, <3>1
  <2>4. ASSUME NEW i \in e.notified
        PROVE  e.phase[i] = "completed" /\ (e.req[i].mode = "background" \/ e.told[i] # "result")
    <3>1. CASE i \in c.notified
      <4>1. i \in Ids /\ i \notin F BY <2>1, <2>2, <3>1
      <4> QED BY <1>1, <2>2, <3>1, <4>1
    <3>2. CASE i \in Surfaced(c, F, result)
      BY <1>1, <2>3, <3>2
    <3> QED BY <2>1, <3>1, <3>2
  <2>5. \A i \in Ids : e.told[i] = "result" => e.phase[i] = "completed"
    BY <1>1, <2>2
  <2>6. \A i \in e.handleOnly : i \in Live(e) /\ (e.reply[i] = "open" => e.req[i].mode = "background")
    BY <1>1, <1>2, <2>1, <2>2
  <2> QED BY <2>4, <2>5, <2>6 DEF DeliveryFits
<1>6. SilentFits(e)
  <2> SUFFICES ASSUME NEW i \in e.torn
               PROVE  /\ e.phase[i] # "none"
                      /\ <<e.req[i].session, i>> \notin e.buffer
                      /\ i \in Live(e) => ~e.req[i].surface
    BY DEF SilentFits
  <2>1. i \in c.torn /\ i \in Ids BY DEF Finished, State
  <2>2. /\ c.phase[i] # "none" /\ <<c.req[i].session, i>> \notin c.buffer
        /\ i \in Live(c) => ~c.req[i].surface
    BY <2>1 DEF Tidy, SilentFits
  <2>3. i \in F => i \in Live(c)
    BY <2>1, <2>2 DEF Live, In, State, Phases
  <2>4. <<c.req[i].session, i>> \notin Summaries(c, F)
    BY <2>2, <2>3 DEF Summaries
  <2>5. e.buffer = c.buffer \cup Summaries(c, F) BY DEF Finished
  <2> QED BY <1>1, <1>2, <2>1, <2>2, <2>4, <2>5
<1>7. WaitersFit(e)
  <2>1. ASSUME NEW r \in e.cancelWaiters PROVE WorkflowOutstanding(e, r) # {}
    <3>1. r \in c.cancelWaiters /\ r \notin RunsDone(c, F) BY DEF Finished
    <3>2. PICK i \in WorkflowOutstanding(c, r) : i \notin F
      BY <3>1 DEF Tidy, WaitersFit, RunsDone, WorkflowOutstanding
    <3>3. i \in WorkflowOutstanding(e, r)
      BY <1>1, <1>2, <3>2 DEF WorkflowOutstanding, Executing, In
    <3> QED BY <3>3
  <2>2. ASSUME NEW s \in e.teardown PROVE SessionChildren(e, s) # {} /\ s \in e.blocked
    <3>1. s \in c.teardown /\ s \notin Drained(c, F) /\ e.blocked = c.blocked \ Drained(c, F)
      BY DEF Finished
    <3>2. s \in c.blocked /\ SessionChildren(c, s) # {} BY <3>1 DEF Tidy, WaitersFit
    <3>3. PICK i \in SessionChildren(c, s) : i \notin F
      BY <3>1, <3>2 DEF Drained, SessionChildren
    <3>4. i \in SessionChildren(e, s)
      BY <1>1, <1>2, <3>3 DEF SessionChildren, Live, In
    <3> QED BY <3>1, <3>2, <3>4
  <2>3. e.waiting \subseteq Live(e)
    BY <1>2 DEF Finished, Tidy, WaitersFit, State
  <2> QED BY <2>1, <2>2, <2>3 DEF WaitersFit
<1> QED BY <1>3, <1>4, <1>5, <1>6, <1>7 DEF Tidy

\* Starting children, queued ones or the one that is being admitted.
LEMMA StartAllTidy ==
    ASSUME NEW c \in State, NEW F \in SUBSET Ids, NEW X \in SUBSET F, NEW e,
           Launched(c, F, e), Tidy(c, X), \A i \in F : c.phase[i] \in {"none", "queued"}
    PROVE  Tidy(e, {})
<1>1. /\ \A i \in Ids : e.phase[i] = IF i \in F THEN "pending" ELSE c.phase[i]
      /\ e.told = c.told /\ e.reply = c.reply /\ e.req = c.req
  BY DEF Launched
<1>2. \A i \in Ids : /\ i \in Live(e) <=> i \in Live(c) \/ i \in F
                     /\ i \in Executing(e) <=> i \in Executing(c) \/ i \in F
                     /\ i \in F => i \notin Executing(c)
  BY <1>1 DEF Live, Executing, In
<1>3. CallersHeld(e, {})
  BY <1>1, <1>2 DEF Tidy, CallersHeld
<1>4. RunsFit(e)
  <2>1. e.runs = c.runs \cup F /\ e.terminal = c.terminal BY DEF Launched
  <2> QED BY <1>2, <2>1 DEF Tidy, RunsFit
<1>5. DeliveryFits(e, {})
  <2>1. /\ e.notified = c.notified /\ c.notified \subseteq Ids /\ c.handleOnly \subseteq Ids
        /\ e.handleOnly = c.handleOnly
               \cup {i \in F : c.req[i].mode = "background" \/ c.reply[i] = "none"}
    BY DEF Launched, State
  <2>2. /\ \A i \in c.notified : /\ c.phase[i] = "completed"
                                 /\ c.req[i].mode = "background" \/ c.told[i] # "result"
        /\ \A i \in Ids : c.told[i] = "result" => c.phase[i] = "completed"
        /\ \A i \in c.handleOnly : /\ i \in Live(c) \cup X
                                   /\ c.reply[i] = "open" => c.req[i].mode = "background"
    BY DEF Tidy, DeliveryFits
  <2> QED BY <1>1, <1>2, <2>1, <2>2 DEF DeliveryFits
<1>6. SilentFits(e)
  <2>1. e.torn = c.torn /\ c.torn \subseteq Ids /\ e.buffer = c.buffer BY DEF Launched, State
  <2>2. \A i \in c.torn : i \in F => i \in Live(c)
    BY <2>1 DEF Tidy, SilentFits, Live, In
  <2> QED BY <1>1, <1>2, <2>1, <2>2 DEF Tidy, SilentFits
<1>7. WaitersFit(e)
  <2>1. /\ \A r : WorkflowOutstanding(c, r) \subseteq WorkflowOutstanding(e, r)
        /\ \A s : SessionChildren(c, s) \subseteq SessionChildren(e, s)
    <3>1. Executing(c) \subseteq Executing(e) /\ Live(c) \subseteq Live(e)
      BY <1>2 DEF Executing, Live, In
    <3> QED BY <1>1, <3>1 DEF WorkflowOutstanding, SessionChildren
  <2>2. /\ e.cancelWaiters = c.cancelWaiters /\ e.teardown = c.teardown
        /\ e.blocked = c.blocked /\ e.waiting = c.waiting /\ c.waiting \subseteq Ids
    BY DEF Launched, State
  <2> QED BY <1>2, <2>1, <2>2 DEF Tidy, WaitersFit
<1> QED BY <1>3, <1>4, <1>5, <1>6, <1>7 DEF Tidy

----------------------------------------------------------------------------
(* The handlers keep the records tidy and move children forward. *)

Sound(c) == Full(c) /\ Tidy(c, {})

\* What a handler that admits nobody does.
Moves(c, e) == Sound(e) /\ Later(c, e) /\ AddsNone(c, e) /\ e.blocked \subseteq c.blocked

\* Two such handlers in a row.
LEMMA MovesTransitive ==
    ASSUME NEW c, NEW d, NEW e, Moves(c, d), Moves(d, e)
    PROVE  Moves(c, e)
BY LaterTransitive DEF Moves

\* The fields that Tidy reads.
SameRecords(c, e) ==
    /\ e.phase = c.phase /\ e.req = c.req /\ e.told = c.told /\ e.reply = c.reply
    /\ e.handleOnly = c.handleOnly /\ e.runs = c.runs /\ e.terminal = c.terminal
    /\ e.waiting = c.waiting /\ e.buffer = c.buffer /\ e.notified = c.notified /\ e.torn = c.torn
    /\ e.cancelWaiters = c.cancelWaiters /\ e.teardown = c.teardown /\ e.blocked = c.blocked

\* Other fields do not matter.
LEMMA TidySame ==
    ASSUME NEW c, NEW e, NEW X, SameRecords(c, e), Tidy(c, X)
    PROVE  Tidy(e, X)
<1>1. Live(e) = Live(c) /\ Executing(e) = Executing(c)
  BY DEF SameRecords, Live, Executing, In
<1>2. \A r : WorkflowOutstanding(e, r) = WorkflowOutstanding(c, r)
  BY <1>1 DEF SameRecords, WorkflowOutstanding
<1>3. \A s : SessionChildren(e, s) = SessionChildren(c, s)
  BY <1>1 DEF SameRecords, SessionChildren
<1>4. CallersHeld(e, X) /\ RunsFit(e)
  BY <1>1 DEF SameRecords, Tidy, CallersHeld, RunsFit
<1>5. DeliveryFits(e, X) /\ SilentFits(e)
  BY <1>1 DEF SameRecords, Tidy, DeliveryFits, SilentFits
<1>6. WaitersFit(e)
  BY <1>1, <1>2, <1>3 DEF SameRecords, Tidy, WaitersFit
<1> QED BY <1>4, <1>5, <1>6 DEF Tidy

\* A handler that changes tokens, deadlines and kill marks only.
LEMMA MovesSame ==
    ASSUME NEW c, Sound(c), NEW e \in State, SameRecords(c, e), e.ahead = c.ahead
    PROVE  Moves(c, e)
<1>1. Full(e) BY SameFull DEF Sound, SameRecords
<1>2. Tidy(e, {}) BY TidySame DEF Sound
<1>3. Later(c, e) /\ AddsNone(c, e)
  BY LaterSame DEF Sound, Full, Core, SameRecords
<1> QED BY <1>1, <1>2, <1>3 DEF Moves, Sound, SameRecords

\* The sweep of the queue keeps the records tidy.
LEMMA StartQueuedTidy ==
    ASSUME NEW c, Core(c), Tidy(c, {})
    PROVE  Tidy(StartQueued(c), {})
<1> DEFINE S == Startable(c)
           d == StartAll(c, S)
           F == Queued(d) \cap d.token
           e == FinishAll(d, F, "cancelled")
<1>0. c \in State /\ StartQueued(c) = e
  BY DEF Core, StartQueued
<1>1. S \in SUBSET Ids /\ \A i \in S : c.phase[i] = "queued"
  BY DEF Startable, Queued, In
<1> HIDE DEF S
<1>2. Launched(c, S, d)
  BY <1>0, <1>1, StartAllFields
<1>3. {} \in SUBSET S OBVIOUS
<1>4. d \in State BY <1>2 DEF Launched
<1> HIDE DEF d
<1>5. Tidy(d, {})
  BY <1>0, <1>1, <1>2, <1>3, StartAllTidy
<1>6. F \in SUBSET Ids /\ {} \in SUBSET F /\ \A i \in F : d.phase[i] # "completed"
  BY DEF Queued, In
<1> HIDE DEF F
<1>7. Finished(d, F, "cancelled", e)
  BY <1>4, <1>6, FinishAllFields
<1> HIDE DEF e
<1>8. Tidy(e, {})
  BY <1>4, <1>5, <1>6, <1>7, FinishAllTidy
<1> QED BY <1>0, <1>8

\* What finish_child does with the children of F.
MovesOut(c, F, e) ==
    /\ Sound(e) /\ Later(c, e)
    /\ e.blocked \subseteq c.blocked
    /\ \A i \in F : e.phase[i] = "completed"
    /\ \A i \in Ids \ F : c.phase[i] = "none" => e.phase[i] = "none"

\* finish_child, of children or of the spawn that is being admitted.
LEMMA FinishMoves ==
    ASSUME NEW c, Core(c), NEW F \in SUBSET Ids, NEW X \in SUBSET F, NEW result,
           Tidy(c, X), \A i \in F : c.phase[i] # "completed"
    PROVE  MovesOut(c, F, Finish(c, F, result))
<1> DEFINE d == FinishAll(c, F, result)
           e == StartQueued(d)
<1>0. c \in State /\ Finish(c, F, result) = e
  BY DEF Core, Finish
<1>1. Finished(c, F, result, d)
  BY <1>0, FinishAllFields
<1>2. /\ Later(c, d) /\ d.blocked \subseteq c.blocked
      /\ \A i \in Ids \ F : c.phase[i] = "none" => d.phase[i] = "none"
  BY ZenonT(60), <1>0, FinishAllLater
<1>3. Core(d)
  BY FinishAllCore
<1> HIDE DEF d
<1>4. Tidy(d, {})
  BY <1>0, <1>1, FinishAllTidy
<1>5. Full(e) /\ Tidy(e, {})
  BY <1>3, <1>4, StartQueuedFull, StartQueuedTidy
<1>6. Later(d, e) /\ AddsNone(d, e) /\ e.blocked \subseteq d.blocked
  BY <1>3, StartQueuedLater
<1> HIDE DEF e
<1>7. Later(c, e)
  BY <1>2, <1>6, LaterTransitive
<1>8. \A i \in F : e.phase[i] = "completed"
  BY <1>1, <1>6 DEF Finished, Later, Forward
<1>9. \A i \in Ids \ F : c.phase[i] = "none" => e.phase[i] = "none"
  BY <1>2, <1>6 DEF AddsNone
<1> QED BY <1>0, <1>2, <1>5, <1>6, <1>7, <1>8, <1>9 DEF Sound, MovesOut

\* remove_queued
LEMMA RemoveQueuedMoves ==
    ASSUME NEW c, Sound(c), NEW F \in SUBSET Queued(c)
    PROVE  Moves(c, RemoveQueued(c, F))
<1> DEFINE d == [c EXCEPT !.token = c.token \cup F]
           e == Finish(d, F, "cancelled")
<1>1. F \in SUBSET Ids /\ {} \in SUBSET F /\ \A i \in F : c.phase[i] = "queued"
  BY DEF Queued, In
<1>2. c \in State BY DEF Sound, Full, Core
<1>3. RemoveQueued(c, F) = IF F = {} THEN c ELSE e
  BY DEF RemoveQueued
<1>4. d \in State /\ SameRecords(c, d) /\ d.ahead = c.ahead
  BY <1>1, <1>2 DEF State, SameRecords
<1> HIDE DEF d
<1>5. Moves(c, d)
  BY <1>4, MovesSame
<1>6. Core(d) /\ Tidy(d, {}) /\ \A i \in F : d.phase[i] = "queued"
  BY <1>1, <1>4, <1>5 DEF Moves, Sound, Full, SameRecords
<1>7. Moves(d, e)
  <2>1. \A i \in F : d.phase[i] # "completed" BY <1>6
  <2>2. MovesOut(d, F, e) BY <1>1, <1>6, <2>1, FinishMoves
  <2> QED BY <1>6, <2>2 DEF Moves, MovesOut, AddsNone
<1> HIDE DEF e
<1>8. Moves(c, e)
  BY <1>5, <1>7, MovesTransitive
<1>9. Moves(c, c)
  BY <1>2, MovesSame DEF SameRecords
<1> QED BY <1>3, <1>8, <1>9

\* Callers that leave, are let go or are handed off: they no longer wait, and a child that
\* becomes handle-only has no reply left.
LEMMA RepliesTidy ==
    ASSUME NEW c, Sound(c), NEW e \in State,
           e.phase = c.phase, e.req = c.req, e.runs = c.runs, e.terminal = c.terminal,
           e.waiting = c.waiting, e.buffer = c.buffer, e.notified = c.notified, e.torn = c.torn,
           e.cancelWaiters = c.cancelWaiters, e.teardown = c.teardown, e.blocked = c.blocked,
           e.ahead = c.ahead,
           \A i \in e.handleOnly : \/ i \in c.handleOnly
                                   \/ i \in Executing(c) /\ e.reply[i] = "none",
           \A i \in Ids : /\ e.reply[i] = "open" => c.reply[i] = "open"
                          /\ e.told[i] = "waiting" => c.told[i] = "waiting" /\ e.reply[i] = c.reply[i]
                          /\ e.told[i] = "result" => c.told[i] = "result"
    PROVE  Moves(c, e)
<1>0. c \in State /\ Tidy(c, {}) BY DEF Sound, Full, Core
<1>1. Full(e) BY SameFull DEF Sound
<1>2. Later(c, e) /\ AddsNone(c, e) BY <1>0, LaterSame
<1>3. Live(e) = Live(c) /\ Executing(e) = Executing(c) /\ Executing(c) \subseteq Live(c)
  BY DEF Live, Executing, In
<1>4. CallersHeld(e, {}) BY <1>0, <1>3 DEF Tidy, CallersHeld
<1>5. RunsFit(e) /\ SilentFits(e) BY <1>0, <1>3 DEF Tidy, RunsFit, SilentFits
<1>6. DeliveryFits(e, {})
  <2>1. c.notified \subseteq Ids /\ e.handleOnly \subseteq Ids BY <1>0 DEF State
  <2> QED BY <1>0, <1>3, <2>1 DEF Tidy, DeliveryFits
<1>7. WaitersFit(e)
  <2>1. /\ \A r : WorkflowOutstanding(e, r) = WorkflowOutstanding(c, r)
        /\ \A s : SessionChildren(e, s) = SessionChildren(c, s)
    BY <1>3 DEF WorkflowOutstanding, SessionChildren
  <2> QED BY <1>0, <1>3, <2>1 DEF Tidy, WaitersFit
<1> QED BY <1>1, <1>2, <1>4, <1>5, <1>6, <1>7 DEF Moves, Sound, Tidy

\* reap_abandoned_callers
LEMMA ReapMoves ==
    ASSUME NEW c, Sound(c)
    PROVE  Moves(c, Reap(c))
<1> DEFINE left == Abandoned(c)
           kept == {i \in left : ~IsWorkflow(c, i)}
           parked == {i \in Queued(c) : c.reply[i] = "closed"}
           rp == [i \in Ids |-> IF i \in left \cup parked THEN "none" ELSE c.reply[i]]
           tk == c.token \cup (left \ kept)
           ho == c.handleOnly \cup kept
           dl == c.deadline \ (kept \cup parked)
           d == [c EXCEPT !.reply = rp, !.token = tk, !.handleOnly = ho, !.deadline = dl]
           F == Queued(d) \cap d.token
<1>0. c \in State BY DEF Sound, Full, Core
<1>1. Reap(c) = RemoveQueued(d, F)
  BY DEF Reap
<1>2. /\ left \subseteq Ids /\ kept \subseteq left /\ kept \subseteq Executing(c)
      /\ \A i \in left \cup parked : c.reply[i] = "closed"
  BY DEF Abandoned, Executing, In
<1>3. rp \in [Ids -> {"open", "closed", "none"}] /\ tk \subseteq Ids /\ ho \subseteq Ids /\ dl \subseteq Ids
  BY <1>0, <1>2 DEF State
<1>4. /\ \A i \in Ids : /\ rp[i] = "open" => c.reply[i] = "open"
                        /\ c.reply[i] = "open" => rp[i] = "open"
      /\ \A i \in ho : i \in c.handleOnly \/ (i \in Executing(c) /\ rp[i] = "none")
  BY <1>2
<1> HIDE DEF left, kept, parked, rp, tk, ho, dl
<1>5. /\ d \in State /\ d.reply = rp /\ d.handleOnly = ho /\ d.told = c.told
      /\ d.phase = c.phase /\ d.req = c.req /\ d.runs = c.runs /\ d.terminal = c.terminal
      /\ d.ahead = c.ahead
  BY <1>0, <1>3 DEF State
<1>6. /\ d.waiting = c.waiting /\ d.buffer = c.buffer /\ d.notified = c.notified /\ d.torn = c.torn
      /\ d.cancelWaiters = c.cancelWaiters /\ d.teardown = c.teardown /\ d.blocked = c.blocked
  BY <1>0, <1>3 DEF State
<1> HIDE DEF d
<1>7. \A i \in Ids : c.told[i] = "waiting" => c.reply[i] = "open"
  BY DEF Sound, Tidy, CallersHeld
<1>8. Moves(c, d)
  BY <1>4, <1>5, <1>6, <1>7, RepliesTidy
<1>9. F \in SUBSET Queued(d) OBVIOUS
<1>10. Moves(d, RemoveQueued(d, F))
  BY <1>8, <1>9, RemoveQueuedMoves DEF Moves
<1> QED BY <1>1, <1>8, <1>10, MovesTransitive

\* A spawn is registered: its caller waits, and no map holds it yet.
LEMMA RegisteredTidy ==
    ASSUME NEW c, Sound(c), NEW i \in Ids, c.phase[i] = "none", NEW r \in Request,
           NEW cancelled \in BOOLEAN, NEW d, d = Registered(c, i, r, cancelled)
    PROVE  /\ Core(d) /\ Tidy(d, {i}) /\ Later(c, d) /\ AddsNone(c, d)
           /\ d.req[i] = r /\ d.phase = c.phase /\ d.blocked = c.blocked
<1> DEFINE rq == [c.req EXCEPT ![i] = r]
           rp == [c.reply EXCEPT ![i] = "open"]
           to == [c.told EXCEPT ![i] = "waiting"]
           tk == IF cancelled THEN c.token \cup {i} ELSE c.token \ {i}
           dl == IF r.mode = "foreground" THEN c.deadline \cup {i} ELSE c.deadline
           ho == IF r.mode = "background" THEN c.handleOnly \cup {i} ELSE c.handleOnly
           n == [c EXCEPT !.req = rq, !.reply = rp, !.told = to, !.token = tk,
                          !.deadline = dl, !.handleOnly = ho]
<1>0. c \in State /\ Tidy(c, {}) BY DEF Sound, Full, Core
<1>1. d = n
  BY <1>0 DEF Registered, State
<1>2. /\ rq \in [Ids -> Request] /\ rp \in [Ids -> {"open", "closed", "none"}] /\ to \in [Ids -> Told]
      /\ tk \subseteq Ids /\ dl \subseteq Ids /\ ho \subseteq Ids
  BY <1>0 DEF State, Told
<1>3. /\ rq[i] = r /\ \A j \in Ids \ {i} : rq[j] = c.req[j]
      /\ rp[i] = "open" /\ \A j \in Ids \ {i} : rp[j] = c.reply[j]
      /\ to[i] = "waiting" /\ \A j \in Ids \ {i} : to[j] = c.told[j]
  BY <1>0 DEF State
<1>4. \A j \in ho : j \in c.handleOnly \/ (j = i /\ r.mode = "background")
  OBVIOUS
<1> HIDE DEF rq, rp, to, tk, dl, ho
<1>5. /\ n \in State /\ n.req = rq /\ n.reply = rp /\ n.told = to /\ n.handleOnly = ho
      /\ n.phase = c.phase /\ n.ahead = c.ahead /\ n.runs = c.runs /\ n.terminal = c.terminal
  BY <1>0, <1>2 DEF State
<1>6. /\ n.waiting = c.waiting /\ n.buffer = c.buffer /\ n.notified = c.notified /\ n.torn = c.torn
      /\ n.cancelWaiters = c.cancelWaiters /\ n.teardown = c.teardown /\ n.blocked = c.blocked
  BY <1>0, <1>2 DEF State
<1> HIDE DEF n
<1>7. /\ Live(n) = Live(c) /\ Executing(n) = Executing(c) /\ Queued(n) = Queued(c)
      /\ i \notin Live(c) /\ i \notin Executing(c) /\ Live(c) \subseteq Ids /\ Executing(c) \subseteq Live(c)
  BY <1>5 DEF Live, Executing, Queued, In
<1>8. \A j \in Live(c) : n.req[j] = c.req[j]
  BY <1>3, <1>5, <1>7
<1>9. Core(n)
  BY <1>0, <1>5, <1>7, <1>8, SameShape DEF Sound, Full
<1>10. Later(c, n) /\ AddsNone(c, n)
  BY <1>0, <1>3, <1>5, LaterSame
<1>11. CallersHeld(n, {i})
  BY <1>0, <1>3, <1>5, <1>7 DEF Tidy, CallersHeld
<1>12. RunsFit(n)
  BY <1>0, <1>5, <1>7 DEF Tidy, RunsFit
<1>13. DeliveryFits(n, {i})
  <2>1. /\ \A j \in c.notified : /\ c.phase[j] = "completed"
                                 /\ c.req[j].mode = "background" \/ c.told[j] # "result"
        /\ \A j \in Ids : c.told[j] = "result" => c.phase[j] = "completed"
        /\ \A j \in c.handleOnly : /\ j \in Live(c)
                                   /\ c.reply[j] = "open" => c.req[j].mode = "background"
        /\ c.notified \subseteq Ids /\ c.handleOnly \subseteq Ids
    BY <1>0 DEF Tidy, DeliveryFits, State
  <2>2. \A j \in n.notified : /\ n.phase[j] = "completed"
                              /\ n.req[j].mode = "background" \/ n.told[j] # "result"
    BY <1>3, <1>5, <1>6, <2>1
  <2>3. \A j \in Ids : n.told[j] = "result" => n.phase[j] = "completed"
    BY <1>3, <1>5, <2>1
  <2>4. \A j \in n.handleOnly : /\ j \in Live(n) \cup {i}
                                /\ n.reply[j] = "open" => n.req[j].mode = "background"
    BY <1>3, <1>4, <1>5, <1>7, <2>1
  <2> QED BY <2>2, <2>3, <2>4 DEF DeliveryFits
<1>14. SilentFits(n)
  <2>1. c.torn \subseteq Ids BY <1>0 DEF State
  <2> QED BY ZenonT(60), <1>0, <1>3, <1>5, <1>6, <1>7, <2>1 DEF Tidy, SilentFits
<1>15. WaitersFit(n)
  <2>1. /\ \A x : WorkflowOutstanding(n, x) = WorkflowOutstanding(c, x)
        /\ \A s : SessionChildren(n, s) = SessionChildren(c, s)
    BY <1>7, <1>8 DEF WorkflowOutstanding, SessionChildren
  <2> QED BY <1>0, <1>6, <1>7, <2>1 DEF Tidy, WaitersFit
<1> QED BY <1>1, <1>3, <1>5, <1>6, <1>9, <1>10, <1>11, <1>12, <1>13, <1>14, <1>15 DEF Tidy

\* Only spawns of sessions that are not stopped are admitted.
Admitted(c, e) ==
    \A i \in Ids : /\ c.phase[i] = "none" /\ i \in Live(e) /\ ~IsWorkflow(e, i)
                   => e.req[i].session \notin c.blocked

\* A registered spawn that starts, is queued or is finished as failed.
LEMMA AdmitTidy ==
    ASSUME NEW c, Core(c), NEW i \in Ids, c.phase[i] = "none", Tidy(c, {i}),
           NEW e, e = Admit(c, i, c.req[i])
    PROVE  /\ Tidy(e, {}) /\ Later(c, e) /\ e.blocked \subseteq c.blocked
           /\ \A j \in Ids \ {i} : c.phase[j] = "none" => e.phase[j] = "none"
           /\ i \in Live(e) => e.req[i] = c.req[i]
<1>0. c \in State /\ {i} \in SUBSET Ids /\ {i} \in SUBSET {i} /\ \A j \in {i} : c.phase[j] = "none"
  BY DEF Core
<1>1. CASE e = StartAll(c, {i})
  <2>1. Launched(c, {i}, e) BY <1>0, <1>1, StartAllFields
  <2>2. Tidy(e, {}) BY <1>0, <2>1, StartAllTidy
  <2>3. /\ \A j \in Ids : e.phase[j] = IF j = i THEN "pending" ELSE c.phase[j]
        /\ \A j \in Ids : e.ahead[j] = IF j = i THEN {} ELSE c.ahead[j] \ {i}
        /\ e.req = c.req /\ e.blocked = c.blocked
    BY <2>1 DEF Launched
  <2>4. Later(c, e) BY <2>3 DEF Later, Forward, KeepsLine, InFront
  <2> QED BY <2>2, <2>3, <2>4
<1>2. CASE e = Finish(c, {i}, "done")
  <2>1. /\ Sound(e) /\ Later(c, e) /\ e.blocked \subseteq c.blocked
        /\ e.phase[i] = "completed"
        /\ \A j \in Ids \ {i} : c.phase[j] = "none" => e.phase[j] = "none"
    <3>1. \A j \in {i} : c.phase[j] # "completed" BY <1>0
    <3>2. MovesOut(c, {i}, e) BY <1>0, <1>2, <3>1, FinishMoves
    <3> QED BY <3>2 DEF MovesOut
  <2>2. i \notin Live(e) BY <2>1 DEF Live, In
  <2> QED BY <2>1, <2>2 DEF Sound
<1>3. CASE e = [c EXCEPT !.phase[i] = "queued", !.ahead[i] = Queued(c)]
  <2>1. /\ \A j \in Ids : e.phase[j] = IF j = i THEN "queued" ELSE c.phase[j]
        /\ \A j \in Ids : j # i => e.ahead[j] = c.ahead[j]
        /\ e.req = c.req /\ e.told = c.told /\ e.reply = c.reply
        /\ e.handleOnly = c.handleOnly /\ e.runs = c.runs /\ e.terminal = c.terminal
    BY <1>0, <1>3 DEF State
  <2>2. /\ e.waiting = c.waiting /\ e.buffer = c.buffer /\ e.notified = c.notified /\ e.torn = c.torn
        /\ e.cancelWaiters = c.cancelWaiters /\ e.teardown = c.teardown /\ e.blocked = c.blocked
    BY <1>0, <1>3 DEF State
  <2>3. /\ \A j \in Ids : j \in Live(e) <=> j \in Live(c) \/ j = i
        /\ \A j \in Ids : j \in Executing(e) <=> j \in Executing(c)
        /\ Live(c) \subseteq Live(e) /\ Executing(e) = Executing(c)
    BY <2>1 DEF Live, Executing, In
  <2>4. CallersHeld(e, {}) /\ RunsFit(e)
    BY <2>1, <2>3 DEF Tidy, CallersHeld, RunsFit
  <2>5. DeliveryFits(e, {})
    <3>1. c.notified \subseteq Ids /\ c.handleOnly \subseteq Ids BY <1>0 DEF State
    <3> QED BY <2>1, <2>2, <2>3, <3>1 DEF Tidy, DeliveryFits
  <2>6. SilentFits(e)
    <3>1. c.torn \subseteq Ids /\ \A j \in c.torn : j # i BY <1>0 DEF State, Tidy, SilentFits
    <3> QED BY <2>1, <2>2, <2>3, <3>1 DEF Tidy, SilentFits
  <2>7. WaitersFit(e)
    <3>1. /\ \A r : WorkflowOutstanding(e, r) = WorkflowOutstanding(c, r)
          /\ \A s : SessionChildren(c, s) \subseteq SessionChildren(e, s)
      BY <2>1, <2>3 DEF WorkflowOutstanding, SessionChildren
    <3> QED BY <2>2, <2>3, <3>1 DEF Tidy, WaitersFit
  <2>8. Later(c, e) BY <2>1 DEF Later, Forward, KeepsLine, InFront
  <2> QED BY <2>1, <2>2, <2>4, <2>5, <2>6, <2>7, <2>8 DEF Tidy
<1>4. \/ e = StartAll(c, {i}) \/ e = Finish(c, {i}, "done")
      \/ e = [c EXCEPT !.phase[i] = "queued", !.ahead[i] = Queued(c)]
  <2>1. \/ c.req[i].run # NoRun \/ Cardinality(SessionRunning(c, c.req[i].session)) < MaxConcurrent
        \/ c.req[i].run = NoRun /\ Cardinality(SessionRunning(c, c.req[i].session)) >= MaxConcurrent
    BY Counted, CoordinatorAssumption
  <2> QED BY <2>1 DEF Admit
<1> QED BY <1>1, <1>2, <1>3, <1>4

\* handle_spawn
LEMMA HandleSpawnMoves ==
    ASSUME NEW c, Sound(c), NEW i \in Ids, NEW asked \in Request, NEW cancelled \in BOOLEAN,
           NEW e, e = HandleSpawn(c, i, asked, cancelled)
    PROVE  Sound(e) /\ Later(c, e) /\ Admitted(c, e) /\ e.blocked \subseteq c.blocked
<1>0. c \in State /\ Full(e)
  BY HandleSpawnFull DEF Sound, Full, Core
<1>1. CASE Refused(c, i, asked)
  <2>1. e = c BY <1>1 DEF HandleSpawn
  <2>2. Moves(c, e) BY <1>0, <2>1, MovesSame DEF SameRecords
  <2> QED BY <2>1, <2>2 DEF Moves, Admitted, Live, In
<1>2. CASE ~Refused(c, i, asked)
  <2> DEFINE r == Reparented(c, asked)
             d == Registered(c, i, r, cancelled)
  <2>1. c.phase[i] = "none" /\ (r.run = NoRun => r.session \notin c.blocked)
    BY <1>2 DEF Refused
  <2>2. r \in Request
    <3>1. CASE Nested(c, asked)
      <4>1. c.req[asked.session] \in Request
        BY <3>1, <1>0 DEF Nested, In, State
      <4> QED
        BY <3>1, <4>1 DEF Reparented, Request
    <3>2. CASE ~Nested(c, asked)
      BY <3>2 DEF Reparented
    <3> QED
      BY <3>1, <3>2
  <2>3. e = Admit(d, i, r)
    BY <1>2 DEF HandleSpawn
  <2> HIDE DEF r
  <2>4. /\ Core(d) /\ Tidy(d, {i}) /\ Later(c, d) /\ AddsNone(c, d)
        /\ d.req[i] = r /\ d.phase = c.phase /\ d.blocked = c.blocked
    BY <2>1, <2>2, RegisteredTidy
  <2> HIDE DEF d
  <2>5. /\ Tidy(e, {}) /\ Later(d, e) /\ e.blocked \subseteq d.blocked
        /\ \A j \in Ids \ {i} : d.phase[j] = "none" => e.phase[j] = "none"
        /\ i \in Live(e) => e.req[i] = d.req[i]
    BY <2>1, <2>3, <2>4, AdmitTidy
  <2>6. Later(c, e) BY <2>4, <2>5, LaterTransitive
  <2>7. Admitted(c, e)
    <3> SUFFICES ASSUME NEW j \in Ids, c.phase[j] = "none", j \in Live(e), ~IsWorkflow(e, j)
                 PROVE  e.req[j].session \notin c.blocked
      BY DEF Admitted
    <3>1. j = i BY <2>4, <2>5 DEF Live, In
    <3>2. e.req[i] = r BY <2>4, <2>5, <3>1
    <3> QED BY <2>1, <3>1, <3>2 DEF IsWorkflow
  <2> QED BY <1>0, <2>4, <2>5, <2>6, <2>7 DEF Sound
<1> QED BY <1>1, <1>2

\* The bulk cancels.
LEMMA CancelAllMoves ==
    ASSUME NEW c, Sound(c), NEW F
    PROVE  Moves(c, CancelAll(c, F))
<1> DEFINE d == [c EXCEPT !.token = c.token \cup (F \cap Executing(c))]
<1>0. c \in State /\ Executing(c) \subseteq Ids
  BY DEF Sound, Full, Core, Executing, In
<1>1. d \in State /\ SameRecords(c, d) /\ d.ahead = c.ahead
  BY <1>0 DEF State, SameRecords
<1>2. CancelAll(c, F) = RemoveQueued(d, F \cap Queued(c))
  BY DEF CancelAll
<1> HIDE DEF d
<1>3. Moves(c, d) BY <1>1, MovesSame
<1>4. Queued(d) = Queued(c) BY <1>1 DEF SameRecords, Queued, In
<1>5. Moves(d, RemoveQueued(d, F \cap Queued(c)))
  BY <1>3, <1>4, RemoveQueuedMoves DEF Moves
<1> QED BY <1>2, <1>3, <1>5, MovesTransitive

\* cancel_one
LEMMA CancelOneMoves ==
    ASSUME NEW c, Sound(c), NEW i \in Ids
    PROVE  Moves(c, CancelOne(c, i))
<1> DEFINE ki == c.killed \cup {i}
           tk == c.token \cup {i}
           d == [c EXCEPT !.killed = ki, !.token = tk]
<1>0. c \in State /\ ki \subseteq Ids /\ tk \subseteq Ids
  BY DEF Sound, Full, Core, State
<1>1. CancelOne(c, i) \in {d, c} \/ (i \in Queued(c) /\ CancelOne(c, i) = RemoveQueued(c, {i}))
  BY DEF CancelOne
<1> HIDE DEF ki, tk
<1>2. d \in State /\ SameRecords(c, d) /\ d.ahead = c.ahead
  BY <1>0 DEF State, SameRecords
<1> HIDE DEF d
<1>3. Moves(c, d) BY <1>2, MovesSame
<1>4. Moves(c, c) BY <1>0, MovesSame DEF SameRecords
<1>5. i \in Queued(c) => Moves(c, RemoveQueued(c, {i})) BY RemoveQueuedMoves
<1> QED BY <1>1, <1>3, <1>4, <1>5

\* Callers whose deadline has passed are handed off.
LEMMA HandOffMoves ==
    ASSUME NEW c, Sound(c), NEW F
    PROVE  Moves(c, HandOff(c, F))
<1> DEFINE to == [i \in Ids |-> IF i \in F /\ c.reply[i] = "open"
                                THEN "backgrounded" ELSE c.told[i]]
           rp == [i \in Ids |-> IF i \in F THEN "none" ELSE c.reply[i]]
           ho == c.handleOnly \cup (F \cap Executing(c))
           dl == c.deadline \ F
           d == [c EXCEPT !.told = to, !.reply = rp, !.handleOnly = ho, !.deadline = dl]
<1>0. c \in State /\ Executing(c) \subseteq Ids BY DEF Sound, Full, Core, Executing, In
<1>1. /\ to \in [Ids -> Told] /\ rp \in [Ids -> {"open", "closed", "none"}]
      /\ ho \subseteq Ids /\ dl \subseteq Ids
  BY <1>0 DEF State, Told
<1>2. HandOff(c, F) = d
  BY DEF HandOff
<1>3. \A i \in Ids : c.told[i] = "waiting" => c.reply[i] = "open"
  BY DEF Sound, Tidy, CallersHeld
<1>4. /\ \A i \in ho : i \in c.handleOnly \/ (i \in Executing(c) /\ rp[i] = "none")
      /\ \A i \in Ids : /\ rp[i] = "open" => c.reply[i] = "open"
                        /\ to[i] = "waiting" => c.told[i] = "waiting" /\ rp[i] = c.reply[i]
                        /\ to[i] = "result" => c.told[i] = "result"
  BY <1>0, <1>3
<1> HIDE DEF to, rp, ho, dl
<1>5. /\ d \in State /\ d.reply = rp /\ d.handleOnly = ho /\ d.told = to
      /\ d.phase = c.phase /\ d.req = c.req /\ d.runs = c.runs /\ d.terminal = c.terminal
      /\ d.ahead = c.ahead
  BY <1>0, <1>1 DEF State
<1>6. /\ d.waiting = c.waiting /\ d.buffer = c.buffer /\ d.notified = c.notified /\ d.torn = c.torn
      /\ d.cancelWaiters = c.cancelWaiters /\ d.teardown = c.teardown /\ d.blocked = c.blocked
  BY <1>0, <1>1 DEF State
<1> HIDE DEF d
<1>7. Moves(c, d)
  BY <1>4, <1>5, <1>6, RepliesTidy
<1> QED BY <1>2, <1>7

\* Fields of waiters, of the host's completions and of stopped sessions.
LEMMA WaitersMove ==
    ASSUME NEW c, Sound(c), NEW e \in State,
           e.phase = c.phase, e.ahead = c.ahead, e.req = c.req, e.told = c.told, e.reply = c.reply,
           e.handleOnly = c.handleOnly, e.runs = c.runs, e.terminal = c.terminal,
           e.notified = c.notified, e.torn = c.torn,
           e.buffer \subseteq c.buffer,
           \A r \in e.cancelWaiters : r \in c.cancelWaiters \/ WorkflowOutstanding(c, r) # {},
           \A s \in e.teardown : s \in c.teardown \/ SessionChildren(c, s) # {},
           \A s \in e.teardown : s \in e.blocked,
           e.waiting \subseteq Live(c)
    PROVE  Sound(e) /\ Later(c, e) /\ AddsNone(c, e)
<1>0. c \in State /\ Tidy(c, {}) BY DEF Sound, Full, Core
<1>1. Full(e) /\ Later(c, e) /\ AddsNone(c, e)
  BY <1>0, SameFull, LaterSame DEF Sound
<1>2. Live(e) = Live(c) /\ Executing(e) = Executing(c)
  BY DEF Live, Executing, In
<1>3. CallersHeld(e, {}) /\ RunsFit(e)
  BY <1>0, <1>2 DEF Tidy, CallersHeld, RunsFit
<1>4. DeliveryFits(e, {}) /\ SilentFits(e)
  BY <1>0, <1>2 DEF Tidy, DeliveryFits, SilentFits
<1>5. WaitersFit(e)
  <2>1. /\ \A r : WorkflowOutstanding(e, r) = WorkflowOutstanding(c, r)
        /\ \A s : SessionChildren(e, s) = SessionChildren(c, s)
    BY <1>2 DEF WorkflowOutstanding, SessionChildren
  <2> QED BY <1>0, <1>2, <2>1 DEF Tidy, WaitersFit
<1> QED BY <1>1, <1>3, <1>4, <1>5 DEF Sound, Tidy

\* A session is torn down: its summaries are dropped, its children will leave none.
LEMMA SilencedMoves ==
    ASSUME NEW c, Sound(c), NEW s, NEW e, e = Silenced(c, s, SessionChildren(c, s))
    PROVE  Moves(c, e)
<1> DEFINE F == SessionChildren(c, s)
           bu == {b \in c.buffer : b[1] # s}
           rq == [i \in Ids |-> IF i \in F THEN [c.req[i] EXCEPT !.surface = FALSE]
                                ELSE c.req[i]]
           n == [c EXCEPT !.buffer = bu, !.req = rq, !.torn = c.torn \cup F]
<1>0. c \in State /\ Tidy(c, {}) BY DEF Sound, Full, Core
<1>1. e = n BY DEF Silenced
<1>2. /\ bu \subseteq c.buffer /\ F \subseteq Ids /\ F \subseteq Live(c)
      /\ \A i \in F : c.req[i].session = s /\ <<s, i>> \notin bu
  BY <1>0 DEF SessionChildren, Live, In
<1>3. ASSUME NEW r \in Request
      PROVE  LET q == [r EXCEPT !.surface = FALSE]
             IN  /\ q \in Request /\ q.session = r.session /\ q.run = r.run
                 /\ q.mode = r.mode /\ q.surface = FALSE
  BY DEF Request
<1>4. /\ rq \in [Ids -> Request]
      /\ \A i \in Ids : /\ rq[i].session = c.req[i].session /\ rq[i].run = c.req[i].run
                        /\ rq[i].mode = c.req[i].mode
                        /\ i \in F => rq[i].surface = FALSE
                        /\ i \notin F => rq[i] = c.req[i]
  <2>1. c.req \in [Ids -> Request]
    BY <1>0 DEF State
  <2> QED
    BY <1>3, <2>1
<1> HIDE DEF F, bu, rq
<1>5. /\ n \in State /\ n.buffer = bu /\ n.req = rq /\ n.torn = c.torn \cup F
      /\ n.phase = c.phase /\ n.ahead = c.ahead /\ n.told = c.told /\ n.reply = c.reply
      /\ n.handleOnly = c.handleOnly
  BY <1>0, <1>2, <1>4 DEF State
<1>6. /\ n.runs = c.runs /\ n.terminal = c.terminal /\ n.waiting = c.waiting
      /\ n.notified = c.notified
      /\ n.cancelWaiters = c.cancelWaiters /\ n.teardown = c.teardown /\ n.blocked = c.blocked
  BY <1>0, <1>2, <1>4 DEF State
<1> HIDE DEF n
<1>7. /\ Live(n) = Live(c) /\ Executing(n) = Executing(c) /\ Queued(n) = Queued(c)
      /\ Live(c) \subseteq Ids /\ Executing(c) \subseteq Ids
  BY <1>5 DEF Live, Executing, Queued, In
<1>8. Full(n)
  BY <1>0, <1>4, <1>5, <1>7, SameShape DEF Sound, Full
<1>9. Later(c, n) /\ AddsNone(c, n)
  BY <1>0, <1>4, <1>5, LaterSame
<1>10. CallersHeld(n, {}) /\ RunsFit(n)
  BY <1>0, <1>5, <1>6, <1>7 DEF Tidy, CallersHeld, RunsFit
<1>11. DeliveryFits(n, {})
  <2>1. c.notified \subseteq Ids /\ c.handleOnly \subseteq Ids BY <1>0 DEF State
  <2> QED BY <1>0, <1>4, <1>5, <1>6, <1>7, <2>1 DEF Tidy, DeliveryFits
<1>12. SilentFits(n)
  <2> SUFFICES ASSUME NEW i \in c.torn \cup F
               PROVE  /\ n.phase[i] # "none" /\ <<n.req[i].session, i>> \notin n.buffer
                      /\ i \in Live(n) => ~n.req[i].surface
    BY <1>5 DEF SilentFits
  <2>1. i \in Ids BY <1>0, <1>2 DEF State
  <2>2. CASE i \in F
    <3>1. c.phase[i] # "none" BY <1>2, <2>2 DEF Live, In
    <3> QED BY <1>2, <1>4, <1>5, <2>1, <2>2, <3>1
  <2>3. CASE i \notin F
    <3>1. /\ c.phase[i] # "none" /\ <<c.req[i].session, i>> \notin c.buffer
          /\ i \in Live(c) => ~c.req[i].surface
      BY <1>0, <2>3 DEF Tidy, SilentFits
    <3> QED BY <1>2, <1>4, <1>5, <1>7, <2>1, <2>3, <3>1
  <2> QED BY <2>2, <2>3
<1>13. WaitersFit(n)
  <2>1. /\ \A r : WorkflowOutstanding(n, r) = WorkflowOutstanding(c, r)
        /\ \A x : SessionChildren(n, x) = SessionChildren(c, x)
    BY <1>4, <1>5, <1>7 DEF WorkflowOutstanding, SessionChildren
  <2> QED BY <1>0, <1>6, <1>7, <2>1 DEF Tidy, WaitersFit
<1> QED BY <1>1, <1>6, <1>8, <1>9, <1>10, <1>11, <1>12, <1>13 DEF Moves, Sound, Tidy

----------------------------------------------------------------------------
(* The end of an iteration, and what an iteration amounts to. *)

\* What holds between two iterations.
Calm(c) == Sound(c) /\ \A scope \in c.drains : TurnBlocking(c, scope) # {}

\* e is c after completed records were forgotten.
Forgets(c, e) ==
    /\ \A i \in Ids : \/ e.phase[i] = c.phase[i] /\ e.req[i] = c.req[i]
                      \/ c.phase[i] = "completed" /\ e.phase[i] = "none"
    /\ e.blocked = c.blocked

\* Answering the turns that have drained and evicting completed records.
LEMMA SettleCalm ==
    ASSUME NEW c, Sound(c), NEW e, e = Settle(c)
    PROVE  Calm(e) /\ Forgets(c, e)
<1> DEFINE gone == {i \in In(c, {"completed"}) :
                       Cardinality({j \in In(c, {"completed"}) : i \in c.before[j]})
                           >= MaxCompleted}
           dr == StillDraining(c)
           ph == [i \in Ids |-> IF i \in gone THEN "none" ELSE c.phase[i]]
           rq == [i \in Ids |-> IF i \in gone THEN Fresh ELSE c.req[i]]
           be == [i \in Ids |-> IF i \in gone THEN {} ELSE c.before[i] \ gone]
           to == [i \in Ids |-> IF i \in gone THEN "no" ELSE c.told[i]]
           n == [c EXCEPT !.drains = dr, !.phase = ph, !.req = rq, !.before = be,
                          !.told = to, !.torn = c.torn \ gone,
                          !.notified = c.notified \ gone]
<1>0. c \in State /\ Tidy(c, {}) /\ Full(e)
  BY SettleFull DEF Sound, Full, Core
<1>1. e = n
  BY DEF Settle
<1>2. \A i \in gone : i \in Ids /\ c.phase[i] = "completed"
  BY DEF In
<1> HIDE DEF gone
<1>3. /\ \A i \in Ids \ gone : ph[i] = c.phase[i] /\ rq[i] = c.req[i] /\ to[i] = c.told[i]
      /\ \A i \in gone : ph[i] = "none" /\ to[i] = "no"
  BY <1>2
<1> HIDE DEF dr, ph, rq, be, to
<1>4. /\ n.drains = dr /\ n.phase = ph /\ n.req = rq /\ n.told = to
      /\ n.torn = c.torn \ gone /\ n.notified = c.notified \ gone
      /\ n.reply = c.reply /\ n.handleOnly = c.handleOnly
  BY <1>0 DEF State
<1>5. /\ n.runs = c.runs /\ n.terminal = c.terminal /\ n.waiting = c.waiting
      /\ n.defBackground = c.defBackground /\ n.buffer = c.buffer
      /\ n.cancelWaiters = c.cancelWaiters /\ n.teardown = c.teardown /\ n.blocked = c.blocked
  BY <1>0 DEF State
<1> HIDE DEF n
<1>6. /\ Live(n) = Live(c) /\ Executing(n) = Executing(c)
      /\ \A i \in Live(c) : /\ i \in Ids /\ i \notin gone
                            /\ n.phase[i] = c.phase[i] /\ n.req[i] = c.req[i]
      /\ Executing(c) \subseteq Live(c)
  BY <1>2, <1>3, <1>4 DEF Live, Executing, In
<1>7. Forgets(c, n)
  BY <1>2, <1>3, <1>4, <1>5 DEF Forgets
<1>8. CallersHeld(n, {}) /\ RunsFit(n)
  BY <1>0, <1>3, <1>4, <1>5, <1>6 DEF Tidy, CallersHeld, RunsFit
<1>9. DeliveryFits(n, {})
  <2>1. c.notified \subseteq Ids /\ c.handleOnly \subseteq Ids BY <1>0 DEF State
  <2>2. \A i \in n.notified : /\ n.phase[i] = "completed"
                              /\ n.req[i].mode = "background" \/ n.told[i] # "result"
    BY <1>0, <1>3, <1>4, <2>1 DEF Tidy, DeliveryFits
  <2>3. \A i \in Ids : n.told[i] = "result" => n.phase[i] = "completed"
    BY <1>0, <1>3, <1>4 DEF Tidy, DeliveryFits
  <2>4. \A i \in n.handleOnly : /\ i \in Live(n) \cup {}
                                /\ n.reply[i] = "open" => n.req[i].mode = "background"
    BY <1>0, <1>4, <1>6 DEF Tidy, DeliveryFits
  <2> QED BY <2>2, <2>3, <2>4 DEF DeliveryFits
<1>10. SilentFits(n)
  <2>1. c.torn \subseteq Ids BY <1>0 DEF State
  <2> QED BY <1>0, <1>3, <1>4, <1>5, <1>6, <2>1 DEF Tidy, SilentFits
<1>11. WaitersFit(n)
  <2>1. /\ \A r : WorkflowOutstanding(n, r) = WorkflowOutstanding(c, r)
        /\ \A s : SessionChildren(n, s) = SessionChildren(c, s)
    BY <1>6 DEF WorkflowOutstanding, SessionChildren
  <2> QED BY <1>0, <1>5, <1>6, <2>1 DEF Tidy, WaitersFit
<1>12. \A scope \in n.drains : TurnBlocking(n, scope) # {}
  <2>1. \A scope : TurnBlocking(n, scope) = TurnBlocking(c, scope)
    BY <1>4, <1>5, <1>6 DEF TurnBlocking, IsWorkflow
  <2>2. \A scope \in dr : TurnBlocking(c, scope) # {}
    BY DEF dr, StillDraining
  <2> QED BY <1>4, <2>1, <2>2
<1> QED BY <1>0, <1>1, <1>7, <1>8, <1>9, <1>10, <1>11, <1>12 DEF Calm, Sound, Tidy

\* A spawn is admitted only if its session was not stopped, or no longer is.
Joins(c, e) ==
    \A i \in Ids : /\ c.phase[i] = "none" /\ i \in Live(e) /\ ~IsWorkflow(e, i)
                   => e.req[i].session \notin c.blocked \cap e.blocked

\* What a handler establishes before the loop's tail.
Handled(c, e) == Sound(e) /\ Later(c, e) /\ Joins(c, e)

\* What a step may do to the sessions that stay stopped, and to the queue.
BarrierHeld(c, e) ==
    \A s \in c.blocked \cap e.blocked :
        {i \in SessionChildren(e, s) : ~IsWorkflow(e, i)} \subseteq SessionChildren(c, s)
FirstOut(c, e) ==
    \A i, j \in Ids : InFront(c, i, j) /\ e.phase[j] = "pending" => e.phase[i] # "queued"

Step(c, e) == Calm(e) /\ BarrierHeld(c, e) /\ FirstOut(c, e)

\* A handler that admits nobody.
LEMMA AddsNoneHandled ==
    ASSUME NEW c, NEW e, Sound(e), Later(c, e), AddsNone(c, e)
    PROVE  Handled(c, e)
BY DEF Handled, Joins, AddsNone, Live, In

\* Most handlers also stop no further session.
LEMMA MovesHandled ==
    ASSUME NEW c, NEW e, Moves(c, e)
    PROVE  Handled(c, e)
BY AddsNoneHandled DEF Moves

\* The phases of the actor's state.
LEMMA PhaseOf ==
    ASSUME NEW c, Sound(c), NEW i \in Ids
    PROVE  c.phase[i] \in Phases
BY DEF Sound, Full, Core, State

\* What the loop's tail makes of it.
LEMMA HandledStep ==
    ASSUME NEW b, Sound(b), NEW c, Handled(b, c), NEW e, e = Settle(c)
    PROVE  Step(b, e)
<1>1. Calm(e) /\ Forgets(c, e) BY SettleCalm DEF Handled
<1>2. \A i \in Ids : i \in Live(e) => i \in Live(c) /\ e.req[i] = c.req[i]
  BY <1>1 DEF Forgets, Live, In
<1>3. BarrierHeld(b, e)
  <2> SUFFICES ASSUME NEW s \in b.blocked \cap e.blocked, NEW i \in SessionChildren(e, s),
                      ~IsWorkflow(e, i)
               PROVE  i \in SessionChildren(b, s)
    BY DEF BarrierHeld
  <2>1. i \in Ids /\ i \in Live(e) /\ e.req[i].session = s
    BY DEF SessionChildren, Live, In
  <2>2. /\ i \in Live(c) /\ c.req[i].session = s /\ ~IsWorkflow(c, i)
        /\ s \in b.blocked \cap c.blocked
    BY <1>1, <1>2, <2>1 DEF IsWorkflow, Forgets
  <2>3. b.phase[i] # "none"
    BY <2>1, <2>2 DEF Handled, Joins
  <2>4. b.req[i].session = s /\ b.phase[i] # "completed"
    BY <2>1, <2>2, <2>3 DEF Handled, Later, Forward, Live, In
  <2>5. i \in Live(b)
    BY <2>1, <2>3, <2>4, PhaseOf DEF Live, In, Phases
  <2> QED BY <2>4, <2>5 DEF SessionChildren
<1>4. FirstOut(b, e)
  <2> SUFFICES ASSUME NEW i \in Ids, NEW j \in Ids, InFront(b, i, j), e.phase[j] = "pending"
               PROVE  e.phase[i] # "queued"
    BY DEF FirstOut
  <2>1. c.phase[j] = "pending" /\ (e.phase[i] = "queued" => c.phase[i] = "queued")
    BY <1>1 DEF Forgets
  <2> QED BY <2>1 DEF Handled, Later, KeepsLine
<1> QED BY <1>1, <1>3, <1>4 DEF Step

----------------------------------------------------------------------------
(* The actions *)

\* What a handler did after callers were reaped.
LEMMA AfterReap ==
    ASSUME NEW b, NEW c, NEW e, Moves(b, c), Sound(e), Later(c, e), AddsNone(c, e)
    PROVE  Handled(b, e)
BY LaterTransitive, AddsNoneHandled DEF Moves

\* An iteration of the loop.
LEMMA BecomesStep ==
    ASSUME Calm(co), NEW c, Handled(co, c), Becomes(c)
    PROVE  Step(co, co')
BY HandledStep DEF Becomes, Calm

\* The fields WaitersMove asks for, for a state that differs from c in its waiters only.
OnlyWaiters(c, e) ==
    /\ e \in State
    /\ e.phase = c.phase /\ e.ahead = c.ahead /\ e.req = c.req /\ e.told = c.told
    /\ e.reply = c.reply /\ e.handleOnly = c.handleOnly
    /\ e.runs = c.runs /\ e.terminal = c.terminal /\ e.notified = c.notified /\ e.torn = c.torn

\* Commands that cancel children, admit them or register a waiter.
LEMMA CommandsStep ==
    ASSUME Calm(co)
    PROVE  /\ \A i \in Ids : Spawn(i) \/ Cancel(i) \/ Query(i) => Step(co, co')
           /\ \A scope \in PromptCancels : CancelParentPrompt(scope) => Step(co, co')
           /\ \A scope \in Scopes : WaitPromptDrained(scope) => Step(co, co')
           /\ \A s \in StopSessions :
                 CancelParentSession(s) \/ OpenSpawnAdmission(s) => Step(co, co')
           /\ \A r \in Runs : CancelWorkflow(r) => Step(co, co')
           /\ \A s \in TeardownSessions : Completions(s) => Step(co, co')
<1> DEFINE c == Reap(co)
<1>0. Moves(co, c) /\ Sound(c) /\ c \in State
  BY ReapMoves DEF Calm, Moves, Sound, Full, Core
<1>w. /\ \A r \in c.cancelWaiters : WorkflowOutstanding(c, r) # {}
      /\ \A s \in c.teardown : SessionChildren(c, s) # {} /\ s \in c.blocked
      /\ c.waiting \subseteq Live(c)
  BY <1>0 DEF Sound, Tidy, WaitersFit
<1>s. Handled(co, c)
  BY <1>0, MovesHandled
<1>1. ASSUME NEW i \in Ids, Spawn(i)
      PROVE  Step(co, co')
  <2>1. PICK asked \in Requests, cancelled \in BOOLEAN :
            Becomes(HandleSpawn(c, i, asked, cancelled))
    BY <1>1 DEF Spawn
  <2> HIDE DEF c
  <2> DEFINE e == HandleSpawn(c, i, asked, cancelled)
  <2>2. Sound(e) /\ Later(c, e) /\ Admitted(c, e) /\ e.blocked \subseteq c.blocked
    BY <1>0, HandleSpawnMoves, CoordinatorAssumption
  <2>3. Becomes(e) BY <2>1
  <2> HIDE DEF e
  <2>4. Later(co, e) BY <1>0, <2>2, LaterTransitive DEF Moves
  <2>5. Joins(co, e)
    BY <1>0, <2>2 DEF Joins, Admitted, Moves, AddsNone
  <2> QED
    BY <2>2, <2>3, <2>4, <2>5, BecomesStep DEF Handled
<1>2. ASSUME NEW i \in Ids, Cancel(i)
      PROVE  Step(co, co')
  <2>1. Becomes(CancelOne(c, i)) BY <1>2 DEF Cancel
  <2> HIDE DEF c
  <2>2. Handled(co, CancelOne(c, i))
    BY <1>0, CancelOneMoves, MovesTransitive, MovesHandled
  <2> QED BY <2>1, <2>2, BecomesStep
<1>3. ASSUME NEW i \in Ids, Query(i)
      PROVE  Step(co, co')
  <2> DEFINE d == [c EXCEPT !.waiting = c.waiting \cup {i}]
  <2>1. (i \in Live(c) /\ Becomes(d)) \/ Becomes(c) BY <1>3 DEF Query
  <2> HIDE DEF c
  <2>2. ASSUME i \in Live(c)
        PROVE  Handled(co, d)
    <3>1. OnlyWaiters(c, d) BY ZenonT(60), <1>0 DEF State, OnlyWaiters
    <3>2. /\ d.waiting = c.waiting \cup {i} /\ d.buffer = c.buffer
          /\ d.cancelWaiters = c.cancelWaiters /\ d.teardown = c.teardown /\ d.blocked = c.blocked
      BY <1>0 DEF State
    <3> HIDE DEF d
    <3>3. Sound(d) /\ Later(c, d) /\ AddsNone(c, d)
      BY <1>0, <1>w, <2>2, <3>1, <3>2, WaitersMove DEF OnlyWaiters
    <3> QED BY <1>0, <3>3, AfterReap
  <2> QED BY <1>s, <2>1, <2>2, BecomesStep
<1>4. ASSUME NEW scope \in PromptCancels, CancelParentPrompt(scope)
      PROVE  Step(co, co')
  <2> DEFINE F == {i \in Live(c) : c.req[i].session = scope[1] /\ c.req[i].prompt = scope[2]}
  <2>1. Becomes(CancelAll(c, F)) BY <1>4 DEF CancelParentPrompt
  <2> HIDE DEF c, F
  <2>2. Handled(co, CancelAll(c, F))
    BY <1>0, CancelAllMoves, MovesTransitive, MovesHandled
  <2> QED BY <2>1, <2>2, BecomesStep
<1>5. ASSUME NEW scope \in Scopes, WaitPromptDrained(scope)
      PROVE  Step(co, co')
  <2> DEFINE d == [c EXCEPT !.drains = c.drains \cup {scope}]
  <2>1. Becomes(d) \/ Becomes(c) BY <1>5 DEF WaitPromptDrained
  <2> HIDE DEF c
  <2>2. scope \in Sessions \X {"p", "q"} BY CoordinatorAssumption
  <2>3. d \in State /\ SameRecords(c, d) /\ d.ahead = c.ahead
    BY ZenonT(60), <1>0, <2>2 DEF State, SameRecords
  <2> HIDE DEF d
  <2>4. Handled(co, d)
    BY <1>0, <2>3, MovesSame, MovesTransitive, MovesHandled
  <2> QED BY <1>s, <2>1, <2>4, BecomesStep
<1>6. ASSUME NEW s \in StopSessions, CancelParentSession(s)
      PROVE  Step(co, co')
  <2> DEFINE d == [c EXCEPT !.blocked = c.blocked \cup {s}]
             F == {i \in Live(d) : d.req[i].session = s /\ ~IsWorkflow(d, i)}
             e == CancelAll(d, F)
  <2>1. Becomes(e) BY <1>6 DEF CancelParentSession
  <2>2. s \in Sessions BY CoordinatorAssumption
  <2> HIDE DEF c, F
  <2>3. OnlyWaiters(c, d) BY ZenonT(60), <1>0, <2>2 DEF State, OnlyWaiters
  <2>4. /\ d.waiting = c.waiting /\ d.buffer = c.buffer
        /\ d.cancelWaiters = c.cancelWaiters /\ d.teardown = c.teardown
        /\ d.blocked = c.blocked \cup {s}
    BY <1>0, <2>2 DEF State
  <2> HIDE DEF d
  <2>5. Sound(d) /\ Later(c, d) /\ AddsNone(c, d)
    BY <1>0, <1>w, <2>3, <2>4, WaitersMove DEF OnlyWaiters
  <2>6. Moves(d, e) BY <2>5, CancelAllMoves
  <2> HIDE DEF e
  <2>7. Handled(co, e)
    BY <1>0, <2>5, <2>6, LaterTransitive, AfterReap DEF Moves
  <2> QED BY <2>1, <2>7, BecomesStep
<1>7. ASSUME NEW s \in StopSessions, OpenSpawnAdmission(s)
      PROVE  Step(co, co')
  <2> DEFINE d == [c EXCEPT !.blocked = c.blocked \ {s}]
  <2>1. (s \notin c.teardown /\ Becomes(d)) \/ Becomes(c) BY <1>7 DEF OpenSpawnAdmission
  <2> HIDE DEF c
  <2>2. ASSUME s \notin c.teardown
        PROVE  Handled(co, d)
    <3>1. OnlyWaiters(c, d) BY <1>0 DEF State, OnlyWaiters
    <3>2. /\ d.waiting = c.waiting /\ d.buffer = c.buffer
          /\ d.cancelWaiters = c.cancelWaiters /\ d.teardown = c.teardown
          /\ d.blocked = c.blocked \ {s}
      BY <1>0 DEF State
    <3> HIDE DEF d
    <3>3. Sound(d) /\ Later(c, d) /\ AddsNone(c, d)
      BY <1>0, <1>w, <2>2, <3>1, <3>2, WaitersMove DEF OnlyWaiters
    <3> QED BY <1>0, <3>3, AfterReap
  <2> QED BY <1>s, <2>1, <2>2, BecomesStep
<1>8. ASSUME NEW r \in Runs, CancelWorkflow(r)
      PROVE  Step(co, co')
  <2> DEFINE left == WorkflowOutstanding(c, r)
             cw == IF left = {} THEN c.cancelWaiters ELSE c.cancelWaiters \cup {r}
             tk == c.token \cup left
             d == [c EXCEPT !.token = tk, !.cancelWaiters = cw]
  <2>1. Becomes(d) BY <1>8 DEF CancelWorkflow
  <2> HIDE DEF c
  <2>2. left \subseteq Ids /\ cw \subseteq Runs /\ tk \subseteq Ids
    BY <1>0 DEF State, WorkflowOutstanding, Executing, In
  <2>3. \A x \in cw : x \in c.cancelWaiters \/ WorkflowOutstanding(c, x) # {}
    OBVIOUS
  <2> HIDE DEF left, cw, tk
  <2>4. OnlyWaiters(c, d) BY <1>0, <2>2 DEF State, OnlyWaiters
  <2>5. /\ d.waiting = c.waiting /\ d.buffer = c.buffer
        /\ d.cancelWaiters = cw /\ d.teardown = c.teardown /\ d.blocked = c.blocked
    BY <1>0, <2>2 DEF State
  <2> HIDE DEF d
  <2>6. Sound(d) /\ Later(c, d) /\ AddsNone(c, d)
    BY <1>0, <1>w, <2>3, <2>4, <2>5, WaitersMove DEF OnlyWaiters
  <2>7. Handled(co, d) BY <1>0, <2>6, AfterReap
  <2> QED BY <2>1, <2>7, BecomesStep
<1>9. ASSUME NEW s \in TeardownSessions, Completions(s)
      PROVE  Step(co, co')
  <2> DEFINE bu == {b \in c.buffer : b[1] # s}
             d == [c EXCEPT !.buffer = bu]
  <2>1. Becomes(d) BY <1>9 DEF Completions
  <2> HIDE DEF c
  <2>2. bu \subseteq c.buffer OBVIOUS
  <2> HIDE DEF bu
  <2>3. OnlyWaiters(c, d) BY <1>0, <2>2 DEF State, OnlyWaiters
  <2>4. /\ d.waiting = c.waiting /\ d.buffer = bu
        /\ d.cancelWaiters = c.cancelWaiters /\ d.teardown = c.teardown /\ d.blocked = c.blocked
    BY <1>0, <2>2 DEF State
  <2> HIDE DEF d
  <2>5. Sound(d) /\ Later(c, d) /\ AddsNone(c, d)
    BY <1>0, <1>w, <2>2, <2>3, <2>4, WaitersMove DEF OnlyWaiters
  <2>6. Handled(co, d) BY <1>0, <2>5, AfterReap
  <2> QED BY <2>1, <2>6, BecomesStep
<1> QED BY <1>1, <1>2, <1>3, <1>4, <1>5, <1>6, <1>7, <1>8, <1>9

\* Tearing a session down: its children are silenced and cancelled, and a delete that
\* leaves some behind waits for them with the session's admission closed.
LEMMA TeardownStep ==
    ASSUME Calm(co), NEW s \in TeardownSessions, NEW delete \in BOOLEAN,
           TeardownSession(s, delete)
    PROVE  Step(co, co')
<1> DEFINE c == Reap(co)
           F == SessionChildren(c, s)
           d == Silenced(c, s, F)
           c1 == CancelAll(d, F)
           e == [c1 EXCEPT !.blocked = c1.blocked \cup {s}, !.teardown = c1.teardown \cup {s}]
<1>0. Moves(co, c) /\ Sound(c)
  BY ReapMoves DEF Calm, Moves
<1>1. Becomes(c1) \/ (SessionChildren(c1, s) # {} /\ Becomes(e))
  BY DEF TeardownSession
<1> HIDE DEF c
<1>2. Moves(c, d) BY <1>0, SilencedMoves
<1> HIDE DEF d, F
<1>3. Moves(d, c1) BY <1>2, CancelAllMoves DEF Moves
<1>4. Moves(co, c1) BY <1>0, <1>2, <1>3, MovesTransitive
<1> HIDE DEF c1
<1>5. /\ c1 \in State /\ Sound(c1)
      /\ \A r \in c1.cancelWaiters : WorkflowOutstanding(c1, r) # {}
      /\ \A x \in c1.teardown : SessionChildren(c1, x) # {} /\ x \in c1.blocked
      /\ c1.waiting \subseteq Live(c1)
  BY <1>4 DEF Moves, Sound, Tidy, WaitersFit, Full, Core
<1>6. ASSUME SessionChildren(c1, s) # {}
      PROVE  Handled(co, e)
  <2>1. s \in Sessions BY CoordinatorAssumption
  <2>2. OnlyWaiters(c1, e) BY ZenonT(60), <1>5, <2>1 DEF State, OnlyWaiters
  <2>3. /\ e.waiting = c1.waiting /\ e.buffer = c1.buffer /\ e.cancelWaiters = c1.cancelWaiters
        /\ e.teardown = c1.teardown \cup {s} /\ e.blocked = c1.blocked \cup {s}
    BY <1>5, <2>1 DEF State
  <2> HIDE DEF e
  <2>4. Sound(e) /\ Later(c1, e) /\ AddsNone(c1, e)
    BY <1>5, <1>6, <2>2, <2>3, WaitersMove DEF OnlyWaiters
  <2> QED BY <1>4, <2>4, AfterReap
<1>7. Handled(co, c1) BY <1>4, MovesHandled
<1> QED BY <1>1, <1>6, <1>7, BecomesStep

\* A child that executes finishes.
LEMMA FinishOneMoves ==
    ASSUME NEW c, Sound(c), NEW i \in Ids, i \in Executing(c), NEW result
    PROVE  Moves(c, Finish(c, {i}, result))
<1> DEFINE e == Finish(c, {i}, result)
<1>1. c.phase[i] # "none" /\ \A j \in {i} : c.phase[j] # "completed"
  BY DEF Executing, In
<1>2. Core(c) /\ Tidy(c, {}) /\ {i} \in SUBSET Ids /\ {} \in SUBSET {i}
  BY DEF Sound, Full
<1>3. MovesOut(c, {i}, e) BY <1>1, <1>2, FinishMoves
<1> HIDE DEF e
<1>4. Moves(c, e) BY <1>1, <1>3 DEF MovesOut, Moves, AddsNone
<1> QED BY <1>4 DEF e

\* A child is promoted from pending to active.
LEMMA PromotedMoves ==
    ASSUME NEW c, Sound(c), NEW i \in Ids, c.phase[i] = "pending", NEW e \in State,
           e.phase = [c.phase EXCEPT ![i] = "active"], e.ahead = c.ahead, e.req = c.req,
           e.told = c.told, e.reply = c.reply, e.handleOnly = c.handleOnly,
           e.runs = c.runs, e.terminal = c.terminal, e.waiting = c.waiting,
           e.buffer = c.buffer, e.notified = c.notified, e.torn = c.torn,
           e.cancelWaiters = c.cancelWaiters, e.teardown = c.teardown, e.blocked = c.blocked
    PROVE  Moves(c, e)
<1>0. c \in State /\ Tidy(c, {}) BY DEF Sound, Full, Core
<1>1. \A j \in Ids : e.phase[j] = IF j = i THEN "active" ELSE c.phase[j]
  BY <1>0 DEF State
<1>2. Live(e) = Live(c) /\ Executing(e) = Executing(c) /\ Queued(e) = Queued(c)
  BY <1>1 DEF Live, Executing, Queued, In
<1>3. Full(e) BY <1>0, <1>2, SameShape DEF Sound, Full
<1>4. Later(c, e) /\ AddsNone(c, e)
  BY <1>1 DEF Later, Forward, KeepsLine, InFront, AddsNone
<1>5. CallersHeld(e, {}) /\ RunsFit(e)
  BY <1>0, <1>2 DEF Tidy, CallersHeld, RunsFit
<1>6. DeliveryFits(e, {})
  <2>1. c.notified \subseteq Ids BY <1>0 DEF State
  <2> QED BY <1>0, <1>1, <1>2, <2>1 DEF Tidy, DeliveryFits
<1>7. SilentFits(e)
  <2>1. c.torn \subseteq Ids BY <1>0 DEF State
  <2> QED BY <1>0, <1>1, <1>2, <2>1 DEF Tidy, SilentFits
<1>8. WaitersFit(e)
  <2>1. /\ \A r : WorkflowOutstanding(e, r) = WorkflowOutstanding(c, r)
        /\ \A s : SessionChildren(e, s) = SessionChildren(c, s)
    BY <1>2 DEF WorkflowOutstanding, SessionChildren
  <2> QED BY <1>0, <1>2, <2>1 DEF Tidy, WaitersFit
<1> QED BY <1>3, <1>4, <1>5, <1>6, <1>7, <1>8 DEF Moves, Sound, Tidy

\* The output of a run is buffered.
LEMMA BufferedMoves ==
    ASSUME NEW c, Sound(c), NEW i \in c.runs,
           NEW e, e = [c EXCEPT !.runs = c.runs \ {i}, !.terminal = c.terminal \cup {i}]
    PROVE  Moves(c, e)
<1>0. c \in State /\ Tidy(c, {}) /\ i \in Ids BY DEF Sound, Full, Core, State
<1> DEFINE rn == c.runs \ {i}
           tm == c.terminal \cup {i}
           n == [c EXCEPT !.runs = rn, !.terminal = tm]
<1>t. e = n /\ rn \subseteq Ids /\ tm \subseteq Ids BY <1>0 DEF State
<1> HIDE DEF rn, tm
<1>n. /\ n \in State /\ n.runs = rn /\ n.terminal = tm
      /\ n.phase = c.phase /\ n.ahead = c.ahead /\ n.req = c.req /\ n.told = c.told
      /\ n.reply = c.reply /\ n.handleOnly = c.handleOnly
  BY <1>0, <1>t DEF State
<1>1. /\ e \in State /\ e.runs = c.runs \ {i} /\ e.terminal = c.terminal \cup {i}
      /\ e.phase = c.phase /\ e.ahead = c.ahead /\ e.req = c.req /\ e.told = c.told
      /\ e.reply = c.reply /\ e.handleOnly = c.handleOnly
  BY <1>t, <1>n DEF rn, tm
<1>2. /\ e.waiting = c.waiting /\ e.buffer = c.buffer /\ e.notified = c.notified
      /\ e.torn = c.torn /\ e.cancelWaiters = c.cancelWaiters /\ e.teardown = c.teardown
      /\ e.blocked = c.blocked
  BY <1>0 DEF State
<1>3. Full(e) BY <1>1, SameFull DEF Sound
<1>4. Later(c, e) /\ AddsNone(c, e) BY <1>0, <1>1, LaterSame
<1>5. Live(e) = Live(c) /\ Executing(e) = Executing(c) BY <1>1 DEF Live, Executing, In
<1>6. CallersHeld(e, {}) BY <1>0, <1>1, <1>5 DEF Tidy, CallersHeld
<1>7. RunsFit(e) BY <1>0, <1>1, <1>5 DEF Tidy, RunsFit
<1>8. DeliveryFits(e, {}) /\ SilentFits(e)
  BY <1>0, <1>1, <1>2, <1>5 DEF Tidy, DeliveryFits, SilentFits
<1>9. WaitersFit(e)
  <2>1. /\ \A r : WorkflowOutstanding(e, r) = WorkflowOutstanding(c, r)
        /\ \A s : SessionChildren(e, s) = SessionChildren(c, s)
    BY <1>1, <1>5 DEF WorkflowOutstanding, SessionChildren
  <2> QED BY <1>0, <1>2, <1>5, <2>1 DEF Tidy, WaitersFit
<1> QED BY <1>2, <1>3, <1>4, <1>6, <1>7, <1>8, <1>9 DEF Moves, Sound, Tidy

\* What the runner and the clock do.
LEMMA EventsStep ==
    ASSUME Calm(co)
    PROVE  /\ \A i \in Ids : Started(i) => Step(co, co')
           /\ \A i \in Ids, result \in Results, busy \in BOOLEAN :
                 RunEnds(i, result, busy) => Step(co, co')
           /\ \A i \in Ids, result \in Results : AdmissionSettles(i, result) => Step(co, co')
           /\ CallerAbandoned => Step(co, co')
           /\ DeadlineElapses => Step(co, co')
<1>0. Sound(co) /\ co \in State
  BY DEF Calm, Sound, Full, Core
<1>e. \A i \in Ids : i \in co.runs \/ i \in co.terminal => i \in Executing(co)
  BY <1>0 DEF Sound, Tidy, RunsFit
<1>s. Handled(co, co)
  BY <1>0, MovesSame, MovesHandled DEF SameRecords
<1>1. ASSUME NEW i \in Ids, Started(i)
      PROVE  Step(co, co')
  <2> DEFINE db == co.defBackground \cup ({i} \cap BackgroundIds)
             d == [co EXCEPT !.phase[i] = "active", !.defBackground = db]
  <2>1. co.phase[i] = "pending" /\ (Becomes(d) \/ Becomes(co))
    BY <1>1 DEF Started
  <2>2. db \subseteq Ids
    BY <1>0 DEF State
  <2> HIDE DEF db
  <2>3. /\ d \in State /\ d.ahead = co.ahead /\ d.req = co.req
        /\ d.phase = [co.phase EXCEPT ![i] = "active"]
        /\ d.told = co.told /\ d.reply = co.reply /\ d.handleOnly = co.handleOnly
        /\ d.runs = co.runs /\ d.terminal = co.terminal /\ d.waiting = co.waiting
    BY ZenonT(60), <1>0, <2>2 DEF State, Phases
  <2>4. /\ d.buffer = co.buffer /\ d.notified = co.notified /\ d.torn = co.torn
        /\ d.cancelWaiters = co.cancelWaiters /\ d.teardown = co.teardown /\ d.blocked = co.blocked
    BY <1>0, <2>2 DEF State, Phases
  <2> HIDE DEF d
  <2>5. Moves(co, d) BY <1>0, <2>1, <2>3, <2>4, PromotedMoves
  <2>6. Handled(co, d) BY <2>5, MovesHandled
  <2> QED BY <1>s, <2>1, <2>6, BecomesStep
<1>2. ASSUME NEW i \in Ids, NEW result \in Results, NEW busy \in BOOLEAN,
             RunEnds(i, result, busy)
      PROVE  Step(co, co')
  <2> DEFINE d == [co EXCEPT !.runs = co.runs \ {i}, !.terminal = co.terminal \cup {i}]
             e == Finish(co, {i}, result)
  <2>1. i \in co.runs /\ (Becomes(d) \/ Becomes(e)) BY <1>2 DEF RunEnds
  <2>2. Moves(co, d) BY <1>0, <2>1, BufferedMoves
  <2>3. Moves(co, e) BY <1>0, <1>e, <2>1, FinishOneMoves
  <2> HIDE DEF d, e
  <2>4. Handled(co, d) /\ Handled(co, e) BY <2>2, <2>3, MovesHandled
  <2> QED BY <2>1, <2>4, BecomesStep
<1>3. ASSUME NEW i \in Ids, NEW result \in Results, AdmissionSettles(i, result)
      PROVE  Step(co, co')
  <2> DEFINE d == [co EXCEPT !.token = co.token \cup {i}]
             e == Finish(co, {i}, result)
             f == Finish(d, {i}, result)
  <2>1. i \in co.terminal /\ (Becomes(f) \/ Becomes(e)) BY <1>3 DEF AdmissionSettles
  <2>2. d \in State /\ SameRecords(co, d) /\ d.ahead = co.ahead
    BY ZenonT(60), <1>0 DEF State, SameRecords
  <2> HIDE DEF d
  <2>3. Moves(co, d) BY <1>0, <2>2, MovesSame
  <2>4. i \in Executing(co) /\ i \in Executing(d)
    BY <1>e, <2>1, <2>2 DEF SameRecords, Executing, In
  <2>5. Moves(co, e) BY <1>0, <2>4, FinishOneMoves
  <2>6. Moves(d, f) BY <2>3, <2>4, FinishOneMoves DEF Moves
  <2> HIDE DEF e, f
  <2>7. Handled(co, e) /\ Handled(co, f)
    BY <2>3, <2>5, <2>6, MovesTransitive, MovesHandled
  <2> QED BY <2>1, <2>7, BecomesStep
<1>4. ASSUME CallerAbandoned
      PROVE  Step(co, co')
  <2>1. Becomes(Reap(co)) BY <1>4 DEF CallerAbandoned
  <2>2. Handled(co, Reap(co)) BY <1>0, ReapMoves, MovesHandled
  <2> QED BY <2>1, <2>2, BecomesStep
<1>5. ASSUME DeadlineElapses
      PROVE  Step(co, co')
  <2>1. PICK callers \in SUBSET co.deadline, holds \in SUBSET co.teardown,
             queries \in SUBSET co.waiting : ProcessDeadlines(callers, holds, queries)
    BY <1>5 DEF DeadlineElapses
  <2> DEFINE c == Reap(co)
             d == [c EXCEPT !.teardown = c.teardown \ holds,
                            !.blocked = c.blocked \ (holds \cap c.teardown)]
             h == HandOff(d, callers \cap c.deadline)
             e == [h EXCEPT !.waiting = h.waiting \ queries]
  <2>2. Becomes(e) BY <2>1 DEF ProcessDeadlines
  <2>3. Moves(co, c) BY <1>0, ReapMoves
  <2> HIDE DEF c
  <2>4. /\ c \in State /\ Sound(c)
        /\ \A r \in c.cancelWaiters : WorkflowOutstanding(c, r) # {}
        /\ \A x \in c.teardown : SessionChildren(c, x) # {} /\ x \in c.blocked
        /\ c.waiting \subseteq Live(c)
    BY <2>3 DEF Moves, Sound, Tidy, WaitersFit, Full, Core
  <2>5. OnlyWaiters(c, d) BY <2>4 DEF State, OnlyWaiters
  <2>6. /\ d.waiting = c.waiting /\ d.buffer = c.buffer /\ d.cancelWaiters = c.cancelWaiters
        /\ d.teardown = c.teardown \ holds /\ d.blocked = c.blocked \ (holds \cap c.teardown)
    BY <2>4 DEF State
  <2> HIDE DEF d
  <2>7. Sound(d) /\ Later(c, d) /\ AddsNone(c, d)
    BY <2>4, <2>5, <2>6, WaitersMove DEF OnlyWaiters
  <2>8. Moves(d, h) BY <2>7, HandOffMoves
  <2> HIDE DEF h
  <2>9. /\ h \in State /\ Sound(h)
        /\ \A r \in h.cancelWaiters : WorkflowOutstanding(h, r) # {}
        /\ \A x \in h.teardown : SessionChildren(h, x) # {} /\ x \in h.blocked
        /\ h.waiting \subseteq Live(h)
    BY <2>8 DEF Moves, Sound, Tidy, WaitersFit, Full, Core
  <2>10. OnlyWaiters(h, e) BY <2>9 DEF State, OnlyWaiters
  <2>11. /\ e.waiting = h.waiting \ queries /\ e.buffer = h.buffer
         /\ e.cancelWaiters = h.cancelWaiters
         /\ e.teardown = h.teardown /\ e.blocked = h.blocked
    BY <2>9 DEF State
  <2> HIDE DEF e
  <2>12. Sound(e) /\ Later(h, e) /\ AddsNone(h, e)
    BY <2>9, <2>10, <2>11, WaitersMove DEF OnlyWaiters
  <2>13. Later(c, h) /\ AddsNone(c, h)
    BY <2>7, <2>8, LaterTransitive DEF Moves
  <2>14. Later(c, e) /\ AddsNone(c, e)
    BY <2>12, <2>13, LaterTransitive
  <2>15. Handled(co, e)
    BY <2>3, <2>12, <2>14, AfterReap
  <2> QED BY <2>2, <2>15, BecomesStep
<1> QED BY <1>1, <1>2, <1>3, <1>4, <1>5

\* A step outside the actor, which leaves drains and what blocks a turn alone.
LEMMA OutsideStep ==
    ASSUME Calm(co), NEW d, Sound(d), Later(co, d), AddsNone(co, d), d.drains = co.drains,
           \A scope \in co.drains : TurnBlocking(d, scope) = TurnBlocking(co, scope)
    PROVE  Step(co, d)
<1>1. Calm(d) BY DEF Calm
<1>2. FirstOut(co, d) BY DEF FirstOut, Later, KeepsLine
<1>3. BarrierHeld(co, d)
  <2> SUFFICES ASSUME NEW s \in co.blocked \cap d.blocked, NEW i \in SessionChildren(d, s)
               PROVE  i \in SessionChildren(co, s)
    BY DEF BarrierHeld
  <2>1. i \in Ids /\ i \in Live(d) /\ d.req[i].session = s
    BY DEF SessionChildren, Live, In
  <2>2. co.phase[i] # "none" /\ co.phase[i] # "completed" /\ co.req[i].session = s
    BY <2>1 DEF AddsNone, Later, Forward, Live, In
  <2>3. i \in Live(co)
    BY <2>1, <2>2, PhaseOf DEF Live, In, Phases, Calm
  <2> QED BY <2>2, <2>3 DEF SessionChildren
<1> QED BY <1>1, <1>2, <1>3 DEF Step

\* What callers do.
LEMMA CallersStep ==
    ASSUME Calm(co), NEW i \in Ids, CallerLeaves(i) \/ TokenCancelled(i) \/ QueryLeaves(i)
    PROVE  Step(co, co')
<1>0. Sound(co) /\ co \in State
  BY DEF Calm, Sound, Full, Core
<1>1. ASSUME CallerLeaves(i)
      PROVE  Step(co, co')
  <2> DEFINE rp == [co.reply EXCEPT ![i] = "closed"]
             to == [co.told EXCEPT ![i] = "gone"]
             d == [co EXCEPT !.reply = rp, !.told = to]
  <2>1. co' = d /\ co.reply[i] = "open" BY <1>1 DEF CallerLeaves
  <2>2. /\ rp \in [Ids -> {"open", "closed", "none"}] /\ to \in [Ids -> Told]
        /\ \A j \in Ids : /\ rp[j] = IF j = i THEN "closed" ELSE co.reply[j]
                          /\ to[j] = IF j = i THEN "gone" ELSE co.told[j]
    BY <1>0 DEF State, Told
  <2> HIDE DEF rp, to
  <2>3. /\ d \in State /\ d.reply = rp /\ d.handleOnly = co.handleOnly /\ d.told = to
        /\ d.phase = co.phase /\ d.req = co.req /\ d.runs = co.runs /\ d.terminal = co.terminal
        /\ d.ahead = co.ahead /\ d.drains = co.drains /\ d.defBackground = co.defBackground
    BY <1>0, <2>2 DEF State
  <2>4. /\ d.waiting = co.waiting /\ d.buffer = co.buffer /\ d.notified = co.notified
        /\ d.torn = co.torn /\ d.cancelWaiters = co.cancelWaiters
        /\ d.teardown = co.teardown /\ d.blocked = co.blocked
    BY <1>0, <2>2 DEF State
  <2> HIDE DEF d
  <2>5. Moves(co, d)
    BY <1>0, <2>2, <2>3, <2>4, RepliesTidy
  <2>6. \A scope : TurnBlocking(d, scope) = TurnBlocking(co, scope)
    BY <2>1, <2>2, <2>3 DEF TurnBlocking, IsWorkflow, Live, In
  <2> QED BY <2>1, <2>3, <2>5, <2>6, OutsideStep DEF Moves
<1>2. ASSUME TokenCancelled(i)
      PROVE  Step(co, co')
  <2> DEFINE d == [co EXCEPT !.token = co.token \cup {i}]
  <2>1. co' = d BY <1>2 DEF TokenCancelled
  <2>2. d \in State /\ SameRecords(co, d) /\ d.ahead = co.ahead
    BY ZenonT(60), <1>0 DEF State, SameRecords
  <2>3. d.drains = co.drains /\ d.defBackground = co.defBackground
    BY <1>0 DEF State
  <2> HIDE DEF d
  <2>4. Moves(co, d) BY <1>0, <2>2, MovesSame
  <2>5. \A scope : TurnBlocking(d, scope) = TurnBlocking(co, scope)
    BY <2>2, <2>3 DEF SameRecords, TurnBlocking, IsWorkflow, Live, In
  <2> QED BY <2>1, <2>3, <2>4, <2>5, OutsideStep DEF Moves
<1>3. ASSUME QueryLeaves(i)
      PROVE  Step(co, co')
  <2> DEFINE d == [co EXCEPT !.waiting = co.waiting \ {i}]
  <2>1. co' = d BY <1>3 DEF QueryLeaves
  <2>2. OnlyWaiters(co, d) BY <1>0 DEF State, OnlyWaiters
  <2>3. /\ d.waiting = co.waiting \ {i} /\ d.buffer = co.buffer
        /\ d.cancelWaiters = co.cancelWaiters /\ d.teardown = co.teardown /\ d.blocked = co.blocked
        /\ d.drains = co.drains /\ d.defBackground = co.defBackground
    BY <1>0 DEF State
  <2> HIDE DEF d
  <2>4. /\ \A r \in co.cancelWaiters : WorkflowOutstanding(co, r) # {}
        /\ \A s \in co.teardown : SessionChildren(co, s) # {} /\ s \in co.blocked
        /\ co.waiting \subseteq Live(co)
    BY <1>0 DEF Sound, Tidy, WaitersFit
  <2>5. Sound(d) /\ Later(co, d) /\ AddsNone(co, d)
    BY <1>0, <2>2, <2>3, <2>4, WaitersMove DEF OnlyWaiters
  <2>6. \A scope : TurnBlocking(d, scope) = TurnBlocking(co, scope)
    BY <2>2, <2>3 DEF OnlyWaiters, TurnBlocking, IsWorkflow, Live, In
  <2> QED BY <2>1, <2>3, <2>5, <2>6, OutsideStep
<1> QED BY <1>1, <1>2, <1>3

\* Every iteration of run, and every step of its environment.
LEMMA NextStep ==
    ASSUME Calm(co), Next
    PROVE  Step(co, co')
BY CommandsStep, TeardownStep, EventsStep, CallersStep DEF Next

\* The coordinator that from_receivers builds has no records at all.
LEMMA InitCalm ==
    ASSUME Init
    PROVE  Calm(co)
<1>1. Full(co) BY InitFull DEF IInv
<1>2. /\ \A i \in Ids : co.phase[i] = "none" /\ co.told[i] = "no"
      /\ co.runs = {} /\ co.terminal = {} /\ co.handleOnly = {} /\ co.notified = {}
      /\ co.torn = {} /\ co.cancelWaiters = {} /\ co.teardown = {} /\ co.waiting = {}
      /\ co.drains = {}
  BY DEF Init
<1>3. CallersHeld(co, {}) /\ RunsFit(co)
  BY <1>2 DEF CallersHeld, RunsFit, Executing, In
<1>4. DeliveryFits(co, {}) /\ SilentFits(co) /\ WaitersFit(co)
  BY <1>2 DEF DeliveryFits, SilentFits, WaitersFit
<1> QED BY <1>1, <1>2, <1>3, <1>4 DEF Calm, Sound, Tidy
----------------------------------------------------------------------------
(* The theorems *)

\* The inductive invariant: in every reachable state the records fit the children that
\* are alive and whoever is parked has something to wait for.
THEOREM RecordsTidy == Spec => [](IInv /\ TidyInv)
<1>1. Calm(co) <=> IInv /\ TidyInv
  BY DEF Calm, Sound, IInv, TidyInv
<1>2. Init => IInv /\ TidyInv
  BY <1>1, InitCalm
<1>3. IInv /\ TidyInv /\ [Next]_vars => (IInv /\ TidyInv)'
  <2>1. ASSUME IInv, TidyInv, Next
        PROVE  (IInv /\ TidyInv)'
    <3>1. Calm(co') BY <1>1, <2>1, NextStep DEF Step
    <3> QED BY <3>1 DEF Calm, Sound, IInv, TidyInv
  <2>2. ASSUME IInv, TidyInv, UNCHANGED vars
        PROVE  (IInv /\ TidyInv)'
    BY <2>2 DEF vars, IInv, TidyInv
  <2> QED BY <2>1, <2>2
<1> QED BY <1>2, <1>3, PTL DEF Spec

\* No path through queueing, dequeueing, handing off, cancelling and finishing drops the
\* reply of a spawn caller that still listens.
THEOREM CallersAnswered == Spec => []CallerNotStranded
<1>1. TidyInv => CallerNotStranded
  BY DEF TidyInv, Tidy, CallersHeld, CallerNotStranded
<1> QED BY <1>1, RecordsTidy, PTL

\* No run of the runner is orphaned and no child waits for a run that is gone: start_child,
\* the buffering of terminal_outputs and finish_child keep the two in step.
THEOREM RunsMatch == Spec => []RunsMatchChildren
<1>1. IInv /\ TidyInv => RunsMatchChildren
  <2> SUFFICES ASSUME IInv, TidyInv
               PROVE  RunsMatchChildren
    OBVIOUS
  <2>1. co.runs \subseteq Ids /\ co.terminal \subseteq Ids /\ Executing(co) \subseteq Ids
    BY DEF IInv, Full, Core, State, Executing, In
  <2> QED BY <2>1 DEF TidyInv, Tidy, RunsFit, RunsMatchChildren
<1> QED BY <1>1, RecordsTidy, PTL

\* A foreground caller that received its result is not notified of it as well, however
\* late the hand-off, the caller's departure or the dequeueing came.
THEOREM DeliveriesOnce == Spec => []DeliveredOnce
<1>1. TidyInv => DeliveredOnce
  BY DEF TidyInv, Tidy, DeliveryFits, DeliveredOnce
<1> QED BY <1>1, RecordsTidy, PTL

\* A child alive when its session was torn down leaves no completion in the buffer, in
\* whatever way it ends.
THEOREM TeardownsSilent == Spec => []TornDownStaysSilent
<1>1. TidyInv => TornDownStaysSilent
  BY DEF TidyInv, Tidy, SilentFits, TornDownStaysSilent
<1> QED BY <1>1, RecordsTidy, PTL

\* Whoever is parked on a turn, a workflow run, a teardown or a child has a live child to
\* wait for: the iteration in which the last one goes away answers it.
THEOREM WaitersRemembered == Spec => []NobodyForgotten
<1>1. TidyInv => NobodyForgotten
  BY DEF TidyInv, Tidy, WaitersFit, NobodyForgotten
<1> QED BY <1>1, RecordsTidy, PTL

\* While a session stays stopped it gains no Task child, by a late spawn, by a nested one
\* or out of the queue.
THEOREM StopHolds == Spec => StopBarrier
<1>1. IInv /\ TidyInv /\ [Next]_vars =>
        [\A s \in co.blocked \cap co'.blocked :
            {i \in SessionChildren(co', s) : ~IsWorkflow(co', i)}
                \subseteq SessionChildren(co, s)]_vars
  <2> SUFFICES ASSUME IInv, TidyInv, Next
               PROVE  \A s \in co.blocked \cap co'.blocked :
                          {i \in SessionChildren(co', s) : ~IsWorkflow(co', i)}
                              \subseteq SessionChildren(co, s)
    OBVIOUS
  <2>1. Calm(co) BY DEF Calm, Sound, IInv, TidyInv
  <2>2. BarrierHeld(co, co') BY <2>1, NextStep DEF Step
  <2> QED BY <2>2 DEF BarrierHeld
<1> QED BY <1>1, RecordsTidy, PTL DEF Spec, StopBarrier

\* start_queued_within_capacity serves each session in arrival order, for any number of
\* spawns started, cancelled and finished in one iteration.
THEOREM QueueFifo == Spec => QueueIsFifo
<1>1. IInv /\ TidyInv /\ [Next]_vars =>
        [\A i, j \in Ids :
            /\ co.phase[i] = "queued" /\ co.phase[j] = "queued"
            /\ co.req[i].session = co.req[j].session /\ i \in co.ahead[j]
            /\ co'.phase[j] = "pending"
            => co'.phase[i] # "queued"]_vars
  <2> SUFFICES ASSUME IInv, TidyInv, Next, NEW i \in Ids, NEW j \in Ids,
                      co.phase[i] = "queued", co.phase[j] = "queued",
                      co.req[i].session = co.req[j].session, i \in co.ahead[j],
                      co'.phase[j] = "pending"
               PROVE  co'.phase[i] # "queued"
    OBVIOUS
  <2>1. Calm(co) BY DEF Calm, Sound, IInv, TidyInv
  <2>2. FirstOut(co, co') BY <2>1, NextStep DEF Step
  <2> QED BY <2>2 DEF FirstOut, InFront
<1> QED BY <1>1, RecordsTidy, PTL DEF Spec, QueueIsFifo

=============================================================================
