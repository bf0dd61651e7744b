--------------------- MODULE SubagentCoordinatorProofs ---------------------
(***************************************************************************)
(* What holds of the subagent coordinator for every set of ids, sessions,  *)
(* runs and requests and every limit: its state is well typed, no session  *)
(* runs more Task children than its limit, and no slot is idle while a     *)
(* spawn of the session is queued.                                         *)
(***************************************************************************)
EXTENDS SubagentCoordinator, FiniteSetTheorems, TLAPS

(***************************************************************************)
(* Ranks in a finite strict total order.  A[u] is the set of elements in   *)
(* front of u.                                                             *)
(***************************************************************************)
StrictOrder(A, U) ==
    /\ A \in [U -> SUBSET U]
    /\ \A u \in U : u \notin A[u]
    /\ \A u, v \in U : u # v => u \in A[v] \/ v \in A[u]
    /\ \A u, v, w \in U : u \in A[v] /\ v \in A[w] => u \in A[w]

\* The rank of an element of a finite order is a natural number below the order's
\* size, and no two elements have the same rank.
LEMMA RankInjective ==
    ASSUME NEW U, IsFiniteSet(U), NEW A, StrictOrder(A, U)
    PROVE  /\ \A u \in U : Cardinality(A[u]) \in Nat /\ Cardinality(A[u]) < Cardinality(U)
           /\ \A u, v \in U : u # v => Cardinality(A[u]) # Cardinality(A[v])
<1>0. Cardinality(U) \in Nat
  BY FS_CardinalityType
<1>1. ASSUME NEW u \in U
      PROVE  IsFiniteSet(A[u]) /\ Cardinality(A[u]) \in Nat
  BY FS_Subset, FS_CardinalityType DEF StrictOrder
<1>2. ASSUME NEW u \in U, NEW v \in U, u \in A[v]
      PROVE  Cardinality(A[u]) < Cardinality(A[v])
  <2>1. /\ Cardinality(A[u] \cup {u}) = Cardinality(A[u]) + 1
        /\ A[u] \cup {u} \subseteq A[v]
    BY <1>1, <1>2, FS_AddElement DEF StrictOrder
  <2>2. Cardinality(A[u] \cup {u}) <= Cardinality(A[v])
    BY <2>1, <1>1, FS_Subset
  <2> QED
    BY <2>1, <2>2, <1>1
<1>3. ASSUME NEW u \in U
      PROVE  Cardinality(A[u]) < Cardinality(U)
  <2>1. A[u] \subseteq U /\ A[u] # U
    BY DEF StrictOrder
  <2> QED
    BY <2>1, <1>0, <1>1, FS_Subset
<1>4. ASSUME NEW u \in U, NEW v \in U, u # v
      PROVE  Cardinality(A[u]) # Cardinality(A[v])
  <2>1. u \in A[v] \/ v \in A[u]
    BY <1>4 DEF StrictOrder
  <2> QED
    BY <2>1, <1>1, <1>2
<1> QED
  BY <1>1, <1>3, <1>4

\* The elements with fewer than k elements in front of them.
FirstIn(A, U, k) == {u \in U : Cardinality(A[u]) < k}

\* At most k elements of a finite order have a rank below k, and exactly k have one
\* unless all of them do.
LEMMA FirstInOrder ==
    ASSUME NEW U, IsFiniteSet(U), NEW A, StrictOrder(A, U), NEW k \in Nat
    PROVE  /\ IsFiniteSet(FirstIn(A, U, k)) /\ Cardinality(FirstIn(A, U, k)) \in Nat
           /\ Cardinality(FirstIn(A, U, k)) <= k
           /\ FirstIn(A, U, k) # U => Cardinality(FirstIn(A, U, k)) = k
<1> DEFINE T == FirstIn(A, U, k)
           n == Cardinality(U)
           rank == [u \in U |-> Cardinality(A[u])]
           low == [u \in T |-> Cardinality(A[u])]
<1>0. n \in Nat
  BY FS_CardinalityType
<1>1. rank \in Injection(U, 0 .. n - 1) /\ low \in Injection(T, 0 .. k - 1)
  <2>1. \A u \in U : Cardinality(A[u]) \in 0 .. n - 1
    BY RankInjective, <1>0
  <2>2. \A u \in T : u \in U /\ Cardinality(A[u]) \in 0 .. k - 1
    BY RankInjective DEF FirstIn
  <2> HIDE DEF T
  <2>3. rank \in [U -> 0 .. n - 1] /\ low \in [T -> 0 .. k - 1]
    BY <2>1, <2>2
  <2>4. IsInjective(rank) /\ IsInjective(low)
    BY <2>2, RankInjective DEF IsInjective
  <2> QED
    BY <2>3, <2>4 DEF Injection
<1>2. /\ IsFiniteSet(0 .. k - 1) /\ Cardinality(0 .. k - 1) = k
      /\ IsFiniteSet(0 .. n - 1) /\ Cardinality(0 .. n - 1) = n
  <2>1. ASSUME NEW m \in Nat
        PROVE  IsFiniteSet(0 .. m - 1) /\ Cardinality(0 .. m - 1) = m
    <3>1. 0 \in Int /\ m - 1 \in Int
      OBVIOUS
    <3>2. Cardinality(0 .. m - 1) = IF 0 > m - 1 THEN 0 ELSE m - 1 - 0 + 1
      BY <3>1, FS_Interval
    <3> QED
      BY <3>1, <3>2, FS_Interval
  <2> QED
    BY <2>1, <1>0
<1>3. IsFiniteSet(T) /\ Cardinality(T) \in Nat /\ Cardinality(T) <= k
  <2> HIDE DEF low
  <2> QED
    BY <1>1, <1>2, FS_Injection, FS_CardinalityType
<1>4. ASSUME T # U
      PROVE  Cardinality(T) = k
  <2>1. PICK w \in U : ~(Cardinality(A[w]) < k)
    BY <1>4 DEF FirstIn
  <2>2. k <= n
    BY <2>1, <1>0, RankInjective
  <2>3. rank \in Surjection(U, 0 .. n - 1)
    <3> HIDE DEF rank, n
    <3>1. Cardinality(U) = n
      BY DEF n
    <3> QED
      BY <3>1, <1>1, <1>2, FS_Injection
  <2>4. low \in Surjection(T, 0 .. k - 1)
    BY <2>3, <2>2, <1>0, <1>1 DEF Surjection, Injection, FirstIn
  <2> HIDE DEF low
  <2> QED
    BY <2>4, <1>1, <1>2, FS_Injection
<1> QED
  BY <1>3, <1>4

----------------------------------------------------------------------------
(***************************************************************************)
(* The inductive invariant.  Core is what every handler and every helper   *)
(* preserves; NoIdleSlotIn is lost while children are being finished and   *)
(* is restored by the sweep of the queue.                                  *)
(***************************************************************************)
QueueOrder(c) ==
    /\ \A i \in Queued(c) : c.ahead[i] \subseteq Queued(c) /\ i \notin c.ahead[i]
    /\ \A i, j \in Queued(c) : i # j => i \in c.ahead[j] \/ j \in c.ahead[i]
    /\ \A i, j, k \in Queued(c) :
          i \in c.ahead[j] /\ j \in c.ahead[k] => i \in c.ahead[k]

QueuedAreTasks(c) == \A i \in Queued(c) : ~IsWorkflow(c, i)

Core(c) == c \in State /\ QueueOrder(c) /\ QueuedAreTasks(c) /\ SlotBoundIn(c)

Full(c) == Core(c) /\ NoIdleSlotIn(c)

\* Sets of ids are finite, so what is counted is a number.
LEMMA Counted ==
    ASSUME NEW c, NEW s
    PROVE  /\ IsFiniteSet(SessionRunning(c, s))
           /\ Cardinality(SessionRunning(c, s)) \in Nat
<1>1. SessionRunning(c, s) \subseteq Ids
  BY DEF SessionRunning, Executing, In
<1> QED
  BY <1>1, CoordinatorAssumption, FS_Subset, FS_CardinalityType

\* The invariant reads only which ids are queued and which execute, their order,
\* session and owner.
LEMMA SameShape ==
    ASSUME NEW c, Core(c), NEW e \in State,
           Queued(e) = Queued(c), Executing(e) = Executing(c),
           \A i \in Queued(c) : e.ahead[i] = c.ahead[i],
           \A i \in Live(c) : /\ e.req[i].session = c.req[i].session
                              /\ e.req[i].run = c.req[i].run
    PROVE  Core(e) /\ (NoIdleSlotIn(c) => NoIdleSlotIn(e))
<1>1. \A s : SessionRunning(e, s) = SessionRunning(c, s)
  BY DEF SessionRunning, IsWorkflow, Executing, Live, In
<1>2. QueueOrder(e)
  BY DEF QueueOrder, Core
<1>3. QueuedAreTasks(e)
  BY DEF QueuedAreTasks, Core, IsWorkflow, Queued, Live, In
<1>4. SlotBoundIn(e)
  BY <1>1 DEF SlotBoundIn, Core
<1>5. NoIdleSlotIn(c) => NoIdleSlotIn(e)
  BY <1>1 DEF NoIdleSlotIn, Queued, Live, In
<1> QED
  BY <1>2, <1>3, <1>4, <1>5 DEF Core

\* Taking ids out of the maps leaves phases, requests and completions alone.
LEMMA RemovedShape ==
    ASSUME NEW c \in State, NEW F \in SUBSET Ids
    PROVE  /\ Removed(c, F) \in State
           /\ Removed(c, F).ahead = [i \in Ids |-> IF i \in F THEN {} ELSE c.ahead[i] \ F]
           /\ Removed(c, F).token = c.token \ F
           /\ Removed(c, F).phase = c.phase /\ Removed(c, F).req = c.req
           /\ Removed(c, F).before = c.before /\ Removed(c, F).told = c.told
           /\ Removed(c, F).buffer = c.buffer /\ Removed(c, F).notified = c.notified
           /\ Removed(c, F).cancelWaiters = c.cancelWaiters
           /\ Removed(c, F).teardown = c.teardown /\ Removed(c, F).blocked = c.blocked
<1> DEFINE ah == [i \in Ids |-> IF i \in F THEN {} ELSE c.ahead[i] \ F]
           rp == [i \in Ids |-> IF i \in F THEN "none" ELSE c.reply[i]]
           c1 == [c EXCEPT !.ahead = ah, !.reply = rp, !.token = c.token \ F,
                           !.deadline = c.deadline \ F, !.handleOnly = c.handleOnly \ F]
           c2 == [c1 EXCEPT !.defBackground = c.defBackground \ F, !.killed = c.killed \ F,
                            !.runs = c.runs \ F, !.terminal = c.terminal \ F,
                            !.waiting = c.waiting \ F]
<1>1. Removed(c, F) = c2
  BY DEF Removed
<1>2. ah \in [Ids -> SUBSET Ids] /\ rp \in [Ids -> {"open", "closed", "none"}]
  BY DEF State
<1> HIDE DEF ah, rp
<1>3. /\ c1 \in State /\ c1.ahead = ah /\ c1.token = c.token \ F
      /\ c1.phase = c.phase /\ c1.req = c.req /\ c1.before = c.before /\ c1.told = c.told
      /\ c1.buffer = c.buffer /\ c1.notified = c.notified
      /\ c1.cancelWaiters = c.cancelWaiters
      /\ c1.teardown = c.teardown /\ c1.blocked = c.blocked
  BY ZenonT(60), <1>2 DEF State
<1> HIDE DEF c1
<1>4. /\ c2 \in State /\ c2.ahead = ah /\ c2.token = c.token \ F
      /\ c2.phase = c.phase /\ c2.req = c.req /\ c2.before = c.before /\ c2.told = c.told
      /\ c2.buffer = c.buffer /\ c2.notified = c.notified
      /\ c2.cancelWaiters = c.cancelWaiters
      /\ c2.teardown = c.teardown /\ c2.blocked = c.blocked
  BY ZenonT(60), <1>3 DEF State
<1> QED
  BY <1>1, <1>4 DEF ah

\* FinishAll moves the ids of F to completed and nothing else.
LEMMA FinishAllShape ==
    ASSUME NEW c \in State, NEW F \in SUBSET Ids, NEW result
    PROVE  LET e == FinishAll(c, F, result)
           IN  /\ e \in State
               /\ e.phase = [i \in Ids |-> IF i \in F THEN "completed" ELSE c.phase[i]]
               /\ e.ahead = [i \in Ids |-> IF i \in F THEN {} ELSE c.ahead[i] \ F]
               /\ e.req = c.req
               /\ e.token = c.token \ F
<1> DEFINE e == FinishAll(c, F, result)
           m == Removed(c, F)
           heard == {i \in F : c.reply[i] = "open"}
           runsDone == {r \in c.cancelWaiters : /\ WorkflowOutstanding(c, r) \subseteq F
                                                /\ \E i \in F : c.req[i].run = r}
           drained == {s \in c.teardown : /\ SessionChildren(c, s) \subseteq F
                                          /\ \E i \in F : c.req[i].session = s}
           ph == [i \in Ids |-> IF i \in F THEN "completed" ELSE m.phase[i]]
           be == [i \in Ids |-> IF i \in F THEN In(c, {"completed"}) \cup (F \cap c.ahead[i])
                                ELSE m.before[i]]
           to == [i \in Ids |-> IF i \in heard THEN "result" ELSE m.told[i]]
           summaries == {<<c.req[i].session, i>> :
                             i \in {j \in F : /\ BufferCompletions /\ c.req[j].surface
                                              /\ ~IsWorkflow(c, j)}}
           told == Surfaced(c, F, result)
           n == [m EXCEPT !.phase = ph, !.before = be, !.told = to,
                          !.buffer = m.buffer \cup summaries,
                          !.notified = m.notified \cup told,
                          !.cancelWaiters = m.cancelWaiters \ runsDone,
                          !.teardown = m.teardown \ drained,
                          !.blocked = m.blocked \ drained]
<1>1. e = n
  BY DEF FinishAll
<1>2. /\ m \in State /\ m.ahead = [i \in Ids |-> IF i \in F THEN {} ELSE c.ahead[i] \ F]
      /\ m.token = c.token \ F /\ m.phase = c.phase /\ m.req = c.req
  BY RemovedShape
<1> HIDE DEF m
<1>3. ph = [i \in Ids |-> IF i \in F THEN "completed" ELSE c.phase[i]]
  BY <1>2
<1>4. ph \in [Ids -> Phases] /\ be \in [Ids -> SUBSET Ids] /\ to \in [Ids -> Told]
  BY <1>2 DEF State, Phases, Told, In
<1>5. summaries \subseteq Sessions \X Ids
  BY DEF State, Request
<1>6. told \subseteq Ids
  BY DEF Surfaced
<1> HIDE DEF ph, be, to, summaries, told, runsDone, drained
<1>7. n \in State /\ n.phase = ph /\ n.ahead = m.ahead /\ n.req = m.req /\ n.token = m.token
  BY ZenonT(60), <1>2, <1>4, <1>5, <1>6 DEF State
<1> QED
  BY <1>1, <1>2, <1>3, <1>7

\* Finishing children keeps the order of the queue and frees slots.
LEMMA FinishAllCore ==
    ASSUME NEW c, Core(c), NEW F \in SUBSET Ids, NEW result, NEW e,
           e = FinishAll(c, F, result)
    PROVE  /\ Core(e)
           /\ Queued(e) = Queued(c) \ F
           /\ Executing(e) = Executing(c) \ F
           /\ e.req = c.req
           /\ e.token = c.token \ F
<1>0. c \in State
  BY DEF Core
<1>1. /\ e \in State
      /\ e.phase = [i \in Ids |-> IF i \in F THEN "completed" ELSE c.phase[i]]
      /\ e.ahead = [i \in Ids |-> IF i \in F THEN {} ELSE c.ahead[i] \ F]
      /\ e.req = c.req
      /\ e.token = c.token \ F
  BY <1>0, FinishAllShape
<1>2. Queued(e) = Queued(c) \ F /\ Executing(e) = Executing(c) \ F
  BY <1>1 DEF Queued, Executing, In
<1>3. \A i \in Queued(e) : e.ahead[i] = c.ahead[i] \ F /\ i \in Queued(c) /\ i \notin F
  BY <1>1, <1>2 DEF Queued, In
<1>4. QueueOrder(e)
  BY <1>2, <1>3 DEF QueueOrder, Core
<1>5. QueuedAreTasks(e)
  BY <1>1, <1>2 DEF QueuedAreTasks, Core, IsWorkflow
<1>6. SlotBoundIn(e)
  <2> SUFFICES ASSUME NEW s \in Sessions
               PROVE  Cardinality(SessionRunning(e, s)) <= MaxConcurrent
    BY DEF SlotBoundIn
  <2>1. SessionRunning(e, s) \subseteq SessionRunning(c, s)
    BY <1>1, <1>2 DEF SessionRunning, IsWorkflow
  <2>2. Cardinality(SessionRunning(e, s)) <= Cardinality(SessionRunning(c, s))
    BY <2>1, Counted, FS_Subset
  <2>3. Cardinality(SessionRunning(c, s)) <= MaxConcurrent
    BY DEF Core, SlotBoundIn
  <2> QED
    BY <2>2, <2>3, Counted, CoordinatorAssumption
<1> QED
  BY <1>1, <1>2, <1>4, <1>5, <1>6 DEF Core

\* Starting children moves them to pending and out of the queue.
LEMMA StartAllShape ==
    ASSUME NEW c \in State, NEW F \in SUBSET Ids, NEW e, e = StartAll(c, F)
    PROVE  /\ e \in State
           /\ e.phase = [i \in Ids |-> IF i \in F THEN "pending" ELSE c.phase[i]]
           /\ e.ahead = [i \in Ids |-> IF i \in F THEN {} ELSE c.ahead[i] \ F]
           /\ e.req = c.req
           /\ e.token = c.token
<1> DEFINE ph == [i \in Ids |-> IF i \in F THEN "pending" ELSE c.phase[i]]
           ah == [i \in Ids |-> IF i \in F THEN {} ELSE c.ahead[i] \ F]
           ho == {i \in F : c.req[i].mode = "background" \/ c.reply[i] = "none"}
           n == [c EXCEPT !.phase = ph, !.ahead = ah, !.handleOnly = c.handleOnly \cup ho,
                          !.runs = c.runs \cup F]
<1>1. e = n
  BY DEF StartAll
<1>2. ph \in [Ids -> Phases] /\ ah \in [Ids -> SUBSET Ids] /\ ho \subseteq Ids
  BY DEF State, Phases
<1> HIDE DEF ph, ah, ho
<1>3. n \in State /\ n.phase = ph /\ n.ahead = ah /\ n.req = c.req /\ n.token = c.token
  BY <1>2 DEF State
<1> HIDE DEF n
<1> QED
  BY <1>1, <1>3 DEF ph, ah

\* Starting children keeps the order of those left in the queue.
LEMMA StartAllOrder ==
    ASSUME NEW c, Core(c), NEW F \in SUBSET Ids, NEW e, e = StartAll(c, F)
    PROVE  /\ e \in State /\ e.req = c.req /\ e.token = c.token
           /\ Queued(e) = Queued(c) \ F
           /\ Executing(e) = Executing(c) \cup F
           /\ QueueOrder(e)
           /\ QueuedAreTasks(e)
<1>0. c \in State
  BY DEF Core
<1>1. /\ e \in State
      /\ e.phase = [i \in Ids |-> IF i \in F THEN "pending" ELSE c.phase[i]]
      /\ e.ahead = [i \in Ids |-> IF i \in F THEN {} ELSE c.ahead[i] \ F]
      /\ e.req = c.req
      /\ e.token = c.token
  BY <1>0, StartAllShape
<1>2. Queued(e) = Queued(c) \ F /\ Executing(e) = Executing(c) \cup F
  BY <1>1 DEF Queued, Executing, In
<1>3. \A i \in Queued(e) : e.ahead[i] = c.ahead[i] \ F /\ i \in Queued(c) /\ i \notin F
  BY <1>1, <1>2 DEF Queued, In
<1>4. QueueOrder(e)
  BY <1>2, <1>3 DEF QueueOrder, Core
<1>5. QueuedAreTasks(e)
  BY <1>1, <1>2 DEF QueuedAreTasks, Core, IsWorkflow
<1> QED
  BY <1>1, <1>2, <1>4, <1>5

\* The uncancelled queued spawns of a session, and the ones the sweep starts.
Contenders(c, s) == {i \in Queued(c) \ c.token : c.req[i].session = s}
Winners(c, s) == {i \in Startable(c) : c.req[i].session = s}

\* The spawns of a session that Startable picks fill its free slots: never more of
\* them than there are, and all of them if one spawn must stay.
LEMMA StartableFits ==
    ASSUME NEW c, Core(c), NEW s \in Sessions
    PROVE  /\ IsFiniteSet(Winners(c, s)) /\ Cardinality(Winners(c, s)) \in Nat
           /\ Cardinality(SessionRunning(c, s)) + Cardinality(Winners(c, s)) <= MaxConcurrent
           /\ Winners(c, s) # Contenders(c, s) =>
                 Cardinality(SessionRunning(c, s)) + Cardinality(Winners(c, s)) = MaxConcurrent
<1> DEFINE U == Contenders(c, s)
           T == Winners(c, s)
           A == [i \in U |-> Competing(c, i)]
           k == MaxConcurrent - Cardinality(SessionRunning(c, s))
<1>1. k \in Nat
  BY Counted, CoordinatorAssumption DEF Core, SlotBoundIn
<1>2. IsFiniteSet(U)
  <2>1. U \subseteq Ids
    BY DEF Contenders, Queued, In
  <2> QED
    BY <2>1, FS_Subset, CoordinatorAssumption
<1>3. \A i \in U : Competing(c, i) = c.ahead[i] \cap U
  BY DEF Competing, Contenders, Core, State
<1>4. StrictOrder(A, U)
  <2>1. A \in [U -> SUBSET U]
    BY <1>3
  <2>2. \A i \in U : i \in Queued(c) /\ A[i] = c.ahead[i] \cap U
    BY <1>3 DEF Contenders
  <2> HIDE DEF A, U
  <2> QED
    BY <2>1, <2>2 DEF StrictOrder, Core, QueueOrder
<1>5. T = FirstIn(A, U, k)
  <2>1. \A i \in U : Cardinality(A[i]) \in Nat
    BY <1>2, <1>4, RankInjective
  <2>2. \A i \in U : /\ A[i] = Competing(c, i)
                     /\ c.req[i].session = s
    BY DEF Contenders
  <2> HIDE DEF A
  <2>3. ASSUME NEW i
        PROVE  i \in T <=> i \in U /\ Cardinality(SessionRunning(c, s)) + Cardinality(A[i]) < MaxConcurrent
    BY <2>2 DEF Startable, Contenders, Winners
  <2> QED
    BY <2>1, <2>3, Counted, CoordinatorAssumption DEF FirstIn
<1>6. /\ IsFiniteSet(T) /\ Cardinality(T) \in Nat
      /\ Cardinality(T) <= k
      /\ T # U => Cardinality(T) = k
  <2> HIDE DEF A, k
  <2>1. /\ IsFiniteSet(FirstIn(A, U, k)) /\ Cardinality(FirstIn(A, U, k)) \in Nat
        /\ Cardinality(FirstIn(A, U, k)) <= k
        /\ FirstIn(A, U, k) # U => Cardinality(FirstIn(A, U, k)) = k
    BY ONLY <1>1, <1>2, <1>4, FirstInOrder
  <2> QED
    BY ONLY <2>1, <1>5
<1> HIDE DEF T, U
<1>7. /\ Cardinality(SessionRunning(c, s)) + Cardinality(T) <= MaxConcurrent
      /\ T # U => Cardinality(SessionRunning(c, s)) + Cardinality(T) = MaxConcurrent
  BY <1>6, Counted, CoordinatorAssumption
<1> QED
  BY <1>6, <1>7 DEF T, U

\* The sweep of the queue restores NoIdleSlotIn, whatever was finished before it.
LEMMA StartQueuedFull ==
    ASSUME NEW c, Core(c)
    PROVE  Full(StartQueued(c))
<1> DEFINE S == Startable(c)
           d == StartAll(c, S)
           F == Queued(d) \cap d.token
           e == FinishAll(d, F, "cancelled")
<1>1. S \subseteq Queued(c) \ c.token /\ Queued(c) \subseteq Ids
  BY DEF Startable, Queued, In
<1> HIDE DEF S
<1>2. /\ d \in State /\ d.req = c.req /\ d.token = c.token
      /\ Queued(d) = Queued(c) \ S
      /\ Executing(d) = Executing(c) \cup S
      /\ QueueOrder(d)
      /\ QueuedAreTasks(d)
  BY <1>1, StartAllOrder
<1>3. ASSUME NEW s \in Sessions
      PROVE  /\ Cardinality(SessionRunning(d, s)) <= MaxConcurrent
             /\ \A i \in Queued(c) \ (c.token \cup S) :
                   c.req[i].session = s => Cardinality(SessionRunning(d, s)) = MaxConcurrent
  <2> DEFINE U == Contenders(c, s)
             T == Winners(c, s)
             R == SessionRunning(c, s)
  <2>1. /\ IsFiniteSet(T) /\ Cardinality(T) \in Nat
        /\ Cardinality(R) + Cardinality(T) <= MaxConcurrent
        /\ T # U => Cardinality(R) + Cardinality(T) = MaxConcurrent
    BY StartableFits
  <2>2. SessionRunning(d, s) = R \cup T
    <3>1. \A i \in S : ~IsWorkflow(c, i)
      BY <1>1 DEF Core, QueuedAreTasks
    <3> QED
      BY <3>1, <1>2 DEF SessionRunning, IsWorkflow, Winners, S
  <2>3. R \cap T = {}
    BY <1>1 DEF Winners, S, SessionRunning, Executing, Queued, In
  <2> HIDE DEF R, T, U
  <2>4. Cardinality(SessionRunning(d, s)) = Cardinality(R) + Cardinality(T)
    <3>1. IsFiniteSet(R) /\ Cardinality(R) \in Nat
      BY Counted DEF R
    <3>2. Cardinality(R \cup T) = Cardinality(R) + Cardinality(T) - Cardinality(R \cap T)
      BY <2>1, <3>1, FS_Union
    <3>3. Cardinality(R \cap T) = 0
      BY <2>3, FS_EmptySet
    <3> QED
      BY <2>1, <2>2, <3>1, <3>2, <3>3
  <2>5. ASSUME NEW i \in Queued(c) \ (c.token \cup S), c.req[i].session = s
        PROVE  T # U
    BY <2>5 DEF T, U, Contenders, Winners, S
  <2> QED
    BY <2>1, <2>4, <2>5
<1>4. Core(d)
  BY <1>2, <1>3 DEF Core, SlotBoundIn
<1> HIDE DEF d
<1>5. F \subseteq Ids
  BY DEF Queued, In
<1>6. /\ Core(e) /\ Queued(e) = Queued(d) \ F
      /\ Executing(e) = Executing(d) \ F /\ e.req = d.req
  <2> HIDE DEF F
  <2> QED
    BY <1>4, <1>5, FinishAllCore
<1>7. NoIdleSlotIn(e)
  <2> SUFFICES ASSUME NEW i \in Queued(e)
               PROVE  Cardinality(SessionRunning(e, e.req[i].session)) >= MaxConcurrent
    BY DEF NoIdleSlotIn
  <2>1. i \in Queued(c) \ (c.token \cup S)
    BY <1>2, <1>6
  <2>2. e.req[i].session = c.req[i].session /\ c.req[i].session \in Sessions
    BY <1>1, <1>2, <1>6, <2>1 DEF Core, State, Request
  <2>3. SessionRunning(e, c.req[i].session) = SessionRunning(d, c.req[i].session)
    <3>1. Executing(e) = Executing(d)
      BY <1>6 DEF Executing, Queued, In
    <3> QED
      BY <3>1, <1>6 DEF SessionRunning, IsWorkflow
  <2>4. Cardinality(SessionRunning(d, c.req[i].session)) = MaxConcurrent
    BY <1>3, <2>1, <2>2
  <2> QED
    BY <2>2, <2>3, <2>4, CoordinatorAssumption
<1>8. StartQueued(c) = e
  BY DEF StartQueued, d, S
<1> QED
  BY <1>6, <1>7, <1>8 DEF Full

\* finish_child keeps the invariant: the sweep at its end refills the slots that the
\* finished children leave.
LEMMA FinishFull ==
    ASSUME NEW c, Core(c), NEW F \in SUBSET Ids, NEW result
    PROVE  Full(Finish(c, F, result))
BY FinishAllCore, StartQueuedFull DEF Finish

\* A handler that leaves phases, requests and the queue alone keeps the invariant.
LEMMA SameFull ==
    ASSUME NEW c, Full(c), NEW e \in State,
           e.phase = c.phase, e.ahead = c.ahead, e.req = c.req
    PROVE  Full(e)
<1>1. Queued(e) = Queued(c) /\ Executing(e) = Executing(c)
  BY DEF Queued, Executing, In
<1> QED
  BY <1>1, SameShape DEF Full

\* remove_queued keeps the invariant: a spawn that leaves the queue for a cancelled
\* record takes no slot with it.
LEMMA RemoveQueuedFull ==
    ASSUME NEW c, Full(c), NEW F \in SUBSET Ids
    PROVE  Full(RemoveQueued(c, F))
<1> DEFINE d == [c EXCEPT !.token = @ \cup F]
<1>1. d \in State /\ d.phase = c.phase /\ d.ahead = c.ahead /\ d.req = c.req
  BY DEF Full, Core, State
<1> HIDE DEF d
<1>2. Core(d)
  BY <1>1, SameFull DEF Full
<1>3. Full(Finish(d, F, "cancelled"))
  BY <1>2, FinishFull
<1> QED
  BY <1>3 DEF RemoveQueued, d

\* reap_abandoned_callers keeps the invariant, whoever has left.
LEMMA ReapFull ==
    ASSUME NEW c, Full(c)
    PROVE  Full(Reap(c))
<1> DEFINE left == Abandoned(c)
           kept == {i \in left : ~IsWorkflow(c, i)}
           parked == {i \in Queued(c) : c.reply[i] = "closed"}
           rp == [i \in Ids |-> IF i \in left \cup parked THEN "none" ELSE c.reply[i]]
           d == [c EXCEPT !.reply = rp, !.token = c.token \cup (left \ kept),
                          !.handleOnly = c.handleOnly \cup kept,
                          !.deadline = c.deadline \ (kept \cup parked)]
<1>1. left \subseteq Ids /\ kept \subseteq Ids /\ rp \in [Ids -> {"open", "closed", "none"}]
  BY DEF Abandoned, Executing, In, Full, Core, State
<1>2. Reap(c) = RemoveQueued(d, Queued(d) \cap d.token)
  BY DEF Reap
<1> HIDE DEF left, kept, parked, rp
<1>3. d \in State /\ d.phase = c.phase /\ d.ahead = c.ahead /\ d.req = c.req
  BY <1>1 DEF Full, Core, State
<1> HIDE DEF d
<1>4. Full(d)
  BY <1>3, SameFull
<1>5. Queued(d) \cap d.token \subseteq Ids
  BY DEF Queued, In
<1> QED
  BY <1>2, <1>4, <1>5, RemoveQueuedFull

\* The end of an iteration only forgets completed records.
LEMMA SettleFull ==
    ASSUME NEW c, Full(c)
    PROVE  Full(Settle(c))
<1> DEFINE gone == {i \in In(c, {"completed"}) :
                       Cardinality({j \in In(c, {"completed"}) : i \in c.before[j]})
                           >= MaxCompleted}
           dr == StillDraining(c)
           ph == [i \in Ids |-> IF i \in gone THEN "none" ELSE c.phase[i]]
           rq == [i \in Ids |-> IF i \in gone THEN Fresh ELSE c.req[i]]
           be == [i \in Ids |-> IF i \in gone THEN {} ELSE c.before[i] \ gone]
           to == [i \in Ids |-> IF i \in gone THEN "no" ELSE c.told[i]]
           e == [c EXCEPT !.drains = dr, !.phase = ph, !.req = rq, !.before = be,
                          !.told = to, !.torn = c.torn \ gone,
                          !.notified = c.notified \ gone]
<1>0. c \in State
  BY DEF Full, Core
<1>1. Settle(c) = e
  BY DEF Settle
<1>2. \A i \in gone : c.phase[i] = "completed"
  BY DEF In
<1>3. Fresh \in Request
  <2>1. (CHOOSE s \in Roots : TRUE) \in Roots
    BY CoordinatorAssumption
  <2> QED
    BY <2>1 DEF Fresh, Request, Sessions, Owners, Modes
<1> HIDE DEF gone
<1>4. /\ dr \subseteq c.drains
      /\ ph \in [Ids -> Phases] /\ rq \in [Ids -> Request]
      /\ be \in [Ids -> SUBSET Ids] /\ to \in [Ids -> Told]
  BY <1>0, <1>3 DEF State, Phases, Told, StillDraining
<1>5. \A i \in Ids : \/ ph[i] = c.phase[i] /\ rq[i] = c.req[i]
                     \/ c.phase[i] = "completed" /\ ph[i] = "none"
  BY <1>2
<1> HIDE DEF dr, ph, rq, be, to
<1>6. e \in State /\ e.phase = ph /\ e.req = rq /\ e.ahead = c.ahead
  BY <1>0, <1>4 DEF State
<1> HIDE DEF e
<1>7. Queued(e) = Queued(c) /\ Executing(e) = Executing(c)
  BY <1>5, <1>6 DEF Queued, Executing, In
<1>8. \A i \in Live(c) : e.req[i] = c.req[i]
  BY <1>5, <1>6 DEF Live, In
<1>9. Full(e)
  BY <1>6, <1>7, <1>8, SameShape DEF Full
<1> QED
  BY <1>1, <1>9

\* A spawn that starts at once takes a free slot of its session, or none if a
\* workflow owns it.
LEMMA StartOneFull ==
    ASSUME NEW c, Full(c), NEW i \in Ids, c.phase[i] = "none",
           \/ c.req[i].run # NoRun
           \/ Cardinality(SessionRunning(c, c.req[i].session)) < MaxConcurrent
    PROVE  Full(StartAll(c, {i}))
<1> DEFINE e == StartAll(c, {i})
<1>1. /\ e \in State /\ e.req = c.req
      /\ Queued(e) = Queued(c) \ {i} /\ Executing(e) = Executing(c) \cup {i}
      /\ QueueOrder(e) /\ QueuedAreTasks(e)
  BY StartAllOrder DEF Full
<1> HIDE DEF e
<1>2. i \notin Executing(c)
  BY DEF Executing, In
<1>3. ASSUME NEW s \in Sessions
      PROVE  /\ Cardinality(SessionRunning(e, s)) <= MaxConcurrent
             /\ Cardinality(SessionRunning(c, s)) <= Cardinality(SessionRunning(e, s))
  <2>1. Cardinality(SessionRunning(c, s)) <= MaxConcurrent
    BY DEF Full, Core, SlotBoundIn
  <2>2. CASE c.req[i].session = s /\ ~IsWorkflow(c, i)
    <3>1. SessionRunning(e, s) = SessionRunning(c, s) \cup {i} /\ i \notin SessionRunning(c, s)
      BY <1>1, <1>2, <2>2 DEF SessionRunning, IsWorkflow
    <3>2. Cardinality(SessionRunning(e, s)) = Cardinality(SessionRunning(c, s)) + 1
      BY <3>1, Counted, FS_AddElement
    <3> QED
      BY <3>2, <2>2, Counted, CoordinatorAssumption DEF IsWorkflow
  <2>3. CASE ~(c.req[i].session = s /\ ~IsWorkflow(c, i))
    <3>1. SessionRunning(e, s) = SessionRunning(c, s)
      BY <1>1, <2>3 DEF SessionRunning, IsWorkflow
    <3> QED
      BY <3>1, <2>1, Counted
  <2> QED
    BY <2>2, <2>3
<1>4. NoIdleSlotIn(e)
  <2> SUFFICES ASSUME NEW j \in Queued(e)
               PROVE  Cardinality(SessionRunning(e, e.req[j].session)) >= MaxConcurrent
    BY DEF NoIdleSlotIn
  <2>1. j \in Queued(c) /\ e.req[j].session = c.req[j].session /\ c.req[j].session \in Sessions
    BY <1>1 DEF Full, Core, State, Request, Queued, In
  <2>2. Cardinality(SessionRunning(c, c.req[j].session)) >= MaxConcurrent
    BY <2>1 DEF Full, NoIdleSlotIn
  <2> QED
    BY <2>1, <2>2, <1>3, Counted, CoordinatorAssumption
<1>5. Core(e)
  BY <1>1, <1>3 DEF Core, SlotBoundIn
<1> QED
  BY <1>4, <1>5 DEF Full, e

\* A spawn that finds its session at the limit goes behind everything queued.
LEMMA EnqueueFull ==
    ASSUME NEW c, Full(c), NEW i \in Ids, c.phase[i] = "none",
           c.req[i].run = NoRun,
           Cardinality(SessionRunning(c, c.req[i].session)) >= MaxConcurrent
    PROVE  Full([c EXCEPT !.phase[i] = "queued", !.ahead[i] = Queued(c)])
<1> DEFINE e == [c EXCEPT !.phase[i] = "queued", !.ahead[i] = Queued(c)]
<1>0. Queued(c) \subseteq Ids /\ c \in State
  BY DEF Full, Core, Queued, In
<1>1. /\ e \in State /\ e.req = c.req
      /\ e.phase = [c.phase EXCEPT ![i] = "queued"]
      /\ e.ahead = [c.ahead EXCEPT ![i] = Queued(c)]
  BY <1>0 DEF State, Phases
<1> HIDE DEF e
<1>2. /\ Queued(e) = Queued(c) \cup {i} /\ i \notin Queued(c)
      /\ Executing(e) = Executing(c)
  BY <1>0, <1>1 DEF Queued, Executing, In, State
<1>3. /\ e.ahead[i] = Queued(c)
      /\ \A j \in Queued(c) : e.ahead[j] = c.ahead[j]
  BY <1>0, <1>1, <1>2 DEF State
<1>4. QueueOrder(e)
  <2>1. QueueOrder(c)
    BY DEF Full, Core
  <2>2. \A j \in Queued(e) : e.ahead[j] \subseteq Queued(e) /\ j \notin e.ahead[j]
    BY <1>2, <1>3, <2>1 DEF QueueOrder
  <2>3. \A j, k \in Queued(e) : j # k => j \in e.ahead[k] \/ k \in e.ahead[j]
    BY <1>2, <1>3, <2>1 DEF QueueOrder
  <2>4. \A j, k, l \in Queued(e) :
           j \in e.ahead[k] /\ k \in e.ahead[l] => j \in e.ahead[l]
    BY <1>2, <1>3, <2>1 DEF QueueOrder
  <2> QED
    BY <2>2, <2>3, <2>4 DEF QueueOrder
<1>5. QueuedAreTasks(e)
  BY <1>1, <1>2 DEF QueuedAreTasks, Full, Core, IsWorkflow
<1>6. \A s : SessionRunning(e, s) = SessionRunning(c, s)
  BY <1>1, <1>2 DEF SessionRunning, IsWorkflow
<1>7. SlotBoundIn(e) /\ NoIdleSlotIn(e)
  BY <1>1, <1>2, <1>6 DEF SlotBoundIn, NoIdleSlotIn, Full, Core
<1> QED
  BY <1>1, <1>4, <1>5, <1>7 DEF Full, Core, e

\* The admission part of handle_spawn keeps the invariant in each of its outcomes:
\* started, queued, or finished as failed.
LEMMA AdmitFull ==
    ASSUME NEW c, Full(c), NEW i \in Ids, c.phase[i] = "none"
    PROVE  Full(Admit(c, i, c.req[i]))
<1> DEFINE n == Cardinality(SessionRunning(c, c.req[i].session))
<1>1. CASE c.req[i].run # NoRun \/ n < MaxConcurrent
  <2>1. Admit(c, i, c.req[i]) = StartAll(c, {i})
    BY <1>1, Counted, CoordinatorAssumption DEF Admit
  <2> QED
    BY <2>1, <1>1, StartOneFull
<1>2. CASE c.req[i].run = NoRun /\ n >= MaxConcurrent
  <2>1. Admit(c, i, c.req[i]) =
            IF c.fail THEN Finish(c, {i}, "done")
            ELSE [c EXCEPT !.phase[i] = "queued", !.ahead[i] = Queued(c)]
    BY <1>2, Counted, CoordinatorAssumption DEF Admit
  <2>2. Full(Finish(c, {i}, "done"))
    BY FinishFull DEF Full
  <2>3. Full([c EXCEPT !.phase[i] = "queued", !.ahead[i] = Queued(c)])
    BY <1>2, EnqueueFull
  <2> QED
    BY <2>1, <2>2, <2>3
<1> QED
  BY <1>1, <1>2, Counted, CoordinatorAssumption

\* handle_spawn keeps the invariant, the spawns it refuses included.
LEMMA HandleSpawnFull ==
    ASSUME NEW c, Full(c), NEW i \in Ids, NEW asked \in Request, NEW cancelled \in BOOLEAN
    PROVE  Full(HandleSpawn(c, i, asked, cancelled))
<1>0. c \in State
  BY DEF Full, Core
<1>1. CASE Refused(c, i, asked)
  BY <1>1 DEF HandleSpawn
<1>2. CASE ~Refused(c, i, asked)
  <2> DEFINE r == Reparented(c, asked)
             tk == IF cancelled THEN c.token \cup {i} ELSE c.token \ {i}
             dl == IF r.mode = "foreground" THEN c.deadline \cup {i} ELSE c.deadline
             ho == IF r.mode = "background" THEN c.handleOnly \cup {i} ELSE c.handleOnly
             d == [c EXCEPT !.req[i] = r, !.reply[i] = "open", !.told[i] = "waiting",
                            !.token = tk, !.deadline = dl, !.handleOnly = ho]
  <2>1. c.phase[i] = "none"
    BY <1>2 DEF Refused
  <2>2. r \in Request
    <3>1. CASE Nested(c, asked)
      <4>1. c.req[asked.session] \in Request
        BY <3>1, <1>0 DEF Nested, In, State
      <4> QED
        BY <3>1, <4>1 DEF Reparented, Request
    <3>2. CASE ~Nested(c, asked)
      BY <3>2 DEF Reparented
    <3> QED
      BY <3>1, <3>2
  <2>3. Registered(c, i, r, cancelled) = d
    BY DEF Registered
  <2>4. tk \subseteq Ids /\ dl \subseteq Ids /\ ho \subseteq Ids
    BY <1>0 DEF State
  <2> HIDE DEF r, tk, dl, ho
  <2>5. /\ d \in State /\ d.phase = c.phase /\ d.ahead = c.ahead
        /\ d.req = [c.req EXCEPT ![i] = r]
    BY <1>0, <2>2, <2>4 DEF State, Told
  <2> HIDE DEF d
  <2>6. Queued(d) = Queued(c) /\ Executing(d) = Executing(c)
    BY <2>5 DEF Queued, Executing, In
  <2>7. d.req[i] = r /\ \A j \in Live(c) : d.req[j] = c.req[j]
    BY <1>0, <2>1, <2>5 DEF Live, In, State
  <2>8. Full(d)
    BY <2>5, <2>6, <2>7, SameShape DEF Full
  <2>9. Full(Admit(d, i, r))
    BY <2>1, <2>5, <2>7, <2>8, AdmitFull
  <2> QED
    BY <1>2, <2>3, <2>9 DEF HandleSpawn, r
<1> QED
  BY <1>1, <1>2

\* Cancelling any set of children (the loops of cancel_parent_prompt and of the other
\* bulk cancels) keeps the invariant.
LEMMA CancelAllFull ==
    ASSUME NEW c, Full(c), NEW F
    PROVE  Full(CancelAll(c, F))
<1> DEFINE d == [c EXCEPT !.token = c.token \cup (F \cap Executing(c))]
<1>1. Executing(c) \subseteq Ids /\ F \cap Queued(c) \subseteq Ids
  BY DEF Executing, Queued, In
<1>2. d \in State /\ d.phase = c.phase /\ d.ahead = c.ahead /\ d.req = c.req
  BY <1>1 DEF Full, Core, State
<1>3. CancelAll(c, F) = RemoveQueued(d, F \cap Queued(c))
  BY DEF CancelAll
<1> HIDE DEF d
<1>4. Full(d)
  BY <1>2, SameFull
<1> QED
  BY <1>1, <1>3, <1>4, RemoveQueuedFull

\* cancel_one keeps the invariant, whatever phase its child is in.
LEMMA CancelOneFull ==
    ASSUME NEW c, Full(c), NEW i \in Ids
    PROVE  Full(CancelOne(c, i))
<1> DEFINE ki == c.killed \cup {i}
           tk == c.token \cup {i}
           d == [c EXCEPT !.killed = ki, !.token = tk]
<1>1. d \in State /\ d.phase = c.phase /\ d.ahead = c.ahead /\ d.req = c.req
  <2>1. c \in State /\ ki \subseteq Ids /\ tk \subseteq Ids
    BY DEF Full, Core, State
  <2> HIDE DEF ki, tk
  <2> QED
    BY <2>1 DEF State
<1>2. i \in Executing(c) => CancelOne(c, i) = d
  BY DEF CancelOne, Executing, Queued, In
<1> HIDE DEF d
<1>3. Full(d)
  BY <1>1, SameFull
<1>4. Full(RemoveQueued(c, {i}))
  BY RemoveQueuedFull
<1>5. CASE i \in Executing(c)
  BY <1>2, <1>3, <1>5
<1>6. CASE i \notin Executing(c)
  BY <1>4, <1>6 DEF CancelOne
<1> QED
  BY <1>5, <1>6

\* Handing children over to the background when their callers' deadlines run out
\* keeps the invariant: a queued spawn keeps its place.
LEMMA HandOffFull ==
    ASSUME NEW c, Full(c), NEW F
    PROVE  Full(HandOff(c, F))
<1> DEFINE to == [i \in Ids |-> IF i \in F /\ c.reply[i] = "open"
                                THEN "backgrounded" ELSE c.told[i]]
           rp == [i \in Ids |-> IF i \in F THEN "none" ELSE c.reply[i]]
           ho == c.handleOnly \cup (F \cap Executing(c))
           dl == c.deadline \ F
           d == [c EXCEPT !.told = to, !.reply = rp, !.handleOnly = ho, !.deadline = dl]
<1>1. /\ to \in [Ids -> Told] /\ rp \in [Ids -> {"open", "closed", "none"}]
      /\ ho \subseteq Ids /\ dl \subseteq Ids
  BY DEF Full, Core, State, Told, Executing, In
<1>2. HandOff(c, F) = d
  BY DEF HandOff
<1> HIDE DEF to, rp, ho, dl
<1>3. d \in State /\ d.phase = c.phase /\ d.ahead = c.ahead /\ d.req = c.req
  <2>1. c \in State
    BY DEF Full, Core
  <2> QED
    BY <1>1, <2>1 DEF State
<1> HIDE DEF d
<1> QED
  BY <1>2, <1>3, SameFull

----------------------------------------------------------------------------
(* The invariant *)

IInv == Full(co)

\* The loop's tail keeps what a handler established.
LEMMA BecomesFull ==
    ASSUME NEW c, Full(c), Becomes(c)
    PROVE  IInv'
BY SettleFull DEF Becomes, IInv

\* The coordinator that from_receivers builds satisfies the invariant.
LEMMA InitFull ==
    ASSUME Init
    PROVE  IInv
<1>1. co \in State
  <2>1. Fresh \in Request
    <3>1. (CHOOSE s \in Roots : TRUE) \in Roots
      BY CoordinatorAssumption
    <3> QED
      BY <3>1 DEF Fresh, Request, Sessions, Owners, Modes
  <2> QED
    BY <2>1 DEF Init, State, Phases, Told
<1>2. Queued(co) = {} /\ Executing(co) = {}
  BY DEF Init, Queued, Executing, In
<1>3. \A s : SessionRunning(co, s) = {}
  BY <1>2 DEF SessionRunning
<1>4. SlotBoundIn(co)
  BY <1>3, FS_EmptySet, CoordinatorAssumption DEF SlotBoundIn
<1> QED
  BY <1>1, <1>2, <1>4 DEF IInv, Full, Core, QueueOrder, QueuedAreTasks, NoIdleSlotIn

\* Commands that cancel children, admit them or register a waiter.
LEMMA CommandsFull ==
    ASSUME IInv
    PROVE  /\ \A i \in Ids : Spawn(i) \/ Cancel(i) \/ Query(i) => IInv'
           /\ \A scope \in PromptCancels : CancelParentPrompt(scope) => IInv'
           /\ \A scope \in Scopes : WaitPromptDrained(scope) => IInv'
           /\ \A s \in StopSessions : CancelParentSession(s) \/ OpenSpawnAdmission(s) => IInv'
           /\ \A r \in Runs : CancelWorkflow(r) => IInv'
           /\ \A s \in TeardownSessions : Completions(s) => IInv'
<1> DEFINE c == Reap(co)
<1>0. Full(c) /\ c \in State
  BY ReapFull DEF IInv, Full, Core
<1>1. ASSUME NEW i \in Ids, Spawn(i)
      PROVE  IInv'
  <2>1. PICK asked \in Requests, cancelled \in BOOLEAN :
            Becomes(HandleSpawn(c, i, asked, cancelled))
    BY <1>1 DEF Spawn
  <2> HIDE DEF c
  <2>2. Full(HandleSpawn(c, i, asked, cancelled))
    BY <1>0, HandleSpawnFull, CoordinatorAssumption
  <2> QED
    BY <2>1, <2>2, BecomesFull
<1>2. ASSUME NEW i \in Ids, Cancel(i)
      PROVE  IInv'
  <2>1. Becomes(CancelOne(c, i))
    BY <1>2 DEF Cancel
  <2> HIDE DEF c
  <2> QED
    BY <2>1, <1>0, CancelOneFull, BecomesFull
<1>3. ASSUME NEW i \in Ids, Query(i)
      PROVE  IInv'
  <2> DEFINE d == [c EXCEPT !.waiting = c.waiting \cup {i}]
  <2>1. Becomes(d) \/ Becomes(c)
    BY <1>3 DEF Query
  <2> HIDE DEF c
  <2>2. d \in State /\ d.phase = c.phase /\ d.ahead = c.ahead /\ d.req = c.req
    BY ZenonT(60), <1>0 DEF State
  <2> HIDE DEF d
  <2>3. Full(d)
    BY <1>0, <2>2, SameFull
  <2> QED
    BY <2>1, <2>3, <1>0, BecomesFull
<1>4. ASSUME NEW scope \in PromptCancels, CancelParentPrompt(scope)
      PROVE  IInv'
  <2> DEFINE F == {i \in Live(c) : c.req[i].session = scope[1] /\ c.req[i].prompt = scope[2]}
  <2>1. Becomes(CancelAll(c, F))
    BY <1>4 DEF CancelParentPrompt
  <2> HIDE DEF c, F
  <2> QED
    BY <2>1, <1>0, CancelAllFull, BecomesFull
<1>5. ASSUME NEW scope \in Scopes, WaitPromptDrained(scope)
      PROVE  IInv'
  <2> DEFINE d == [c EXCEPT !.drains = c.drains \cup {scope}]
  <2>1. Becomes(d) \/ Becomes(c)
    BY <1>5 DEF WaitPromptDrained
  <2>2. scope \in Sessions \X {"p", "q"}
    BY CoordinatorAssumption
  <2> HIDE DEF c
  <2>3. d \in State /\ d.phase = c.phase /\ d.ahead = c.ahead /\ d.req = c.req
    BY ZenonT(60), <1>0, <2>2 DEF State
  <2> HIDE DEF d
  <2>4. Full(d)
    BY <1>0, <2>3, SameFull
  <2> QED
    BY <2>1, <2>4, <1>0, BecomesFull
<1>6. ASSUME NEW s \in StopSessions, CancelParentSession(s)
      PROVE  IInv'
  <2> DEFINE d == [c EXCEPT !.blocked = c.blocked \cup {s}]
             F == {i \in Live(d) : d.req[i].session = s /\ ~IsWorkflow(d, i)}
  <2>1. Becomes(CancelAll(d, F))
    BY <1>6 DEF CancelParentSession
  <2>2. s \in Sessions
    BY CoordinatorAssumption
  <2> HIDE DEF c, F
  <2>3. d \in State /\ d.phase = c.phase /\ d.ahead = c.ahead /\ d.req = c.req
    BY ZenonT(60), <1>0, <2>2 DEF State
  <2> HIDE DEF d
  <2>4. Full(d)
    BY <1>0, <2>3, SameFull
  <2> QED
    BY <2>1, <2>4, CancelAllFull, BecomesFull
<1>7. ASSUME NEW s \in StopSessions, OpenSpawnAdmission(s)
      PROVE  IInv'
  <2> DEFINE d == [c EXCEPT !.blocked = c.blocked \ {s}]
  <2>1. Becomes(d) \/ Becomes(c)
    BY <1>7 DEF OpenSpawnAdmission
  <2> HIDE DEF c
  <2>2. d \in State /\ d.phase = c.phase /\ d.ahead = c.ahead /\ d.req = c.req
    BY <1>0 DEF State
  <2> HIDE DEF d
  <2>3. Full(d)
    BY <1>0, <2>2, SameFull
  <2> QED
    BY <2>1, <2>3, <1>0, BecomesFull
<1>8. ASSUME NEW r \in Runs, CancelWorkflow(r)
      PROVE  IInv'
  <2> DEFINE left == WorkflowOutstanding(c, r)
             cw == IF left = {} THEN c.cancelWaiters ELSE c.cancelWaiters \cup {r}
             d == [c EXCEPT !.token = c.token \cup left, !.cancelWaiters = cw]
  <2>1. Becomes(d)
    BY <1>8 DEF CancelWorkflow
  <2> HIDE DEF c
  <2>2. left \subseteq Ids /\ cw \subseteq Runs
    BY <1>0 DEF State, WorkflowOutstanding, Executing, In
  <2> HIDE DEF left, cw
  <2>3. d \in State /\ d.phase = c.phase /\ d.ahead = c.ahead /\ d.req = c.req
    BY ZenonT(60), <1>0, <2>2 DEF State
  <2> HIDE DEF d
  <2>4. Full(d)
    BY <1>0, <2>3, SameFull
  <2> QED
    BY <2>1, <2>4, BecomesFull
<1>9. ASSUME NEW s \in TeardownSessions, Completions(s)
      PROVE  IInv'
  <2> DEFINE bu == {b \in c.buffer : b[1] # s}
             d == [c EXCEPT !.buffer = bu]
  <2>1. Becomes(d)
    BY <1>9 DEF Completions
  <2> HIDE DEF c
  <2>2. bu \subseteq Sessions \X Ids
    BY <1>0 DEF State
  <2> HIDE DEF bu
  <2>3. d \in State /\ d.phase = c.phase /\ d.ahead = c.ahead /\ d.req = c.req
    BY <1>0, <2>2 DEF State
  <2> HIDE DEF d
  <2>4. Full(d)
    BY <1>0, <2>3, SameFull
  <2> QED
    BY <2>1, <2>4, BecomesFull
<1> QED
  BY <1>1, <1>2, <1>3, <1>4, <1>5, <1>6, <1>7, <1>8, <1>9

\* Tearing a session down silences its children and cancels them.
LEMMA TeardownFull ==
    ASSUME IInv, NEW s \in TeardownSessions, NEW delete \in BOOLEAN,
           TeardownSession(s, delete)
    PROVE  IInv'
<1> DEFINE c == Reap(co)
           F == SessionChildren(c, s)
           bu == {b \in c.buffer : b[1] # s}
           rq == [i \in Ids |-> IF i \in F THEN [c.req[i] EXCEPT !.surface = FALSE]
                                ELSE c.req[i]]
           d == [c EXCEPT !.buffer = bu, !.req = rq, !.torn = c.torn \cup F]
           c1 == CancelAll(d, F)
           e == [c1 EXCEPT !.blocked = c1.blocked \cup {s}, !.teardown = c1.teardown \cup {s}]
<1>0. Full(c) /\ c \in State
  BY ReapFull DEF IInv, Full, Core
<1>1. Becomes(c1) \/ Becomes(e)
  BY DEF TeardownSession, Silenced
<1> HIDE DEF c
<1>2. bu \subseteq Sessions \X Ids /\ F \subseteq Ids
  BY <1>0 DEF State, SessionChildren, Live, In
<1> HIDE DEF bu, F
<1>3. ASSUME NEW r \in Request
      PROVE  LET q == [r EXCEPT !.surface = FALSE]
             IN  q \in Request /\ q.session = r.session /\ q.run = r.run
  BY DEF Request
<1>4. /\ rq \in [Ids -> Request]
      /\ \A i \in Ids : rq[i].session = c.req[i].session /\ rq[i].run = c.req[i].run
  <2>1. c.req \in [Ids -> Request]
    BY <1>0 DEF State
  <2> QED
    BY <1>3, <2>1
<1> HIDE DEF rq
<1>5. d \in State /\ d.phase = c.phase /\ d.ahead = c.ahead /\ d.req = rq
  BY <1>0, <1>2, <1>4 DEF State
<1> HIDE DEF d
<1>6. Full(d)
  <2>1. Queued(d) = Queued(c) /\ Executing(d) = Executing(c) /\ Live(c) \subseteq Ids
    BY <1>5 DEF Queued, Executing, Live, In
  <2> QED
    BY <1>0, <1>4, <1>5, <2>1, SameShape DEF Full
<1>7. Full(c1) /\ c1 \in State
  BY <1>6, CancelAllFull DEF Full, Core
<1> HIDE DEF c1
<1>8. e \in State /\ e.phase = c1.phase /\ e.ahead = c1.ahead /\ e.req = c1.req
  <2>1. s \in Sessions
    BY CoordinatorAssumption
  <2> QED
    BY ZenonT(60), <1>7, <2>1 DEF State
<1> HIDE DEF e
<1>9. Full(e)
  BY <1>7, <1>8, SameFull
<1> QED
  BY <1>1, <1>7, <1>9, BecomesFull

\* What the runner, the clock and the callers do.
LEMMA EventsFull ==
    ASSUME IInv
    PROVE  /\ \A i \in Ids : Started(i) => IInv'
           /\ \A i \in Ids, result \in Results, busy \in BOOLEAN :
                 RunEnds(i, result, busy) => IInv'
           /\ \A i \in Ids, result \in Results : AdmissionSettles(i, result) => IInv'
           /\ CallerAbandoned => IInv'
           /\ DeadlineElapses => IInv'
           /\ \A i \in Ids : CallerLeaves(i) \/ TokenCancelled(i) \/ QueryLeaves(i) => IInv'
<1>0. Full(co) /\ co \in State
  BY DEF IInv, Full, Core
<1>1. ASSUME NEW i \in Ids, Started(i)
      PROVE  IInv'
  <2> DEFINE db == co.defBackground \cup ({i} \cap BackgroundIds)
             d == [co EXCEPT !.phase[i] = "active", !.defBackground = db]
  <2>1. Becomes(d) \/ Becomes(co)
    BY <1>1 DEF Started
  <2>2. db \subseteq Ids
    BY <1>0 DEF State
  <2> HIDE DEF db
  <2>3. /\ d \in State /\ d.ahead = co.ahead /\ d.req = co.req
        /\ d.phase = [co.phase EXCEPT ![i] = "active"]
    BY <1>0, <2>2 DEF State, Phases
  <2> HIDE DEF d
  <2>4. co.phase[i] = "pending" /\ co.phase \in [Ids -> Phases]
    BY <1>0, <1>1 DEF Started, State
  <2>5. Queued(d) = Queued(co) /\ Executing(d) = Executing(co)
    BY <2>3, <2>4 DEF Queued, Executing, In
  <2>6. Full(d)
    BY <1>0, <2>3, <2>5, SameShape DEF Full
  <2> QED
    BY <2>1, <2>6, <1>0, BecomesFull
<1>2. ASSUME NEW i \in Ids, NEW result \in Results, NEW busy \in BOOLEAN,
             RunEnds(i, result, busy)
      PROVE  IInv'
  <2> DEFINE d == [co EXCEPT !.runs = co.runs \ {i}, !.terminal = co.terminal \cup {i}]
  <2>1. Becomes(d) \/ Becomes(Finish(co, {i}, result))
    BY <1>2 DEF RunEnds
  <2>2. d \in State /\ d.phase = co.phase /\ d.ahead = co.ahead /\ d.req = co.req
    BY ZenonT(60), <1>0 DEF State
  <2> HIDE DEF d
  <2>3. Full(d)
    BY <1>0, <2>2, SameFull
  <2>4. Full(Finish(co, {i}, result))
    BY <1>0, FinishFull DEF Full
  <2> QED
    BY <2>1, <2>3, <2>4, BecomesFull
<1>3. ASSUME NEW i \in Ids, NEW result \in Results, AdmissionSettles(i, result)
      PROVE  IInv'
  <2> DEFINE d == [co EXCEPT !.token = co.token \cup {i}]
  <2>1. Becomes(Finish(d, {i}, result)) \/ Becomes(Finish(co, {i}, result))
    BY <1>3 DEF AdmissionSettles
  <2>2. d \in State /\ d.phase = co.phase /\ d.ahead = co.ahead /\ d.req = co.req
    BY ZenonT(60), <1>0 DEF State
  <2> HIDE DEF d
  <2>3. Core(d)
    BY <1>0, <2>2, SameFull DEF Full
  <2>4. Full(Finish(d, {i}, result)) /\ Full(Finish(co, {i}, result))
    BY <1>0, <2>3, FinishFull DEF Full
  <2> QED
    BY <2>1, <2>4, BecomesFull
<1>4. ASSUME CallerAbandoned
      PROVE  IInv'
  BY <1>0, <1>4, ReapFull, BecomesFull DEF CallerAbandoned
<1>5. ASSUME DeadlineElapses
      PROVE  IInv'
  <2>1. PICK callers \in SUBSET co.deadline, holds \in SUBSET co.teardown,
             queries \in SUBSET co.waiting : ProcessDeadlines(callers, holds, queries)
    BY <1>5 DEF DeadlineElapses
  <2> DEFINE c == Reap(co)
             d == [c EXCEPT !.teardown = c.teardown \ holds,
                            !.blocked = c.blocked \ (holds \cap c.teardown)]
             h == HandOff(d, callers \cap c.deadline)
             e == [h EXCEPT !.waiting = h.waiting \ queries]
  <2>2. Becomes(e)
    BY <2>1 DEF ProcessDeadlines
  <2>3. Full(c) /\ c \in State
    BY <1>0, ReapFull DEF Full, Core
  <2> HIDE DEF c
  <2>4. d \in State /\ d.phase = c.phase /\ d.ahead = c.ahead /\ d.req = c.req
    BY <2>3 DEF State
  <2> HIDE DEF d
  <2>5. Full(d)
    BY <2>3, <2>4, SameFull
  <2>6. Full(h) /\ h \in State
    BY <2>5, HandOffFull DEF Full, Core
  <2> HIDE DEF h
  <2>7. e \in State /\ e.phase = h.phase /\ e.ahead = h.ahead /\ e.req = h.req
    BY <2>6 DEF State
  <2> HIDE DEF e
  <2>8. Full(e)
    BY <2>6, <2>7, SameFull
  <2> QED
    BY <2>2, <2>8, BecomesFull
<1>6. ASSUME NEW i \in Ids, CallerLeaves(i) \/ TokenCancelled(i) \/ QueryLeaves(i)
      PROVE  IInv'
  <2> DEFINE d1 == [co EXCEPT !.reply[i] = "closed", !.told[i] = "gone"]
             d2 == [co EXCEPT !.token = co.token \cup {i}]
             d3 == [co EXCEPT !.waiting = co.waiting \ {i}]
  <2>1. co' = d1 \/ co' = d2 \/ co' = d3
    BY <1>6 DEF CallerLeaves, TokenCancelled, QueryLeaves
  <2>2. d1 \in State /\ d1.phase = co.phase /\ d1.ahead = co.ahead /\ d1.req = co.req
    BY <1>0 DEF State, Told
  <2>3. d2 \in State /\ d2.phase = co.phase /\ d2.ahead = co.ahead /\ d2.req = co.req
    BY ZenonT(60), <1>0 DEF State
  <2>4. d3 \in State /\ d3.phase = co.phase /\ d3.ahead = co.ahead /\ d3.req = co.req
    BY <1>0 DEF State
  <2> HIDE DEF d1, d2, d3
  <2>5. Full(d1) /\ Full(d2) /\ Full(d3)
    BY <1>0, <2>2, <2>3, <2>4, SameFull
  <2> QED
    BY <2>1, <2>5 DEF IInv
<1> QED
  BY <1>1, <1>2, <1>3, <1>4, <1>5, <1>6

\* Every iteration of run, and every step of its environment, keeps the invariant.
LEMMA NextFull ==
    ASSUME IInv, [Next]_vars
    PROVE  IInv'
<1>1. CASE UNCHANGED vars
  BY <1>1 DEF vars, IInv
<1>2. CASE Next
  BY <1>2, CommandsFull, TeardownFull, EventsFull DEF Next
<1> QED
  BY <1>1, <1>2

\* The inductive invariant: in every reachable state the maps are well formed, the
\* queue is a strict order of Task spawns, no session is over its limit and none has
\* a queued spawn beside a free slot.
THEOREM Invariance == Spec => []IInv
<1>1. Init => IInv
  BY InitFull
<1>2. IInv /\ [Next]_vars => IInv'
  BY NextFull
<1> QED
  BY <1>1, <1>2, PTL DEF Spec

\* Every reachable state of the actor is well formed: whatever handlers compose, no
\* id is in an unknown phase and every order and set ranges over known ids.
THEOREM TypeCorrect == Spec => []TypeOK
<1>1. IInv => TypeOK
  BY DEF IInv, Full, Core, TypeOK
<1> QED
  BY <1>1, Invariance, PTL

\* The limit of session_running_count holds for every number of sessions, ids and
\* slots: a session never executes more Task children than max_concurrent, although
\* one sweep starts many at once and one finish may start spawns of any session.
THEOREM SlotsBounded == Spec => []SlotBound
<1>1. IInv => SlotBound
  BY DEF IInv, Full, Core, SlotBound
<1> QED
  BY <1>1, Invariance, PTL

\* The sweep that ends finish_child is enough: in every reachable state a session
\* with a queued spawn has all its slots taken.
THEOREM SlotsNeverIdle == Spec => []NoIdleSlot
<1>1. IInv => NoIdleSlot
  BY DEF IInv, Full, NoIdleSlot
<1> QED
  BY <1>1, Invariance, PTL

=============================================================================
