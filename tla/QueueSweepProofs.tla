-------------------------- MODULE QueueSweepProofs --------------------------
(***************************************************************************)
(* The loop of start_queued_within_capacity computes the closed form that  *)
(* SubagentCoordinator uses, for queues of any length, any sessions and    *)
(* any limit.  It is not an induction over the queue: what the loop has    *)
(* done so far is a state, and the invariant says what is left to do.      *)
(***************************************************************************)
EXTENDS QueueSweep, SubagentCoordinatorProofs

\* The order of the actor restricted to the entries of s is that of s.  No entry occurs
\* twice, because none is in front of itself.
InOrder(c, s) == \A m, n \in DOMAIN s : s[m] \in c.ahead[s[n]] <=> m < n

SweepTypes ==
    /\ co \in State /\ todo \in Seq(Ids) /\ kept \in Seq(Ids) /\ cancelled \in Seq(Ids)
    /\ sweeping \in BOOLEAN

\* Every queued spawn is in one of the three lists, according to its token.
Sorted ==
    /\ Queued(co) = ToSet(todo) \cup ToSet(kept) \cup ToSet(cancelled)
    /\ ToSet(todo) \cap ToSet(cancelled) = {}
    /\ ToSet(kept) \cap co.token = {} /\ ToSet(cancelled) \subseteq co.token
    /\ \A i \in Queued(co) : ~IsWorkflow(co, i)
    /\ ~sweeping => todo = <<>>

\* What was kept is in front of what is to be looked at.
LinedUp ==
    /\ InOrder(co, todo) /\ InOrder(co, kept)
    /\ \A i \in ToSet(kept), j \in ToSet(todo) : i \in co.ahead[j] /\ j \notin co.ahead[i]

\* The session of a kept spawn has been full since, as starts only fill it further.
KeptForCause == \A i \in ToSet(kept) : ~HasCapacity(co, co.req[i].session)

SweepInv == SweepTypes /\ Sorted /\ LinedUp /\ KeptForCause

----------------------------------------------------------------------------
(* Lists *)

\* Taking the head of a list.
LEMMA TailFacts ==
    ASSUME NEW s \in Seq(Ids), s # <<>>
    PROVE  /\ Len(s) \in Nat /\ Len(s) >= 1 /\ DOMAIN s = 1 .. Len(s)
           /\ Head(s) = s[1] /\ Head(s) \in Ids
           /\ Tail(s) \in Seq(Ids) /\ DOMAIN Tail(s) = 1 .. (Len(s) - 1)
           /\ \A n \in 1 .. (Len(s) - 1) : Tail(s)[n] = s[n + 1]
           /\ ToSet(s) = {Head(s)} \cup ToSet(Tail(s))
<1>1. /\ Len(s) \in Nat /\ Len(s) >= 1 /\ DOMAIN s = 1 .. Len(s)
      /\ Head(s) = s[1] /\ Head(s) \in Ids
      /\ Tail(s) \in Seq(Ids) /\ DOMAIN Tail(s) = 1 .. (Len(s) - 1)
  OBVIOUS
<1>2. \A n \in 1 .. (Len(s) - 1) : Tail(s)[n] = s[n + 1]
  OBVIOUS
<1>3. ASSUME NEW i \in ToSet(s) PROVE i \in {Head(s)} \cup ToSet(Tail(s))
  <2>1. PICK n \in 1 .. Len(s) : i = s[n]
    BY <1>1, <1>3 DEF ToSet
  <2>2. CASE n = 1
    BY <1>1, <2>1, <2>2
  <2>3. CASE n # 1
    <3>1. n - 1 \in 1 .. (Len(s) - 1) /\ (n - 1) + 1 = n
      BY <1>1, <2>3
    <3>2. Tail(s)[n - 1] = i
      BY <1>2, <2>1, <3>1
    <3> QED BY <1>1, <3>1, <3>2 DEF ToSet
  <2> QED BY <2>2, <2>3
<1>4. ASSUME NEW i \in {Head(s)} \cup ToSet(Tail(s)) PROVE i \in ToSet(s)
  <2>1. CASE i = Head(s)
    BY <1>1, <2>1 DEF ToSet
  <2>2. CASE i \in ToSet(Tail(s))
    <3>1. PICK n \in 1 .. (Len(s) - 1) : i = Tail(s)[n]
      BY <1>1, <2>2 DEF ToSet
    <3>2. n + 1 \in 1 .. Len(s) /\ i = s[n + 1]
      BY <1>1, <1>2, <3>1
    <3> QED BY <1>1, <3>2 DEF ToSet
  <2> QED BY <1>4, <2>1, <2>2
<1> QED BY <1>1, <1>2, <1>3, <1>4

\* Putting an id at the end of a list.
LEMMA AppendFacts ==
    ASSUME NEW s \in Seq(Ids), NEW h \in Ids
    PROVE  /\ Len(s) \in Nat /\ DOMAIN s = 1 .. Len(s)
           /\ Append(s, h) \in Seq(Ids) /\ DOMAIN Append(s, h) = 1 .. (Len(s) + 1)
           /\ \A n \in 1 .. Len(s) : Append(s, h)[n] = s[n]
           /\ Append(s, h)[Len(s) + 1] = h
           /\ ToSet(Append(s, h)) = ToSet(s) \cup {h}
<1>1. /\ Len(s) \in Nat /\ DOMAIN s = 1 .. Len(s)
      /\ Append(s, h) \in Seq(Ids) /\ DOMAIN Append(s, h) = 1 .. (Len(s) + 1)
  OBVIOUS
<1>2. /\ \A n \in 1 .. Len(s) : Append(s, h)[n] = s[n]
      /\ Append(s, h)[Len(s) + 1] = h
  OBVIOUS
<1>3. ASSUME NEW i \in ToSet(Append(s, h)) PROVE i \in ToSet(s) \cup {h}
  <2>1. PICK n \in 1 .. (Len(s) + 1) : i = Append(s, h)[n]
    BY <1>1, <1>3 DEF ToSet
  <2>2. n = Len(s) + 1 \/ n \in 1 .. Len(s)
    BY <1>1, <2>1
  <2> QED BY <1>1, <1>2, <2>1, <2>2 DEF ToSet
<1>4. ASSUME NEW i \in ToSet(s) \cup {h} PROVE i \in ToSet(Append(s, h))
  <2>1. CASE i = h
    <3>1. Len(s) + 1 \in DOMAIN Append(s, h)
      BY <1>1
    <3> QED BY <1>2, <2>1, <3>1 DEF ToSet
  <2>2. CASE i \in ToSet(s)
    <3>1. PICK n \in 1 .. Len(s) : i = s[n]
      BY <1>1, <2>2 DEF ToSet
    <3>2. n \in DOMAIN Append(s, h)
      BY <1>1, <3>1
    <3> QED BY <1>2, <3>1, <3>2 DEF ToSet
  <2> QED BY <1>4, <2>1, <2>2
<1> QED BY <1>1, <1>2, <1>3, <1>4

\* The head of an ordered list is in front of the rest, which is ordered.
LEMMA TailInOrder ==
    ASSUME NEW c, NEW s \in Seq(Ids), s # <<>>, InOrder(c, s)
    PROVE  /\ InOrder(c, Tail(s)) /\ Head(s) \notin ToSet(Tail(s)) /\ Head(s) \notin c.ahead[Head(s)]
           /\ \A j \in ToSet(Tail(s)) : Head(s) \in c.ahead[j] /\ j \notin c.ahead[Head(s)]
<1>0. /\ Len(s) \in Nat /\ Len(s) >= 1 /\ DOMAIN s = 1 .. Len(s) /\ Head(s) = s[1]
      /\ DOMAIN Tail(s) = 1 .. (Len(s) - 1)
      /\ \A n \in 1 .. (Len(s) - 1) : Tail(s)[n] = s[n + 1]
  BY TailFacts
<1>1. InOrder(c, Tail(s))
  <2> SUFFICES ASSUME NEW m \in 1 .. (Len(s) - 1), NEW n \in 1 .. (Len(s) - 1)
               PROVE  Tail(s)[m] \in c.ahead[Tail(s)[n]] <=> m < n
    BY <1>0 DEF InOrder
  <2>1. m + 1 \in DOMAIN s /\ n + 1 \in DOMAIN s /\ (m + 1 < n + 1 <=> m < n)
    BY <1>0
  <2>2. s[m + 1] \in c.ahead[s[n + 1]] <=> m + 1 < n + 1
    BY <2>1 DEF InOrder
  <2> QED BY <1>0, <2>1, <2>2
<1>2. Head(s) \notin c.ahead[Head(s)]
  BY <1>0 DEF InOrder
<1>3. ASSUME NEW j \in ToSet(Tail(s)) PROVE Head(s) \in c.ahead[j] /\ j \notin c.ahead[Head(s)]
  <2>1. PICK n \in 1 .. (Len(s) - 1) : j = s[n + 1]
    BY <1>0, <1>3 DEF ToSet
  <2>2. n + 1 \in DOMAIN s /\ 1 \in DOMAIN s /\ 1 < n + 1 /\ ~(n + 1 < 1)
    BY <1>0, <2>1
  <2> QED BY <1>0, <2>1, <2>2 DEF InOrder
<1> QED BY <1>1, <1>2, <1>3

\* An id behind all entries of a list can be put at its end.
LEMMA AppendInOrder ==
    ASSUME NEW c, NEW s \in Seq(Ids), NEW h \in Ids, InOrder(c, s), h \notin c.ahead[h],
           \A i \in ToSet(s) : i \in c.ahead[h] /\ h \notin c.ahead[i]
    PROVE  InOrder(c, Append(s, h))
<1>0. /\ Len(s) \in Nat /\ DOMAIN s = 1 .. Len(s) /\ DOMAIN Append(s, h) = 1 .. (Len(s) + 1)
      /\ \A n \in 1 .. Len(s) : Append(s, h)[n] = s[n] /\ s[n] \in ToSet(s)
      /\ Append(s, h)[Len(s) + 1] = h
  BY AppendFacts DEF ToSet
<1> SUFFICES ASSUME NEW m \in 1 .. (Len(s) + 1), NEW n \in 1 .. (Len(s) + 1)
             PROVE  Append(s, h)[m] \in c.ahead[Append(s, h)[n]] <=> m < n
  BY <1>0 DEF InOrder
<1>1. CASE m \in 1 .. Len(s) /\ n \in 1 .. Len(s)
  BY <1>0, <1>1 DEF InOrder
<1>2. CASE m = Len(s) + 1 /\ n \in 1 .. Len(s)
  BY <1>0, <1>2
<1>3. CASE m \in 1 .. Len(s) /\ n = Len(s) + 1
  BY <1>0, <1>3
<1>4. CASE m = Len(s) + 1 /\ n = Len(s) + 1
  BY <1>0, <1>4
<1> QED BY <1>0, <1>1, <1>2, <1>3, <1>4

----------------------------------------------------------------------------
(* Starting one spawn *)

\* Sets of ids can be counted.
LEMMA IdsCounted ==
    ASSUME NEW S \in SUBSET Ids
    PROVE  IsFiniteSet(S) /\ Cardinality(S) \in Nat
BY CoordinatorAssumption, FS_Subset, FS_CardinalityType

\* A started spawn leaves the queue and takes a slot of its session, and of no other.
LEMMA StartOne ==
    ASSUME NEW c \in State, NEW h \in Queued(c), ~IsWorkflow(c, h), NEW e, e = StartAll(c, {h})
    PROVE  /\ e \in State /\ e.req = c.req /\ e.token = c.token
           /\ Queued(e) = Queued(c) \ {h}
           /\ \A i \in Ids \ {h} : e.ahead[i] = c.ahead[i] \ {h}
           /\ \A i \in Ids : IsWorkflow(e, i) <=> IsWorkflow(c, i)
           /\ \A s : /\ h \notin SessionRunning(c, s)
                     /\ c.req[h].session = s => SessionRunning(e, s) = SessionRunning(c, s) \cup {h}
                     /\ c.req[h].session # s => SessionRunning(e, s) = SessionRunning(c, s)
<1>0. h \in Ids /\ c.phase[h] = "queued"
  BY DEF Queued, In
<1>1. /\ e \in State /\ e.req = c.req /\ e.token = c.token
      /\ e.phase = [i \in Ids |-> IF i \in {h} THEN "pending" ELSE c.phase[i]]
      /\ e.ahead = [i \in Ids |-> IF i \in {h} THEN {} ELSE c.ahead[i] \ {h}]
  BY <1>0, StartAllShape
<1>2. Queued(e) = Queued(c) \ {h} /\ Executing(e) = Executing(c) \cup {h} /\ h \notin Executing(c)
  BY ZenonT(60), <1>0, <1>1 DEF Queued, Executing, In
<1>3. \A i \in Ids \ {h} : e.ahead[i] = c.ahead[i] \ {h}
  BY <1>1
<1>4. \A i \in Ids : IsWorkflow(e, i) <=> IsWorkflow(c, i)
  BY <1>1 DEF IsWorkflow
<1>5. ASSUME NEW s
      PROVE  /\ h \notin SessionRunning(c, s)
             /\ c.req[h].session = s => SessionRunning(e, s) = SessionRunning(c, s) \cup {h}
             /\ c.req[h].session # s => SessionRunning(e, s) = SessionRunning(c, s)
  <2>1. /\ SessionRunning(e, s) = {i \in Executing(c) \cup {h} : c.req[i].session = s /\ ~IsWorkflow(c, i)}
        /\ SessionRunning(c, s) = {i \in Executing(c) : c.req[i].session = s /\ ~IsWorkflow(c, i)}
    BY <1>1, <1>2 DEF SessionRunning, IsWorkflow
  <2> QED BY <1>2, <2>1
<1> QED BY <1>1, <1>2, <1>3, <1>4, <1>5

\* A session that was full stays full.
LEMMA StaysFull ==
    ASSUME NEW c \in State, NEW h \in Queued(c), ~IsWorkflow(c, h), NEW s, ~HasCapacity(c, s)
    PROVE  ~HasCapacity(StartAll(c, {h}), s)
<1> DEFINE e == StartAll(c, {h})
<1>1. SessionRunning(c, s) \subseteq SessionRunning(e, s)
  BY StartOne
<1>0. SessionRunning(c, s) \in SUBSET Ids /\ SessionRunning(e, s) \in SUBSET Ids
  BY DEF SessionRunning, Executing, In
<1>2. Cardinality(SessionRunning(c, s)) <= Cardinality(SessionRunning(e, s))
  BY <1>0, <1>1, IdsCounted, FS_Subset
<1>3. Cardinality(SessionRunning(c, s)) \in Nat /\ Cardinality(SessionRunning(e, s)) \in Nat
  BY <1>0, IdsCounted
<1> QED BY <1>2, <1>3, CoordinatorAssumption DEF HasCapacity

\* The lists that do not have the started spawn stay in order.
LEMMA StartedInOrder ==
    ASSUME NEW c \in State, NEW h \in Queued(c), ~IsWorkflow(c, h), NEW s \in Seq(Ids),
           h \notin ToSet(s), InOrder(c, s)
    PROVE  InOrder(StartAll(c, {h}), s)
<1> DEFINE e == StartAll(c, {h})
<1>1. \A n \in DOMAIN s : s[n] \in Ids \ {h}
  BY DEF ToSet
<1>2. \A n \in DOMAIN s : e.ahead[s[n]] = c.ahead[s[n]] \ {h}
  BY <1>1, StartOne
<1> QED BY <1>1, <1>2 DEF InOrder

----------------------------------------------------------------------------
(* The invariant *)

\* The entry at the front: if its session has room then nobody competes with it, since of
\* those in front of it the cancelled do not count and the kept are of full sessions.
LEMMA FrontDecided ==
    ASSUME SweepInv, todo # <<>>
    PROVE  /\ Head(todo) \in Queued(co) /\ Head(todo) \notin ToSet(kept)
           /\ HasCapacity(co, co.req[Head(todo)].session) => Competing(co, Head(todo)) = {}
           /\ Head(todo) \in Startable(co)
                <=> Head(todo) \notin co.token /\ HasCapacity(co, co.req[Head(todo)].session)
<1> DEFINE h == Head(todo)
           R == SessionRunning(co, co.req[h].session)
<1>1. /\ h \in Ids /\ ToSet(todo) = {h} \cup ToSet(Tail(todo))
      /\ h \notin co.ahead[h] /\ \A j \in ToSet(Tail(todo)) : j \notin co.ahead[h]
  BY TailFacts, TailInOrder DEF SweepInv, SweepTypes, LinedUp
<1>2. h \in Queued(co) /\ h \notin ToSet(kept)
  BY <1>1 DEF SweepInv, Sorted, LinedUp
<1>3. ASSUME HasCapacity(co, co.req[h].session) PROVE Competing(co, h) = {}
  <2> SUFFICES ASSUME NEW j \in Competing(co, h) PROVE FALSE
    OBVIOUS
  <2>1. j \in Queued(co) /\ j \in co.ahead[h] /\ j \notin co.token /\ co.req[j].session = co.req[h].session
    BY DEF Competing
  <2>2. j \in ToSet(kept)
    BY <1>1, <2>1 DEF SweepInv, Sorted
  <2> QED BY <1>3, <2>1, <2>2 DEF SweepInv, KeptForCause
<1>4. Cardinality(R) \in Nat /\ Cardinality(Competing(co, h)) \in Nat
  BY IdsCounted DEF SessionRunning, Executing, Competing, Queued, In
<1>5. Cardinality({}) = 0
  BY FS_EmptySet
<1>s. h \in Startable(co) <=> /\ h \in Queued(co) /\ h \notin co.token
                             /\ Cardinality(R) + Cardinality(Competing(co, h)) < MaxConcurrent
  BY DEF Startable
<1> HIDE DEF h, R
<1>6. ASSUME HasCapacity(co, co.req[h].session)
      PROVE  h \in Startable(co) <=> h \notin co.token
  <2>1. Cardinality(R) < MaxConcurrent /\ Cardinality(Competing(co, h)) = 0
    BY <1>3, <1>5, <1>6 DEF HasCapacity, R
  <2>2. Cardinality(R) + Cardinality(Competing(co, h)) < MaxConcurrent
    BY <1>4, <2>1
  <2> QED BY <1>2, <1>6, <1>s, <2>2
<1>7. ASSUME ~HasCapacity(co, co.req[h].session)
      PROVE  h \notin Startable(co)
  <2>1. ~(Cardinality(R) < MaxConcurrent)
    BY <1>7 DEF HasCapacity, R
  <2> QED BY <1>4, <1>7, <1>s, <2>1, CoordinatorAssumption
<1> QED BY <1>2, <1>3, <1>6, <1>7 DEF h

\* A spawn of a full session is not to be started.
LEMMA FullNotStartable ==
    ASSUME NEW c, NEW i, ~HasCapacity(c, c.req[i].session)
    PROVE  i \notin Startable(c)
<1>1. /\ Cardinality(SessionRunning(c, c.req[i].session)) \in Nat
      /\ Cardinality(Competing(c, i)) \in Nat
  BY IdsCounted DEF SessionRunning, Executing, Competing, Queued, In
<1> QED BY <1>1, CoordinatorAssumption DEF Startable, HasCapacity

\* Nothing that was kept is to be started.
LEMMA KeptNotStartable == ASSUME SweepInv PROVE ToSet(kept) \cap Startable(co) = {}
BY FullNotStartable DEF SweepInv, KeptForCause

\* The loop begins with the whole queue.
LEMMA SweepStarts == SweepInit => SweepInv
<1> SUFFICES ASSUME SweepInit PROVE SweepInv
  OBVIOUS
<1>0. PICK W \in SUBSET Ids :
        \E q \in SetToSeqs(W), executing \in SUBSET (Ids \ W) :
        \E session \in [Ids -> Roots], tokens \in SUBSET W, owner \in [Ids -> Runs \cup {NoRun}] :
            /\ \A i \in Ids \ executing : owner[i] = NoRun
            /\ co = Population(q, executing, session, tokens, owner) /\ todo = q
  BY DEF SweepInit
<1>1. PICK q \in SetToSeqs(W), executing \in SUBSET (Ids \ W), session \in [Ids -> Roots],
           tokens \in SUBSET W, owner \in [Ids -> Runs \cup {NoRun}] :
        /\ \A i \in Ids \ executing : owner[i] = NoRun
        /\ co = Population(q, executing, session, tokens, owner) /\ todo = q
  BY <1>0
<1>2. /\ kept = <<>> /\ cancelled = <<>> /\ sweeping = TRUE /\ FALSE \in FailModes
      /\ ToSet(kept) = {} /\ ToSet(cancelled) = {}
  <2>1. ToSet(<<>>) = {}
    BY DEF ToSet
  <2> QED BY <2>1 DEF SweepInit
<1>3. Cardinality(W) \in Nat
  BY IdsCounted
<1>4. /\ q \in [1 .. Cardinality(W) -> W] /\ DOMAIN q = 1 .. Cardinality(W)
      /\ \A i, j \in DOMAIN q : i # j => q[i] # q[j]
  BY DEF SetToSeqs
<1>5. q \in Seq(Ids) /\ ToSet(q) \subseteq W
  BY <1>3, <1>4 DEF ToSet
<1>6. Blank \in Request /\ Blank.run = NoRun
  BY CoordinatorAssumption DEF Blank, Request, Sessions, Owners, Modes
<1> DEFINE Spawned(i) == [Blank EXCEPT !.session = session[i], !.run = owner[i]]
<1>7. \A i \in Ids : Spawned(i) \in Request /\ Spawned(i).run = owner[i]
  BY <1>6 DEF Request, Sessions, Owners
<1>8. AheadIn(q) \in [Ids -> SUBSET Ids]
  BY <1>4 DEF AheadIn
<1>9. /\ co.phase = [i \in Ids |-> IF i \in ToSet(q) THEN "queued"
                                  ELSE IF i \in executing THEN "active" ELSE "none"]
      /\ co.req = [i \in Ids |-> Spawned(i)]
      /\ co.ahead = AheadIn(q)
  BY <1>1 DEF Population
<1> HIDE DEF Spawned
<1>10. co \in State
  <2>1. /\ co.phase \in [Ids -> Phases] /\ co.req \in [Ids -> Request] /\ co.ahead \in [Ids -> SUBSET Ids]
    <3>2. co.phase \in [Ids -> Phases]
      BY <1>9 DEF Phases
    <3>3. co.req \in [Ids -> Request]
      BY <1>7, <1>9
    <3> QED BY <1>8, <1>9, <3>2, <3>3
  <2> QED BY <1>1, <1>2, <1>9, <2>1 DEF Population, State, Told
<1>11. Queued(co) = ToSet(q)
  BY <1>5, <1>9 DEF Queued, In
<1>12. \A i \in Queued(co) : ~IsWorkflow(co, i)
  <2> SUFFICES ASSUME NEW i \in ToSet(q) PROVE ~IsWorkflow(co, i)
    BY <1>11
  <2>1. i \in Ids \ executing
    BY <1>5
  <2> QED BY <1>1, <1>7, <1>9, <2>1 DEF IsWorkflow
<1>13. InOrder(co, q)
  <2> SUFFICES ASSUME NEW m \in DOMAIN q, NEW n \in DOMAIN q
               PROVE  q[m] \in co.ahead[q[n]] <=> m < n
    BY DEF InOrder
  <2>1. q[n] \in Ids /\ m \in Int /\ n \in Int
    BY <1>4
  <2>2. co.ahead[q[n]] = {q[k] : k \in {l \in DOMAIN q : \E o \in DOMAIN q : l < o /\ q[o] = q[n]}}
    BY <1>9, <2>1 DEF AheadIn
  <2>3. q[m] \in co.ahead[q[n]] <=> \E l \in DOMAIN q : q[l] = q[m] /\ \E o \in DOMAIN q : l < o /\ q[o] = q[n]
    BY <2>2
  <2> QED BY <1>4, <2>1, <2>3
<1>14. InOrder(co, kept)
  BY <1>2 DEF InOrder
<1> QED
  BY <1>1, <1>2, <1>5, <1>10, <1>11, <1>12, <1>13, <1>14
  DEF SweepInv, SweepTypes, Sorted, LinedUp, KeptForCause

\* A cancelled entry is set aside.
LEMMA SetAsideInv == ASSUME SweepInv, SetAside PROVE SweepInv'
<1> DEFINE h == Head(todo)
<1>1. /\ todo # <<>> /\ h \in co.token /\ cancelled' = Append(cancelled, h)
      /\ todo' = Tail(todo) /\ UNCHANGED <<co, kept, sweeping>>
  BY DEF SetAside
<1>2. /\ h \in Ids /\ Tail(todo) \in Seq(Ids) /\ ToSet(todo) = {h} \cup ToSet(todo')
      /\ InOrder(co, todo') /\ h \notin ToSet(todo')
  BY <1>1, TailFacts, TailInOrder DEF SweepInv, SweepTypes, LinedUp
<1>3. cancelled' \in Seq(Ids) /\ ToSet(cancelled') = ToSet(cancelled) \cup {h}
  BY <1>1, <1>2, AppendFacts DEF SweepInv, SweepTypes
<1> HIDE DEF h
<1>4. SweepTypes'
  BY <1>1, <1>2, <1>3 DEF SweepInv, SweepTypes
<1>5. Sorted'
  <2>1. Queued(co') = Queued(co) /\ \A i \in Queued(co) : ~IsWorkflow(co', i)
    BY <1>1 DEF SweepInv, Sorted
  <2>2. ~sweeping' => todo' = <<>>
    BY <1>1 DEF SweepInv, Sorted
  <2> QED BY <1>1, <1>2, <1>3, <2>1, <2>2 DEF SweepInv, Sorted
<1>6. LinedUp'
  BY <1>1, <1>2 DEF SweepInv, LinedUp
<1>7. KeptForCause'
  BY <1>1 DEF SweepInv, KeptForCause
<1> QED BY <1>4, <1>5, <1>6, <1>7 DEF SweepInv

\* An entry whose session is full goes to the end of the new queue.
LEMMA KeepHeadInv == ASSUME SweepInv, KeepHead PROVE SweepInv'
<1> DEFINE h == Head(todo)
<1>1. /\ todo # <<>> /\ h \notin co.token /\ ~HasCapacity(co, co.req[h].session)
      /\ kept' = Append(kept, h) /\ todo' = Tail(todo) /\ UNCHANGED <<co, cancelled, sweeping>>
  BY DEF KeepHead
<1>2. /\ h \in Ids /\ Tail(todo) \in Seq(Ids) /\ ToSet(todo) = {h} \cup ToSet(todo')
      /\ InOrder(co, todo') /\ h \notin ToSet(todo') /\ h \notin co.ahead[h]
      /\ \A j \in ToSet(todo') : h \in co.ahead[j] /\ j \notin co.ahead[h]
  BY <1>1, TailFacts, TailInOrder DEF SweepInv, SweepTypes, LinedUp
<1>3. kept' \in Seq(Ids) /\ ToSet(kept') = ToSet(kept) \cup {h}
  BY <1>1, <1>2, AppendFacts DEF SweepInv, SweepTypes
<1>0. InOrder(co, kept')
  BY <1>1, <1>2, AppendInOrder DEF SweepInv, SweepTypes, LinedUp
<1> HIDE DEF h
<1>4. SweepTypes'
  BY <1>1, <1>2, <1>3 DEF SweepInv, SweepTypes
<1>5. Sorted'
  <2>1. Queued(co') = Queued(co) /\ \A i \in Queued(co) : ~IsWorkflow(co', i)
    BY <1>1 DEF SweepInv, Sorted
  <2>2. ~sweeping' => todo' = <<>>
    BY <1>1 DEF SweepInv, Sorted
  <2> QED BY <1>1, <1>2, <1>3, <2>1, <2>2 DEF SweepInv, Sorted
<1>6. LinedUp'
  BY <1>0, <1>1, <1>2, <1>3 DEF SweepInv, LinedUp
<1>7. KeptForCause'
  BY <1>1, <1>3 DEF SweepInv, KeptForCause
<1> QED BY <1>4, <1>5, <1>6, <1>7 DEF SweepInv

\* What is known when the entry at the front is started.
LEMMA HeadStarts ==
    ASSUME SweepInv, StartHead
    PROVE  LET h == Head(todo)
           IN  /\ h \in Queued(co) /\ h \in Ids /\ ~IsWorkflow(co, h) /\ h \in Startable(co)
               /\ h \notin ToSet(kept) /\ h \notin ToSet(cancelled)
               /\ co' = StartAll(co, {h}) /\ co \in State
               /\ ToSet(todo) = {h} \cup ToSet(todo') /\ h \notin ToSet(todo')
               /\ todo' \in Seq(Ids) /\ InOrder(co, todo')
               /\ \A j \in ToSet(todo') : h \in co.ahead[j]
<1>1. /\ todo # <<>> /\ Head(todo) \notin co.token /\ HasCapacity(co, co.req[Head(todo)].session)
      /\ co' = StartAll(co, {Head(todo)}) /\ todo' = Tail(todo)
  BY DEF StartHead
<1>2. /\ Head(todo) \in Ids /\ Tail(todo) \in Seq(Ids) /\ ToSet(todo) = {Head(todo)} \cup ToSet(todo')
      /\ InOrder(co, todo') /\ Head(todo) \notin ToSet(todo')
      /\ \A j \in ToSet(todo') : Head(todo) \in co.ahead[j]
  BY <1>1, TailFacts, TailInOrder DEF SweepInv, SweepTypes, LinedUp
<1>3. Head(todo) \in Queued(co) /\ Head(todo) \notin ToSet(kept) /\ Head(todo) \in Startable(co)
  BY <1>1, FrontDecided
<1>4. Head(todo) \notin ToSet(cancelled) /\ ~IsWorkflow(co, Head(todo)) /\ co \in State
  BY <1>2, <1>3 DEF SweepInv, Sorted, SweepTypes
<1> QED BY <1>1, <1>2, <1>3, <1>4

\* An entry whose session has room is started.
LEMMA StartHeadInv == ASSUME SweepInv, StartHead PROVE SweepInv'
<1> DEFINE h == Head(todo)
<1>0. UNCHANGED <<kept, cancelled, sweeping>> /\ todo # <<>>
  BY DEF StartHead
<1>1. /\ h \in Queued(co) /\ h \in Ids /\ ~IsWorkflow(co, h)
      /\ h \notin ToSet(kept) /\ h \notin ToSet(cancelled)
      /\ co' = StartAll(co, {h}) /\ co \in State
      /\ ToSet(todo) = {h} \cup ToSet(todo') /\ h \notin ToSet(todo')
      /\ todo' \in Seq(Ids) /\ InOrder(co, todo')
  BY HeadStarts
<1> HIDE DEF h
<1>2. /\ co' \in State /\ co'.req = co.req /\ co'.token = co.token
      /\ Queued(co') = Queued(co) \ {h}
      /\ \A i \in Ids \ {h} : co'.ahead[i] = co.ahead[i] \ {h}
      /\ \A i \in Ids : IsWorkflow(co', i) <=> IsWorkflow(co, i)
  BY <1>1, StartOne
<1>3. SweepTypes'
  BY <1>0, <1>1, <1>2 DEF SweepInv, SweepTypes
<1>4. Sorted'
  <2>1. \A i \in Queued(co') : ~IsWorkflow(co', i)
    BY <1>2 DEF SweepInv, Sorted, Queued, In
  <2>2. ~sweeping' => todo' = <<>>
    BY <1>0 DEF SweepInv, Sorted
  <2>3. Queued(co') = ToSet(todo') \cup ToSet(kept') \cup ToSet(cancelled')
    BY <1>0, <1>1, <1>2 DEF SweepInv, Sorted
  <2>4. /\ ToSet(todo') \cap ToSet(cancelled') = {}
        /\ ToSet(kept') \cap co'.token = {} /\ ToSet(cancelled') \subseteq co'.token
    BY <1>0, <1>1, <1>2 DEF SweepInv, Sorted
  <2> QED BY <2>1, <2>2, <2>3, <2>4 DEF Sorted
<1>5. LinedUp'
  <2>1. InOrder(co', todo') /\ InOrder(co', kept)
    BY <1>1, StartedInOrder DEF SweepInv, SweepTypes, LinedUp
  <2>2. ASSUME NEW i \in ToSet(kept), NEW j \in ToSet(todo')
        PROVE  i \in co'.ahead[j] /\ j \notin co'.ahead[i]
    <3>1. i \in Ids /\ j \in Ids
      BY <1>1 DEF SweepInv, SweepTypes, ToSet
    <3>2. i # h /\ j # h /\ j \in ToSet(todo)
      BY <1>1
    <3>3. i \in co.ahead[j] /\ j \notin co.ahead[i]
      BY <3>2 DEF SweepInv, LinedUp
    <3>4. co'.ahead[i] = co.ahead[i] \ {h} /\ co'.ahead[j] = co.ahead[j] \ {h}
      BY <1>2, <3>1, <3>2
    <3> QED BY <3>2, <3>3, <3>4
  <2> QED BY <1>0, <2>1, <2>2 DEF LinedUp
<1>6. KeptForCause'
  BY <1>0, <1>1, <1>2, StaysFull DEF SweepInv, KeptForCause
<1> QED BY <1>3, <1>4, <1>5, <1>6 DEF SweepInv

\* The loop keeps its invariant.
THEOREM SweepInvariance == SweepSpec => []SweepInv
<1>1. ASSUME SweepInv, [SweepNext]_sweepVars PROVE SweepInv'
  <2>1. CASE SweepEnds
    BY <1>1, <2>1 DEF SweepEnds, SweepInv, SweepTypes, Sorted, LinedUp, KeptForCause
  <2>2. CASE UNCHANGED sweepVars
    BY <1>1, <2>2 DEF sweepVars, SweepInv, SweepTypes, Sorted, LinedUp, KeptForCause
  <2> QED BY <1>1, <2>1, <2>2, SetAsideInv, StartHeadInv, KeepHeadInv DEF SweepNext
<1> QED BY <1>1, SweepStarts, PTL DEF SweepSpec

----------------------------------------------------------------------------
(* What the loop computes *)

\* For queues of any length, any sessions, children and limit: the loop of
\* start_queued_within_capacity starts the entry at the front if and only if the closed
\* form does, and the closed form starts nothing that the loop has kept.
THEOREM SweepMatches == SweepSpec => []SweepMatchesClosedForm
<1>1. SweepInv => SweepMatchesClosedForm
  BY FrontDecided, KeptNotStartable DEF SweepMatchesClosedForm
<1> QED BY <1>1, SweepInvariance, PTL

\* When the loop ends it has kept, in their order, exactly the queued spawns whose token
\* is not cancelled, and set aside the others.
THEOREM SweepOrders == SweepSpec => []SweepKeepsOrder
<1>1. SweepInv => SweepKeepsOrder
  <2> SUFFICES ASSUME SweepInv, ~sweeping PROVE SweepKeepsOrder
    BY DEF SweepKeepsOrder
  <2>1. ToSet(<<>>) = {}
    BY DEF ToSet
  <2>2. Queued(co) = ToSet(kept) \cup ToSet(cancelled)
    BY <2>1 DEF SweepInv, Sorted
  <2>3. ToSet(kept) = Queued(co) \ co.token /\ ToSet(cancelled) = Queued(co) \cap co.token
    BY <2>2 DEF SweepInv, Sorted
  <2>4. \A m, n \in DOMAIN kept : m < n <=> kept[m] \in co.ahead[kept[n]]
    BY DEF SweepInv, LinedUp, InOrder
  <2> QED BY <2>3, <2>4 DEF SweepKeepsOrder
<1> QED BY <1>1, SweepInvariance, PTL

\* The state in which the closed form of the sweep leaves the actor.
Outcome == StartAll(co, Startable(co))

\* A start changes nothing about who else is to be started: a spawn behind it in its
\* session loses a competitor with the slot, and one in front of it was kept for good.
LEMMA StartableLeft ==
    ASSUME SweepInv, StartHead
    PROVE  Startable(co') = Startable(co) \ {Head(todo)}
<1> DEFINE h == Head(todo)
           Slots(c, i) == Cardinality(SessionRunning(c, c.req[i].session)) + Cardinality(Competing(c, i))
<1>1. /\ h \in Queued(co) /\ h \in Ids /\ ~IsWorkflow(co, h) /\ h \in Startable(co)
      /\ co' = StartAll(co, {h}) /\ co \in State
      /\ ToSet(todo) = {h} \cup ToSet(todo')
      /\ \A j \in ToSet(todo') : h \in co.ahead[j]
  BY HeadStarts
<1>2. kept' = kept
  BY DEF StartHead
<1> HIDE DEF h
<1>3. /\ co'.req = co.req /\ co'.token = co.token
      /\ Queued(co') = Queued(co) \ {h}
      /\ \A i \in Ids \ {h} : co'.ahead[i] = co.ahead[i] \ {h}
      /\ \A s : /\ h \notin SessionRunning(co, s)
                /\ co.req[h].session = s => SessionRunning(co', s) = SessionRunning(co, s) \cup {h}
                /\ co.req[h].session # s => SessionRunning(co', s) = SessionRunning(co, s)
  BY <1>1, StartOne
<1>4. ToSet(kept) \cap Startable(co) = {} /\ ToSet(kept) \cap Startable(co') = {}
  <2>1. SweepInv'
    BY StartHeadInv
  <2>2. ToSet(kept') \cap Startable(co') = {}
    BY <2>1, FullNotStartable DEF SweepInv, KeptForCause
  <2> QED BY <1>2, <2>2, KeptNotStartable
<1>5. ASSUME NEW i \in Queued(co) \ co.token, i # h, i \notin ToSet(kept)
      PROVE  Slots(co', i) = Slots(co, i)
  <2> DEFINE s == co.req[i].session
             R == SessionRunning(co, s)
             C == Competing(co, i)
  <2>1. i \in Ids /\ i \in ToSet(todo') /\ h \in co.ahead[i]
    BY <1>1, <1>5 DEF SweepInv, Sorted, Queued, In
  <2>2. h \notin co.token
    BY <1>1 DEF Startable
  <2>3. Competing(co', i) = C \ {h}
    <3>1. co'.ahead[i] = co.ahead[i] \ {h}
      BY <1>3, <1>5, <2>1
    <3> QED BY <1>3, <3>1 DEF Competing
  <2>4. co'.req[i].session = s
    BY <1>3
  <2>5. IsFiniteSet(R) /\ Cardinality(R) \in Nat /\ IsFiniteSet(C) /\ Cardinality(C) \in Nat
    BY IdsCounted DEF SessionRunning, Executing, Competing, Queued, In
  <2>6. CASE co.req[h].session = s
    <3>1. h \in C
      BY <1>1, <2>1, <2>2, <2>6 DEF Competing
    <3>2. SessionRunning(co', s) = R \cup {h} /\ h \notin R
      BY <1>3, <2>6
    <3> HIDE DEF R, C, s
    <3>3. Cardinality(R \cup {h}) = Cardinality(R) + 1
      BY <2>5, <3>2, FS_AddElement
    <3>4. Cardinality(C \ {h}) = Cardinality(C) - 1
      BY <2>5, <3>1, FS_RemoveElement
    <3>5. Slots(co', i) = (Cardinality(R) + 1) + (Cardinality(C) - 1)
      BY <2>3, <2>4, <3>2, <3>3, <3>4
    <3>6. Slots(co, i) = Cardinality(R) + Cardinality(C)
      BY DEF R, C, s
    <3> QED BY <2>5, <3>5, <3>6
  <2>7. CASE co.req[h].session # s
    <3>1. h \notin C
      BY <2>7 DEF Competing
    <3>2. SessionRunning(co', s) = R /\ C \ {h} = C
      BY <1>3, <2>7, <3>1
    <3> QED BY <2>3, <2>4, <3>2
  <2> QED BY <2>6, <2>7
<1>6. ASSUME NEW i \in Ids
      PROVE  i \in Startable(co') <=> i \in Startable(co) \ {h}
  <2>0. /\ i \in Startable(co) <=> i \in Queued(co) \ co.token /\ Slots(co, i) < MaxConcurrent
        /\ i \in Startable(co') <=> i \in Queued(co') \ co'.token /\ Slots(co', i) < MaxConcurrent
    BY DEF Startable
  <2> HIDE DEF Slots
  <2>1. CASE i \in ToSet(kept)
    BY <1>4, <2>1
  <2>2. CASE i \notin ToSet(kept) /\ i \in Queued(co) \ co.token /\ i # h
    BY <1>3, <1>5, <2>0, <2>2
  <2>3. CASE i \notin Queued(co) \ co.token \/ i = h
    BY <1>3, <2>0, <2>3
  <2> QED BY <2>1, <2>2, <2>3
<1>7. Startable(co) \subseteq Ids /\ Startable(co') \subseteq Ids
  BY DEF Startable, Queued, In
<1> QED BY <1>6, <1>7 DEF h

\* Starting one of several spawns first makes no difference.
LEMMA StartInTurns ==
    ASSUME NEW c \in State, NEW S \in SUBSET Ids, NEW h \in S
    PROVE  StartAll(StartAll(c, {h}), S \ {h}) = StartAll(c, S)
<1> DEFINE d == StartAll(c, {h})
           e == StartAll(d, S \ {h})
           f == StartAll(c, S)
           Quiet(F) == {i \in F : c.req[i].mode = "background" \/ c.reply[i] = "none"}
<1>1. /\ d \in State
      /\ d = [c EXCEPT !.phase = [i \in Ids |-> IF i \in {h} THEN "pending" ELSE c.phase[i]],
                       !.ahead = [i \in Ids |-> IF i \in {h} THEN {} ELSE c.ahead[i] \ {h}],
                       !.handleOnly = c.handleOnly \cup Quiet({h}),
                       !.runs = c.runs \cup {h}]
  BY ZenonT(60), StartAllShape DEF StartAll
<1>2. /\ d.phase = [i \in Ids |-> IF i \in {h} THEN "pending" ELSE c.phase[i]]
      /\ d.ahead = [i \in Ids |-> IF i \in {h} THEN {} ELSE c.ahead[i] \ {h}]
      /\ d.handleOnly = c.handleOnly \cup Quiet({h}) /\ d.runs = c.runs \cup {h}
      /\ d.req = c.req /\ d.reply = c.reply
  BY <1>1 DEF State
<1> HIDE DEF d
<1>3. /\ e = [d EXCEPT !.phase = [i \in Ids |-> IF i \in S \ {h} THEN "pending" ELSE d.phase[i]],
                       !.ahead = [i \in Ids |-> IF i \in S \ {h} THEN {} ELSE d.ahead[i] \ (S \ {h})],
                       !.handleOnly = d.handleOnly \cup Quiet(S \ {h}),
                       !.runs = d.runs \cup (S \ {h})]
  BY <1>2 DEF StartAll
<1>4. /\ f = [c EXCEPT !.phase = [i \in Ids |-> IF i \in S THEN "pending" ELSE c.phase[i]],
                       !.ahead = [i \in Ids |-> IF i \in S THEN {} ELSE c.ahead[i] \ S],
                       !.handleOnly = c.handleOnly \cup Quiet(S),
                       !.runs = c.runs \cup S]
  BY DEF StartAll
<1>5. /\ [i \in Ids |-> IF i \in S \ {h} THEN "pending" ELSE d.phase[i]]
           = [i \in Ids |-> IF i \in S THEN "pending" ELSE c.phase[i]]
      /\ [i \in Ids |-> IF i \in S \ {h} THEN {} ELSE d.ahead[i] \ (S \ {h})]
           = [i \in Ids |-> IF i \in S THEN {} ELSE c.ahead[i] \ S]
  <2>1. ASSUME NEW i \in Ids
        PROVE  /\ (IF i \in S \ {h} THEN "pending" ELSE d.phase[i]) = IF i \in S THEN "pending" ELSE c.phase[i]
               /\ (IF i \in S \ {h} THEN {} ELSE d.ahead[i] \ (S \ {h})) = IF i \in S THEN {} ELSE c.ahead[i] \ S
    <3>1. CASE i = h
      BY <1>2, <3>1
    <3>2. CASE i # h
      <4>1. d.phase[i] = c.phase[i] /\ d.ahead[i] = c.ahead[i] \ {h}
        BY <1>2, <3>2
      <4>2. (c.ahead[i] \ {h}) \ (S \ {h}) = c.ahead[i] \ S
        OBVIOUS
      <4> QED BY <3>2, <4>1, <4>2
    <3> QED BY <3>1, <3>2
  <2> QED BY <2>1
<1>6. /\ d.handleOnly \cup Quiet(S \ {h}) = c.handleOnly \cup Quiet(S)
      /\ d.runs \cup (S \ {h}) = c.runs \cup S
  BY <1>2
<1> DEFINE ph == [i \in Ids |-> IF i \in S THEN "pending" ELSE c.phase[i]]
           ah == [i \in Ids |-> IF i \in S THEN {} ELSE c.ahead[i] \ S]
           ho == c.handleOnly \cup Quiet(S)
           ru == c.runs \cup S
<1>7. e = [d EXCEPT !.phase = ph, !.ahead = ah, !.handleOnly = ho, !.runs = ru]
  BY <1>3, <1>5, <1>6
<1>8. f = [c EXCEPT !.phase = ph, !.ahead = ah, !.handleOnly = ho, !.runs = ru]
  BY <1>4
<1> DEFINE p1 == [i \in Ids |-> IF i \in {h} THEN "pending" ELSE c.phase[i]]
           a1 == [i \in Ids |-> IF i \in {h} THEN {} ELSE c.ahead[i] \ {h}]
           h1 == c.handleOnly \cup Quiet({h})
           r1 == c.runs \cup {h}
<1>9. d = [c EXCEPT !.phase = p1, !.ahead = a1, !.handleOnly = h1, !.runs = r1]
  BY <1>1
<1> HIDE DEF e, f, ph, ah, ho, ru, p1, a1, h1, r1, Quiet
<1>10. e = f
  BY <1>7, <1>8, <1>9 DEF State
<1> QED BY <1>10 DEF d, e, f

\* For queues of any length the loop computes the closed form: no pass changes what the
\* closed form makes of the actor's state, and when the loop ends the actor is in that
\* state.  This is what lets SubagentCoordinator write the sweep as one StartAll.
THEOREM SweepComputes ==
    SweepSpec => [][Outcome' = Outcome]_sweepVars /\ [](~sweeping => co = Outcome)
<1>1. ASSUME SweepInv, [SweepNext]_sweepVars PROVE Outcome' = Outcome
  <2>1. CASE StartHead
    <3>1. /\ co \in State /\ Head(todo) \in Startable(co) /\ Startable(co) \subseteq Ids
          /\ co' = StartAll(co, {Head(todo)})
      BY <1>1, <2>1, HeadStarts DEF Startable, Queued, In
    <3>2. Startable(co') = Startable(co) \ {Head(todo)}
      BY <1>1, <2>1, StartableLeft
    <3>3. StartAll(StartAll(co, {Head(todo)}), Startable(co) \ {Head(todo)}) = StartAll(co, Startable(co))
      BY <3>1, StartInTurns
    <3> QED BY <3>1, <3>2, <3>3 DEF Outcome
  <2>2. CASE co' = co
    BY <2>2 DEF Outcome
  <2> QED BY <1>1, <2>1, <2>2 DEF SweepNext, SetAside, KeepHead, SweepEnds, sweepVars
<1>2. ASSUME SweepInv, ~sweeping PROVE co = Outcome
  <2>1. ToSet(<<>>) = {}
    BY DEF ToSet
  <2>2. Startable(co) = {}
    BY <1>2, <2>1, KeptNotStartable DEF SweepInv, Sorted, Startable
  <2>3. co \in State
    BY <1>2 DEF SweepInv, SweepTypes
  <2>4. /\ [i \in Ids |-> IF i \in {} THEN "pending" ELSE co.phase[i]] = co.phase
        /\ [i \in Ids |-> IF i \in {} THEN {} ELSE co.ahead[i] \ {}] = co.ahead
        /\ co.handleOnly \cup {i \in {} : co.req[i].mode = "background" \/ co.reply[i] = "none"} = co.handleOnly
        /\ co.runs \cup {} = co.runs
    BY <2>3 DEF State
  <2>5. StartAll(co, {}) = [co EXCEPT !.phase = co.phase, !.ahead = co.ahead,
                                      !.handleOnly = co.handleOnly, !.runs = co.runs]
    BY <2>4 DEF StartAll
  <2>6. StartAll(co, {}) = co
    BY <2>3, <2>5 DEF State
  <2> QED BY <2>2, <2>6 DEF Outcome
<1> QED BY <1>1, <1>2, SweepInvariance, PTL DEF SweepSpec

=============================================================================
