------------------------ MODULE CircuitBreakerProofs ------------------------
(***************************************************************************)
(* For every number of callers and every configuration of CircuitBreaker,  *)
(* however their calls overlap: its type invariant and the exact count of  *)
(* failures.                                                               *)
(***************************************************************************)
EXTENDS CircuitBreaker, TLAPS, FiniteSetTheorems, SequenceTheorems, WellFoundedInduction, NaturalsInduction

----------------------------------------------------------------------------
(* The sliding window *)

Windows == [entries : Seq(Entries), failures : Int]

\* The failed samples among the first n of a sequence, and all of them.
FailedUpTo(s, n) == {i \in 1 .. n : s[i].failed}
Exact(w) == w.failures = Cardinality(FailedUpTo(w.entries, Len(w.entries)))

\* Sets of indices can be counted.
LEMMA FailedFinite ==
    ASSUME NEW s, NEW n \in Nat
    PROVE  IsFiniteSet(FailedUpTo(s, n)) /\ Cardinality(FailedUpTo(s, n)) \in Nat
<1>1. IsFiniteSet(1 .. n)
  BY FS_Interval
<1>2. IsFiniteSet(FailedUpTo(s, n))
  BY <1>1, FS_Subset DEF FailedUpTo
<1>. QED
  BY <1>2, FS_CardinalityType

\* A suffix of the samples has the failures that its prefix does not have.
LEMMA FailedSuffix ==
    ASSUME NEW s \in Seq(Entries), NEW k \in 1 .. Len(s) + 1
    PROVE  LET r == SubSeq(s, k, Len(s))
           IN  /\ r \in Seq(Entries) /\ Len(r) = Len(s) + 1 - k
               /\ Cardinality(FailedUpTo(r, Len(r))) =
                    Cardinality(FailedUpTo(s, Len(s))) - Cardinality(FailedUpTo(s, k - 1))
<1>. DEFINE r == SubSeq(s, k, Len(s))
            pre == FailedUpTo(s, k - 1)
            all == FailedUpTo(s, Len(s))
            back == FailedUpTo(r, Len(r))
            g == [j \in back |-> j + k - 1]
<1>1. Len(s) \in Nat
  BY LenProperties
<1>2. /\ r \in Seq(Entries) /\ Len(r) = Len(s) + 1 - k
      /\ \A j \in 1 .. Len(r) : r[j] = s[k + j - 1]
  BY <1>1, SubSeqProperties
<1>. HIDE DEF r
<1>3. \A j \in back : j + k - 1 \in all \ pre
  BY <1>1, <1>2 DEF FailedUpTo
<1>4. \A i \in all \ pre : i - k + 1 \in back
  BY <1>1, <1>2 DEF FailedUpTo
<1>5. back \subseteq Nat /\ all \subseteq Nat /\ k \in Nat
  BY <1>1, <1>2 DEF FailedUpTo
<1>. HIDE DEF back, all, pre
<1>6. g \in Injection(back, all \ pre)
  BY <1>3, <1>5 DEF Injection, IsInjective
<1>7. g \in Surjection(back, all \ pre)
  <2>1. \A i \in all \ pre : \E j \in back : g[j] = i
    BY <1>4, <1>5
  <2>2. g \in [back -> all \ pre]
    BY <1>3
  <2>. QED
    BY <2>1, <2>2 DEF Surjection
<1>8. ExistsBijection(back, all \ pre)
  BY <1>6, <1>7 DEF ExistsBijection, Bijection
<1>9. /\ IsFiniteSet(back) /\ IsFiniteSet(all) /\ IsFiniteSet(pre) /\ pre \subseteq all
      /\ Cardinality(all) \in Nat /\ Cardinality(pre) \in Nat
  <2>1. Len(r) \in Nat /\ k - 1 \in Nat
    BY <1>1, <1>2
  <2>2. pre \subseteq all
    BY <1>1 DEF pre, all, FailedUpTo
  <2>. QED
    BY <1>1, <2>1, <2>2, FailedFinite DEF back, all, pre
<1>10. Cardinality(all \ pre) = Cardinality(back)
  BY <1>8, <1>9, FS_Bijection
<1>11. Cardinality(all \ pre) = Cardinality(all) - Cardinality(all \cap pre)
  BY <1>9, FS_Difference
<1>12. all \cap pre = pre
  BY <1>9
<1>. QED
  BY <1>2, <1>10, <1>11, <1>12 DEF back, all, pre, r

\* One more sample.
LEMMA FailedAppend ==
    ASSUME NEW s \in Seq(Entries), NEW e \in Entries
    PROVE  LET r == Append(s, e)
           IN  /\ r \in Seq(Entries)
               /\ Cardinality(FailedUpTo(r, Len(r))) =
                    Cardinality(FailedUpTo(s, Len(s))) + AsCount(e.failed)
<1>. DEFINE r == Append(s, e)
            old == FailedUpTo(s, Len(s))
<1>1. /\ r \in Seq(Entries) /\ Len(s) \in Nat /\ Len(r) = Len(s) + 1 /\ r[Len(s) + 1] = e
      /\ \A i \in 1 .. Len(s) : r[i] = s[i]
  BY AppendProperties, LenProperties
<1>. HIDE DEF r
<1>2. e.failed \in BOOLEAN
  BY DEF Entries
<1>3. FailedUpTo(r, Len(r)) = IF e.failed THEN old \cup {Len(s) + 1} ELSE old
  BY <1>1, <1>2 DEF FailedUpTo
<1>4. IsFiniteSet(old) /\ Cardinality(old) \in Nat /\ Len(s) + 1 \notin old
  BY <1>1, FailedFinite DEF FailedUpTo
<1>. HIDE DEF old
<1>5. Cardinality(old \cup {Len(s) + 1}) = Cardinality(old) + 1
  BY <1>4, FS_AddElement
<1>. QED
  BY <1>1, <1>2, <1>3, <1>4, <1>5 DEF AsCount, r, old

\* push keeps the count exact, also at the cap.
LEMMA PushExact ==
    ASSUME NEW w \in Windows, Exact(w), NEW failed \in BOOLEAN, NEW at \in Times
    PROVE  Push(w, failed, at) \in Windows /\ Exact(Push(w, failed, at))
<1>. DEFINE s == w.entries
            full == Len(s) >= MaxEntries
            base == IF full THEN Tail(s) ELSE s
            e == [at |-> at, failed |-> failed]
            r == Append(base, e)
            gone == AsCount(full /\ Head(s).failed)
<1>1. s \in Seq(Entries) /\ Len(s) \in Nat /\ e \in Entries /\ w.failures \in Int
  BY LenProperties DEF Windows, Entries
<1>2. /\ base \in Seq(Entries) /\ gone \in Int
      /\ Cardinality(FailedUpTo(base, Len(base))) = Cardinality(FailedUpTo(s, Len(s))) - gone
  <2>1. CASE ~full
    <3>1. gone = 0 /\ base = s
      BY <2>1 DEF AsCount
    <3>2. Cardinality(FailedUpTo(s, Len(s))) \in Nat
      BY <1>1, FailedFinite
    <3>. HIDE DEF gone, base
    <3>. QED
      BY <1>1, <3>1, <3>2
  <2>2. CASE full
    <3>1. s # <<>> /\ Len(s) >= 1
      BY <1>1, <2>2, BreakerAssumption, EmptySeq
    <3>2. base = SubSeq(s, 2, Len(s)) /\ 2 \in 1 .. Len(s) + 1 /\ Head(s) = s[1] /\ s[1] \in Entries
      BY <1>1, <2>2, <3>1, TailIsSubSeq, ElementOfSeq
    <3>3. /\ base \in Seq(Entries)
          /\ Cardinality(FailedUpTo(base, Len(base))) =
               Cardinality(FailedUpTo(s, Len(s))) - Cardinality(FailedUpTo(s, 2 - 1))
      BY <1>1, <3>2, FailedSuffix
    <3>4. FailedUpTo(s, 2 - 1) = IF s[1].failed THEN {1} ELSE {}
      BY DEF FailedUpTo
    <3>5. s[1].failed \in BOOLEAN /\ gone = AsCount(s[1].failed)
      BY <2>2, <3>2 DEF Entries
    <3>6. Cardinality(FailedUpTo(s, 2 - 1)) = AsCount(s[1].failed)
      <4>1. CASE s[1].failed
        BY <3>4, <4>1, FS_Singleton DEF AsCount
      <4>2. CASE ~s[1].failed
        BY <3>4, <4>2, FS_EmptySet DEF AsCount
      <4>. QED
        BY <3>5, <4>1, <4>2
    <3>7. AsCount(s[1].failed) \in Int
      BY DEF AsCount
    <3>. QED
      BY <3>3, <3>5, <3>6, <3>7, Zenon
  <2>. QED
    BY <2>1, <2>2
<1>3. /\ r \in Seq(Entries)
      /\ Cardinality(FailedUpTo(r, Len(r))) =
           Cardinality(FailedUpTo(base, Len(base))) + AsCount(failed)
  <2>. HIDE DEF base, e
  <2>1. r \in Seq(Entries) /\ Cardinality(FailedUpTo(r, Len(r))) =
                                Cardinality(FailedUpTo(base, Len(base))) + AsCount(e.failed)
    BY <1>1, <1>2, FailedAppend
  <2>. QED
    BY <2>1 DEF e
<1>4. Push(w, failed, at) = [entries |-> r, failures |-> w.failures + AsCount(failed) - gone]
  BY DEF Push
<1>5. AsCount(failed) \in Int /\ Cardinality(FailedUpTo(s, Len(s))) \in Nat
  BY <1>1, FailedFinite DEF AsCount
<1>. HIDE DEF r, base, gone
<1>. QED
  BY <1>1, <1>2, <1>3, <1>4, <1>5 DEF Windows, Exact

\* evict keeps the count exact, in whatever order the timestamps are.
LEMMA EvictExact ==
    ASSUME NEW w \in Windows, Exact(w), NEW at \in Times
    PROVE  Evict(w, at) \in Windows /\ Exact(Evict(w, at))
<1>. DEFINE s == w.entries
            fresh == {i \in 1 .. Len(s) : s[i].at >= at - WindowDuration}
            kept == IF fresh = {} THEN Len(s) + 1 ELSE CHOOSE i \in fresh : \A j \in fresh : i <= j
            r == SubSeq(s, kept, Len(s))
<1>1. s \in Seq(Entries) /\ Len(s) \in Nat /\ w.failures \in Int
  BY LenProperties DEF Windows
<1>2. kept \in 1 .. Len(s) + 1
  <2>1. CASE fresh = {}
    BY <1>1, <2>1
  <2>2. CASE fresh # {}
    <3>1. fresh \subseteq Nat /\ fresh \subseteq 1 .. Len(s)
      BY <1>1
    <3>. HIDE DEF fresh
    <3>2. PICK i \in fresh : \A j \in fresh : ~(<<j, i>> \in OpToRel(<, Nat))
      BY <2>2, <3>1, NatLessThanWellFounded, WFMin
    <3>3. ASSUME NEW j \in fresh PROVE i <= j
      <4>1. i \in Nat /\ j \in Nat
        BY <3>1
      <4>2. j < i => <<j, i>> \in OpToRel(<, Nat)
        BY <4>1 DEF OpToRel
      <4>3. ~(j < i)
        BY <3>2, <4>2, Zenon
      <4>. QED
        BY <4>1, <4>3
    <3>4. kept \in fresh
      BY <2>2, <3>3
    <3>. HIDE DEF kept
    <3>. QED
      BY <1>1, <3>1, <3>4
  <2>. QED
    BY <2>1, <2>2
<1>3. Evict(w, at) = [entries |-> r, failures |-> w.failures - Cardinality(FailedUpTo(s, kept - 1))]
  BY DEF Evict, FailedUpTo
<1>. HIDE DEF kept
<1>4. /\ r \in Seq(Entries)
      /\ Cardinality(FailedUpTo(r, Len(r))) =
           Cardinality(FailedUpTo(s, Len(s))) - Cardinality(FailedUpTo(s, kept - 1))
  BY <1>1, <1>2, FailedSuffix
<1>5. Cardinality(FailedUpTo(s, kept - 1)) \in Nat
  <2>1. kept - 1 \in Nat
    BY <1>1, <1>2
  <2>. QED
    BY <2>1, FailedFinite
<1>. HIDE DEF r
<1>. QED
  BY <1>1, <1>3, <1>4, <1>5 DEF Windows, Exact

\* A cleared window.
LEMMA EmptyExact == EmptyWindow \in Windows /\ Exact(EmptyWindow)
<1>1. FailedUpTo(<<>>, Len(<<>>)) = {}
  BY EmptySeq DEF FailedUpTo
<1>. QED
  BY <1>1, FS_EmptySet, EmptySeq DEF EmptyWindow, Windows, Exact

----------------------------------------------------------------------------
(* However calls overlap *)

\* The inductive invariant: the count is kept exact over samples of the right type.
Inv == TypeOK /\ FailureCountExact

\* FailureCountExact in the terms of the lemmas about the window.
LEMMA ExactIs == FailureCountExact <=> Exact(window)
BY DEF FailureCountExact, Exact, FailedUpTo

\* The window that record() leaves behind.
LEMMA SampledExact ==
    ASSUME Inv, NEW t \in Threads
    PROVE  Sampled(t) \in Windows /\ Exact(Sampled(t))
<1>1. window \in Windows /\ Exact(window) /\ loc[t].failed \in BOOLEAN /\ loc[t].now \in Times
  BY ExactIs DEF Inv, TypeOK, Windows
<1>2. Push(window, loc[t].failed, loc[t].now) \in Windows /\ Exact(Push(window, loc[t].failed, loc[t].now))
  BY <1>1, PushExact
<1>. QED
  BY <1>1, <1>2, EvictExact DEF Sampled

\* Only record(), error_rate() and close() write the window.
LEMMA WindowStep == ASSUME Inv, Next PROVE window' \in Windows /\ Exact(window')
<1>. USE DEF shared
<1>1. window \in Windows /\ Exact(window) /\ clock \in Times
  BY ExactIs DEF Inv, TypeOK, Windows
<1>2. CASE ErrorRate
  BY <1>1, <1>2, EvictExact DEF ErrorRate
<1>3. ASSUME NEW t \in Threads, RecordClosed(t) \/ RecordOpen(t) PROVE window' \in Windows /\ Exact(window')
  BY <1>3, SampledExact DEF RecordClosed, RecordOpen
<1>4. ASSUME NEW t \in Threads, CloseWindow(t) PROVE window' \in Windows /\ Exact(window')
  BY <1>4, EmptyExact DEF CloseWindow
<1>5. CASE Tick
  BY <1>1, <1>5 DEF Tick
<1>6. ASSUME NEW t \in Threads, Check(t) \/ Finish(t) \/ Continue(t),
             ~(RecordClosed(t) \/ RecordOpen(t) \/ CloseWindow(t))
      PROVE  window' = window
  BY <1>6 DEF Check, Finish, Abandon, Record, Continue, LoadOpened, CheckElapsed, CasState,
     LostCas, ClearMirror, ProbeNow, ProbeAdd, ProbeStore, ProbeSub, ProbeLoad, ProbeCas,
     RecordLoad, TripState, TripNow, TripOpened, TripProbes, TripMirror, CloseState,
     CloseProbes, CloseMirror
<1>. QED
  BY <1>1, <1>2, <1>3, <1>4, <1>5, <1>6 DEF Next

\* The counter of probes wraps like an unsigned integer.
LEMMA Wrap ==
    ASSUME NEW x \in 0 .. CounterMod - 1
    PROVE  /\ (x + 1) % CounterMod = IF x + 1 = CounterMod THEN 0 ELSE x + 1
           /\ (x + CounterMod - 1) % CounterMod = IF x = 0 THEN CounterMod - 1 ELSE x - 1
<1>1. CounterMod \in Nat /\ CounterMod > 0 /\ x \in Nat /\ x < CounterMod
  BY BreakerAssumption
<1>2. ASSUME NEW a \in Nat, a < CounterMod PROVE a % CounterMod = a /\ (a + CounterMod) % CounterMod = a
  BY <1>1, <1>2
<1>3. CASE x + 1 = CounterMod
  <2>1. x + 1 = 0 + CounterMod
    BY <1>1, <1>3
  <2>2. (0 + CounterMod) % CounterMod = 0
    BY <1>1, <1>2
  <2>. QED
    BY <1>1, <1>2, <1>3, <2>1, <2>2
<1>. QED
  BY <1>1, <1>2, <1>3

\* Every step keeps the types.
LEMMA TypeStep == ASSUME Inv, Next PROVE TypeOK'
<1>. USE DEF shared
<1>w. window' \in [entries : Seq(Entries), failures : Int]
  BY WindowStep DEF Windows
<1>a. 0 \in Times /\ MaxClock \in Nat /\ 0 \in 0 .. CounterMod - 1
  BY BreakerAssumption DEF Times
<1>b. NoLocals \in [now : Times, opened : Times, claimed : Times, failed : BOOLEAN]
  BY <1>a DEF NoLocals
<1>1. CASE Tick
  BY <1>1, <1>w, <1>a DEF Inv, TypeOK, Steps, States, Times, NoClaim, Tick
<1>2. CASE ErrorRate
  BY <1>2, <1>w, <1>a DEF Inv, TypeOK, Steps, States, Times, NoClaim, ErrorRate
<1>3. ASSUME NEW t \in Threads, Check(t) PROVE TypeOK'
  BY <1>3, <1>w, <1>a DEF Inv, TypeOK, Steps, States, Times, NoClaim, Check, At, Dispatch, Goto
<1>4. ASSUME NEW t \in Threads, Abandon(t) PROVE TypeOK'
  BY <1>4, <1>w, <1>a DEF Inv, TypeOK, Steps, States, Times, NoClaim, Abandon, At, Goto
<1>5. ASSUME NEW t \in Threads, NEW failed \in BOOLEAN, Record(t, failed) PROVE TypeOK'
  <2>1. \/ loc' = [loc EXCEPT ![t].now = clock, ![t].failed = failed] /\ pc' = [pc EXCEPT ![t] = "record_load"]
        \/ loc' = [loc EXCEPT ![t] = NoLocals] /\ pc' = [pc EXCEPT ![t] = "idle"]
    BY <1>5 DEF Record, Return, Goto
  <2>2. claimAt' = [claimAt EXCEPT ![t] = NoClaim] /\ UNCHANGED <<clock, shared>>
    BY <1>5 DEF Record
  <2>3. loc' \in [Threads -> [now : Times, opened : Times, claimed : Times, failed : BOOLEAN]]
    BY <1>b, <2>1 DEF Inv, TypeOK
  <2>4. pc' \in [Threads -> Steps] /\ probe_claimed_at' \in Times
    BY <2>1, <2>2 DEF Inv, TypeOK, Steps
  <2>5. claimAt' \in [Threads -> Times \cup {NoClaim}]
    BY <2>1, <2>2 DEF Inv, TypeOK
  <2>. QED
    BY <1>w, <2>2, <2>3, <2>4, <2>5 DEF Inv, TypeOK
<1>6. ASSUME NEW t \in Threads, LoadOpened(t) PROVE TypeOK'
  BY <1>6, <1>w, <1>a DEF Inv, TypeOK, Steps, States, Times, NoClaim, LoadOpened, At, Goto
<1>7. ASSUME NEW t \in Threads, CheckElapsed(t) PROVE TypeOK'
  BY <1>7, <1>w, <1>a DEF Inv, TypeOK, Steps, States, Times, NoClaim, CheckElapsed, At, Return,
     Goto, NoLocals
<1>8. ASSUME NEW t \in Threads, CasState(t) PROVE TypeOK'
  BY <1>8, <1>w, <1>a DEF Inv, TypeOK, Steps, States, Times, NoClaim, CasState, At, Goto
<1>9. ASSUME NEW t \in Threads, LostCas(t) PROVE TypeOK'
  BY <1>9, <1>w, <1>a DEF Inv, TypeOK, Steps, States, Times, NoClaim, LostCas, At, Dispatch, Goto
<1>10. ASSUME NEW t \in Threads, ClearMirror(t) PROVE TypeOK'
  BY <1>10, <1>w, <1>a DEF Inv, TypeOK, Steps, States, Times, NoClaim, ClearMirror, At, Goto
<1>11. ASSUME NEW t \in Threads, ProbeNow(t) PROVE TypeOK'
  BY <1>11, <1>w, <1>a DEF Inv, TypeOK, Steps, States, Times, NoClaim, ProbeNow, At, Goto
<1>12. ASSUME NEW t \in Threads, ProbeAdd(t) PROVE TypeOK'
  <2>1. half_open_probes' \in 0 .. CounterMod - 1
    BY <1>12, Wrap, BreakerAssumption DEF Inv, TypeOK, ProbeAdd
  <2>2. claimAt' \in [Threads -> Times \cup {NoClaim}]
    BY <1>12 DEF Inv, TypeOK, ProbeAdd, Claim
  <2>3. pc' \in [Threads -> Steps]
    BY <1>12 DEF Inv, TypeOK, Steps, ProbeAdd, Goto
  <2>. QED
    BY <1>12, <2>1, <2>2, <2>3, <1>w DEF Inv, TypeOK, ProbeAdd
<1>13. ASSUME NEW t \in Threads, ProbeStore(t) PROVE TypeOK'
  BY <1>13, <1>w, <1>a DEF Inv, TypeOK, Steps, States, Times, NoClaim, ProbeStore, At,
     Return, Goto, NoLocals
<1>14. ASSUME NEW t \in Threads, ProbeSub(t) PROVE TypeOK'
  <2>1. half_open_probes' \in 0 .. CounterMod - 1
    BY <1>14, Wrap, BreakerAssumption DEF Inv, TypeOK, ProbeSub
  <2>. QED
    BY <1>14, <2>1, <1>w DEF Inv, TypeOK, Steps, ProbeSub, Goto
<1>15. ASSUME NEW t \in Threads, ProbeLoad(t) PROVE TypeOK'
  <2>1. \/ loc' = [loc EXCEPT ![t].claimed = probe_claimed_at] /\ pc' = [pc EXCEPT ![t] = "probe_cas"]
        \/ loc' = [loc EXCEPT ![t] = NoLocals] /\ pc' = [pc EXCEPT ![t] = "idle"]
    BY <1>15 DEF ProbeLoad, Return, Goto
  <2>2. UNCHANGED <<clock, shared, claimAt>>
    BY <1>15 DEF ProbeLoad
  <2>3. loc' \in [Threads -> [now : Times, opened : Times, claimed : Times, failed : BOOLEAN]]
    BY SMTT(30), <1>b, <2>1 DEF Inv, TypeOK
  <2>4. pc' \in [Threads -> Steps] /\ probe_claimed_at' \in Times
    BY <2>1, <2>2 DEF Inv, TypeOK, Steps
  <2>5. claimAt' \in [Threads -> Times \cup {NoClaim}]
    BY <2>1, <2>2 DEF Inv, TypeOK
  <2>. QED
    BY <1>w, <2>2, <2>3, <2>4, <2>5 DEF Inv, TypeOK
<1>16. ASSUME NEW t \in Threads, ProbeCas(t) PROVE TypeOK'
  <2>1. /\ loc' = [loc EXCEPT ![t] = NoLocals] /\ \E s \in {"running", "idle"} : pc' = [pc EXCEPT ![t] = s]
        /\ probe_claimed_at' \in {probe_claimed_at, loc[t].now}
        /\ claimAt' = claimAt \/ claimAt' = [claimAt EXCEPT ![t] = loc[t].now]
    BY <1>16 DEF ProbeCas, Claim, Return, Goto
  <2>2. UNCHANGED <<clock, state, opened_at, half_open_probes, is_open_fast, window>>
    BY <1>16 DEF ProbeCas
  <2>3. loc' \in [Threads -> [now : Times, opened : Times, claimed : Times, failed : BOOLEAN]]
    BY <1>b, <2>1 DEF Inv, TypeOK
  <2>4. pc' \in [Threads -> Steps] /\ probe_claimed_at' \in Times
    BY <2>1, <2>2 DEF Inv, TypeOK, Steps
  <2>5. claimAt' \in [Threads -> Times \cup {NoClaim}]
    BY <2>1, <2>2 DEF Inv, TypeOK
  <2>. QED
    BY <1>w, <2>2, <2>3, <2>4, <2>5 DEF Inv, TypeOK
<1>17. ASSUME NEW t \in Threads, RecordLoad(t) PROVE TypeOK'
  BY <1>17, <1>w, <1>a DEF Inv, TypeOK, Steps, States, Times, NoClaim, RecordLoad, At, Goto
<1>18. ASSUME NEW t \in Threads, RecordClosed(t) PROVE TypeOK'
  BY <1>18, <1>w, <1>a DEF Inv, TypeOK, Steps, States, Times, NoClaim, RecordClosed, At,
     Return, Goto, NoLocals
<1>19. ASSUME NEW t \in Threads, RecordOpen(t) PROVE TypeOK'
  BY <1>19, <1>w, <1>a DEF Inv, TypeOK, Steps, States, Times, NoClaim, RecordOpen, At, Return,
     Goto, NoLocals
<1>20. ASSUME NEW t \in Threads, TripState(t) PROVE TypeOK'
  BY <1>20, <1>w, <1>a DEF Inv, TypeOK, Steps, States, Times, NoClaim, TripState, At, Return,
     Goto, NoLocals
<1>21. ASSUME NEW t \in Threads, TripNow(t) PROVE TypeOK'
  BY <1>21, <1>w, <1>a DEF Inv, TypeOK, Steps, States, Times, NoClaim, TripNow, At, Goto
<1>22. ASSUME NEW t \in Threads, TripOpened(t) PROVE TypeOK'
  BY <1>22, <1>w, <1>a DEF Inv, TypeOK, Steps, States, Times, NoClaim, TripOpened, At, Return,
     Goto, NoLocals
<1>23. ASSUME NEW t \in Threads, TripProbes(t) PROVE TypeOK'
  BY <1>23, <1>w, <1>a DEF Inv, TypeOK, Steps, States, Times, NoClaim, TripProbes, At, Goto
<1>24. ASSUME NEW t \in Threads, TripMirror(t) PROVE TypeOK'
  BY <1>24, <1>w, <1>a DEF Inv, TypeOK, Steps, States, Times, NoClaim, TripMirror, At, Goto
<1>25. ASSUME NEW t \in Threads, CloseState(t) PROVE TypeOK'
  BY <1>25, <1>w, <1>a DEF Inv, TypeOK, Steps, States, Times, NoClaim, CloseState, At, Return,
     Goto, NoLocals
<1>26. ASSUME NEW t \in Threads, CloseWindow(t) PROVE TypeOK'
  BY <1>26, <1>w, <1>a DEF Inv, TypeOK, Steps, States, Times, NoClaim, CloseWindow, At, Goto
<1>27. ASSUME NEW t \in Threads, CloseProbes(t) PROVE TypeOK'
  BY <1>27, <1>w, <1>a DEF Inv, TypeOK, Steps, States, Times, NoClaim, CloseProbes, At, Goto
<1>28. ASSUME NEW t \in Threads, CloseMirror(t) PROVE TypeOK'
  BY <1>28, <1>w, <1>a DEF Inv, TypeOK, Steps, States, Times, NoClaim, CloseMirror, At, Goto
<1>. QED
  BY <1>1, <1>2, <1>3, <1>4, <1>5, <1>6, <1>7, <1>8, <1>9, <1>10, <1>11, <1>12, <1>13, <1>14,
     <1>15, <1>16, <1>17, <1>18, <1>19, <1>20, <1>21, <1>22, <1>23, <1>24, <1>25, <1>26, <1>27,
     <1>28 DEF Next, Finish, Continue

\* The count stays exact.
LEMMA ExactStep == ASSUME Inv, Next PROVE FailureCountExact'
BY WindowStep DEF FailureCountExact, Exact, FailedUpTo

----------------------------------------------------------------------------
(* Theorems *)

\* A new breaker is closed, and nobody calls it.
LEMMA InvInit == Init => Inv
<1>. SUFFICES ASSUME Init PROVE Inv
  OBVIOUS
<1>1. NoLocals \in [now : Times, opened : Times, claimed : Times, failed : BOOLEAN] /\ NoLocals.now = 0
  BY BreakerAssumption DEF NoLocals, Times
<1>2. TypeOK
  <2>1. window \in [entries : Seq(Entries), failures : Int]
    BY EmptyExact DEF Init, Windows
  <2>2. pc \in [Threads -> Steps] /\ claimAt \in [Threads -> Times \cup {NoClaim}]
    BY DEF Init, Steps
  <2>3. 0 \in Times /\ 0 \in 0 .. CounterMod - 1
    BY BreakerAssumption DEF Times
  <2>4. loc \in [Threads -> [now : Times, opened : Times, claimed : Times, failed : BOOLEAN]]
    BY <1>1 DEF Init
  <2>. QED
    BY <2>1, <2>2, <2>3, <2>4 DEF Init, TypeOK, States
<1>3. FailureCountExact
  BY EmptyExact, ExactIs DEF Init
<1>. QED
  BY <1>2, <1>3 DEF Inv

\* Every step keeps the invariant.
LEMMA InvStep == Inv /\ [Next]_vars => Inv'
<1>1. ASSUME Inv, Next PROVE Inv'
  BY <1>1, TypeStep, ExactStep DEF Inv
<1>2. ASSUME Inv, UNCHANGED vars PROVE Inv'
  BY <1>2 DEF vars, shared, Inv, TypeOK, FailureCountExact
<1>. QED
  BY <1>1, <1>2

\* The inductive invariant holds throughout.
LEMMA InvHolds == Spec => []Inv
BY InvInit, InvStep, PTL DEF Spec

\* The atomics, the window and the locals of every call keep their types: above all, the
\* unsigned counter of probes stays in its range although fetch_sub may come first.
THEOREM TypeCorrect == Spec => []TypeOK
<1>1. Inv => TypeOK
  BY DEF Inv
<1>. QED
  BY <1>1, InvHolds, PTL

\* The failure count that the window keeps is the number of failed samples it holds: for
\* any number of racing callers, any cap and any order of timestamps.
THEOREM CountExact == Spec => []FailureCountExact
<1>1. Inv => FailureCountExact
  BY DEF Inv
<1>. QED
  BY <1>1, InvHolds, PTL

=============================================================================
