------------------------ MODULE ActiveMessagesProofs ------------------------
(***************************************************************************)
(* The lease protocol implements MessageVerdict, for any set of messages   *)
(* and children and any capacities.  The argument is about one message at  *)
(* a time: the lease says who may still decide.  Counters, permits and the *)
(* children's lifecycles play no part in it.  They are what the other two  *)
(* invariants are about: which children are clean, and which budgets hold. *)
(***************************************************************************)
EXTENDS ActiveMessages, FiniteSetTheorems, TLAPS

\* The messages' variables hold values of their types.
MessageTypes ==
    /\ stage \in [Msgs -> Stages] /\ lease \in [Msgs -> Leases] /\ outcome \in [Msgs -> Outcomes]
    /\ host \in [Msgs -> Answers \cup {"none", "handling", "inserting", "inserted", "committed"}]
    /\ inserted \subseteq Msgs

\* A completion that is being handled is that of a message in flight.
PolledInFlight ==
    poll # Idle => poll \in [msg : Msgs, why : Whys] /\ stage[poll.msg] = "flight"

\* How far the coordinator has come with m: no lease before the admission, one in flight,
\* an outcome when it is done and not before.
StageFits(m) ==
    /\ stage[m] \in {"unsent", "ingress", "parked"} => lease[m] = "none"
    /\ stage[m] = "flight" => lease[m] # "none"
    /\ stage[m] = "done" <=> outcome[m] # "none"

\* How far the child's session has come with m, by its lease.
LeaseFits(m) ==
    /\ lease[m] = "none" <=> host[m] = "none"
    /\ lease[m] \in {"none", "Open", "Revoked"} => m \notin inserted
    /\ lease[m] = "Committed" => m \in inserted
    /\ host[m] = "inserting" => lease[m] = "Claimed" /\ m \notin inserted
    /\ host[m] = "inserted" => lease[m] = "Claimed" /\ m \in inserted
    /\ host[m] \in {"committed", "Admitted"} => lease[m] = "Committed"

\* The outcome told to the sender is one the lease can no longer contradict.
OutcomeFits(m) ==
    /\ outcome[m] = "Accepted" => lease[m] = "Committed"
    /\ outcome[m] \notin {"none", "Accepted", "AdmissionUncertain"} => lease[m] \in {"none", "Revoked"}

LeaseInv ==
    /\ MessageTypes /\ PolledInFlight
    /\ \A m \in Msgs : StageFits(m) /\ LeaseFits(m) /\ OutcomeFits(m)

\* No sender is told twice.
ToldOnce == \A m \in Msgs : outcome[m] # "none" => outcome'[m] = outcome[m]

\* Initially no message has a lease, an outcome or a session that handles it.
LEMMA InitLease == Init => LeaseInv
  BY DEF Init, LeaseInv, MessageTypes, PolledInFlight, StageFits, LeaseFits, OutcomeFits,
         Stages, Leases, Outcomes

\* Every step of senders, coordinator, workers and sessions keeps the invariant and
\* answers nobody twice.
LEMMA StepLease ==
  ASSUME LeaseInv, [Next]_vars
  PROVE  LeaseInv' /\ ToldOnce
<1> USE DEF Stages, Leases, Outcomes, Answers, Whys
<1> DEFINE Goal == LeaseInv' /\ ToldOnce
<1>1. ASSUME UNCHANGED <<stage, lease, outcome, host, inserted>>, PolledInFlight'
      PROVE  Goal
  BY <1>1 DEF LeaseInv, MessageTypes, StageFits, LeaseFits, OutcomeFits, ToldOnce
<1>2. ASSUME NEW m \in Msgs, Send(m) PROVE Goal
  BY <1>2 DEF Send, Reply, Leave, session, children, LeaseInv, MessageTypes, PolledInFlight,
     StageFits, LeaseFits, OutcomeFits, ToldOnce, At
<1>3. ASSUME NEW m \in Msgs, Poll(m) PROVE Goal
  BY <1>3, <1>1 DEF Poll, Actor, Idle, LeaseInv, MessageTypes, PolledInFlight, messages, session
<1>4. ASSUME NEW m \in Msgs, Host(m) PROVE Goal
  <2>1. poll' = poll /\ stage' = stage /\ outcome' = outcome
    BY <1>4 DEF Host, HostRefuses, HostClaims, HostInserts, HostCommits, HostAnswers,
       HostPanics, messages
  <2>2. PolledInFlight' /\ ToldOnce
    BY <2>1 DEF PolledInFlight, LeaseInv, ToldOnce
  <2>3. CASE \E answer \in Answers \ {"Admitted"} : HostRefuses(m, answer)
    BY <2>2, <2>3 DEF HostRefuses, messages, LeaseInv, MessageTypes, StageFits, LeaseFits, OutcomeFits
  <2>4. CASE HostClaims(m)
    BY <2>2, <2>4 DEF HostClaims, LeaseInv, MessageTypes, StageFits, LeaseFits, OutcomeFits
  <2>5. CASE HostInserts(m)
    BY <2>2, <2>5 DEF HostInserts, messages, LeaseInv, MessageTypes, StageFits, LeaseFits, OutcomeFits
  <2>6. CASE HostCommits(m)
    BY <2>2, <2>6 DEF HostCommits, LeaseInv, MessageTypes, StageFits, LeaseFits, OutcomeFits
  <2>7. CASE HostAnswers(m)
    BY <2>2, <2>7 DEF HostAnswers, messages, LeaseInv, MessageTypes, StageFits, LeaseFits, OutcomeFits
  <2>8. CASE HostPanics(m)
    BY <2>2, <2>8 DEF HostPanics, messages, LeaseInv, MessageTypes, StageFits, LeaseFits, OutcomeFits
  <2> QED BY <1>4, <2>3, <2>4, <2>5, <2>6, <2>7, <2>8 DEF Host
<1>5. ASSUME HandleSend PROVE Goal
  <2>1. PICK m \in Msgs : /\ stage[m] = "ingress"
                          /\ AdmitActive(m) \/ Park(m) \/ TurnAway(m)
    BY <1>5 DEF HandleSend, At
  <2>2. poll = Idle /\ poll' = Idle /\ inserted' = inserted
    BY <1>5 DEF HandleSend, Actor
  <2> USE DEF Reply, Leave, Open, LeaseInv, MessageTypes, PolledInFlight, StageFits,
              LeaseFits, OutcomeFits, ToldOnce
  <2>3. CASE AdmitActive(m) BY <2>1, <2>2, <2>3 DEF AdmitActive, Refusal
  <2>4. CASE Park(m) BY <2>1, <2>2, <2>4 DEF Park
  <2>5. CASE TurnAway(m) BY <2>1, <2>2, <2>5 DEF TurnAway
  <2> QED BY <2>1, <2>3, <2>4, <2>5
<1>6. ASSUME NEW S \in SUBSET At("parked"), NEW o \in Outcomes \ {"none", "Accepted"},
             Reply(S, o), poll = Idle, poll' = Idle, UNCHANGED <<lease, host, inserted>>
      PROVE  Goal
  BY <1>6 DEF At, Reply, LeaseInv, MessageTypes, PolledInFlight, StageFits, LeaseFits,
     OutcomeFits, ToldOnce
<1>7. ASSUME NEW k \in Kids, RejectParked(k), poll = Idle, poll' = Idle,
             UNCHANGED <<lease, host, inserted>>
      PROVE  Goal
  BY <1>6, <1>7 DEF RejectParked, ParkedFor
<1>8. ASSUME Expire PROVE Goal
  BY <1>6, <1>8 DEF Expire, Actor, children, session
<1>9. ASSUME NEW k \in Kids, Started(k) PROVE Goal
  <2>1. poll = Idle /\ poll' = Idle /\ inserted' = inserted
    BY <1>9 DEF Started, Actor
  <2>2. CASE k \in cancelled
    BY <1>7, <1>9, <2>1, <2>2 DEF Started
  <2>3. CASE k \notin cancelled
    <3> DEFINE admitted == Winners(k)
               saturated == ParkedFor(k) \ admitted
    <3>1. \A m \in Msgs : m \in admitted \/ m \in saturated => stage[m] = "parked"
      BY DEF Winners, ParkedFor, At
    <3>2. /\ Open(admitted)
          /\ outcome' = [m \in Msgs |-> IF m \in saturated THEN "Saturated" ELSE outcome[m]]
          /\ stage' = [m \in Msgs |-> IF m \in saturated THEN "done"
                                      ELSE IF m \in admitted THEN "flight" ELSE stage[m]]
      BY <1>9, <2>3 DEF Started
    <3>3. \A m \in Msgs : m \in admitted => m \notin saturated
      OBVIOUS
    <3> HIDE DEF admitted, saturated
    <3> QED BY <2>1, <3>1, <3>2, <3>3 DEF Open, LeaseInv, MessageTypes, PolledInFlight,
               StageFits, LeaseFits, OutcomeFits, ToldOnce
  <2> QED BY <2>2, <2>3
<1>10. ASSUME NEW k \in Kids, Cancel(k) PROVE Goal
  <2>1. CASE kid[k] = "spawning"
    BY <1>7, <1>10, <2>1 DEF Cancel, Actor, session
  <2>2. CASE kid[k] # "spawning"
    BY <1>1, <1>10, <2>2 DEF Cancel, Actor, session, PolledInFlight
  <2> QED BY <2>1, <2>2
<1>11. ASSUME FinishActiveMessage PROVE Goal
  <2> DEFINE m == poll.msg
             settled == Settled(m, poll.why)
  <2>1. m \in Msgs /\ poll.why \in Whys /\ stage[m] = "flight" /\ poll' = Idle
    BY <1>11 DEF FinishActiveMessage, LeaseInv, PolledInFlight
  <2>2. /\ Reply({m}, OutcomeOf(poll.why, settled))
        /\ Revoke({m})
        /\ UNCHANGED <<host, inserted>>
    BY <1>11 DEF FinishActiveMessage, session
  <2>3. OutcomeOf(poll.why, settled) \in Outcomes \ {"none"}
    BY <2>1 DEF OutcomeOf
  <2>4. /\ OutcomeOf(poll.why, settled) = "Accepted" => lease[m] = "Committed"
        /\ OutcomeOf(poll.why, settled) \notin {"Accepted", "AdmissionUncertain"}
              => lease[m] \in {"Open", "Revoked"}
    BY <2>1 DEF OutcomeOf, Settled
  <2> HIDE DEF m, settled
  <2> QED BY <2>1, <2>2, <2>3, <2>4 DEF Reply, Revoke, LeaseInv, MessageTypes,
             PolledInFlight, StageFits, LeaseFits, OutcomeFits, ToldOnce
<1>12. ASSUME NEW k \in Kids, RunEnds(k) PROVE Goal
  <2>1. CASE in_flight[k] > 0
    BY <1>1, <1>12, <2>1 DEF RunEnds, Actor, session, PolledInFlight
  <2>2. CASE ~(in_flight[k] > 0)
    BY <1>7, <1>12, <2>2 DEF RunEnds, Actor, session
  <2> QED BY <2>1, <2>2
<1>13. ASSUME Shutdown PROVE Goal
  BY <1>13 DEF Shutdown, Actor, Revoke, At, session, LeaseInv, MessageTypes, PolledInFlight,
     StageFits, LeaseFits, OutcomeFits, ToldOnce
<1>14. ASSUME NEW k \in Kids, Spawn(k) \/ TokenCancelled(k) \/ AskFinalizing(k)
                  \/ HandleFinalizing(k) \/ FinalizingTimesOut(k)
       PROVE  Goal
  BY <1>1, <1>14 DEF Spawn, TokenCancelled, AskFinalizing, HandleFinalizing,
     FinalizingTimesOut, messages, session, LeaseInv, PolledInFlight
<1>15. CASE UNCHANGED vars
  BY <1>1, <1>15 DEF vars, messages, session, LeaseInv, PolledInFlight
<1> QED BY <1>2, <1>3, <1>4, <1>5, <1>8, <1>9, <1>10, <1>11, <1>12, <1>13, <1>14, <1>15 DEF Next

\* Every reachable state satisfies the lease invariant.
THEOREM LeasesDecide == Spec => []LeaseInv
<1>1. LeaseInv /\ [Next]_vars => LeaseInv'
  BY StepLease
<1> QED BY InitLease, <1>1, PTL DEF Spec

\* A step that inserts nothing and tells no sender twice is a step of the abstract
\* specification, because the outcomes fit the leases after it.
LEMMA AnswersMap ==
  ASSUME LeaseInv, LeaseInv', ToldOnce, inserted' = inserted
  PROVE  Abstract!Resolve
<1>1. verdict' \in [Msgs -> Abstract!Verdicts]
  BY DEF verdict, Abstract!Verdicts
<1>2. ASSUME NEW m \in Msgs, verdict'[m] # verdict[m]
      PROVE  /\ verdict[m] = "none"
             /\ verdict'[m] = "accepted" => m \in inserted
             /\ verdict'[m] = "rejected" => m \notin inserted
  <2>1. outcome[m] = "none"
    BY <1>2 DEF verdict, ToldOnce
  <2>2. verdict'[m] = "accepted" => outcome'[m] = "Accepted"
    BY DEF verdict
  <2>3. verdict'[m] = "rejected" => outcome'[m] \notin {"none", "Accepted", "AdmissionUncertain"}
    BY DEF verdict
  <2>4. verdict[m] = "none"
    BY <2>1 DEF verdict
  <2> QED BY <2>2, <2>3, <2>4 DEF LeaseInv, LeaseFits, OutcomeFits
<1> QED BY <1>1, <1>2 DEF Abstract!Resolve

\* The session's insertion is the abstract one: the lease it claimed is one no refusal
\* has been told for.
LEMMA InsertMaps ==
  ASSUME LeaseInv, NEW m \in Msgs, HostInserts(m)
  PROVE  Abstract!Insert(m)
<1>1. outcome[m] \in {"none", "AdmissionUncertain"} /\ m \notin inserted
  BY DEF HostInserts, LeaseInv, LeaseFits, OutcomeFits
<1>2. verdict[m] \in {"none", "uncertain"}
  BY <1>1 DEF verdict
<1>3. outcome' = outcome /\ inserted' = inserted \cup {m}
  BY DEF HostInserts, messages
<1>4. verdict' = verdict
  BY <1>3 DEF verdict
<1> QED BY <1>1, <1>2, <1>3, <1>4 DEF Abstract!Insert

\* For any messages, children and capacities the protocol implements MessageVerdict: an
\* accepted message was inserted and a refused one never will be, however the sender's
\* deadline, the child's cancellation, its terminalization, a shutdown of the coordinator
\* and a late or panicking session interleave.
THEOREM PromiseKept == Spec => KeepsPromise
<1>1. Init => Abstract!Init
  BY DEF Init, verdict, Abstract!Init
<1>2. ASSUME LeaseInv, LeaseInv', [Next]_vars
      PROVE  [Abstract!Next]_(Abstract!vars)
  <2>1. ToldOnce
    BY <1>2, StepLease
  <2>2. CASE inserted' = inserted
    BY <1>2, <2>1, <2>2, AnswersMap DEF Abstract!Next
  <2>3. CASE inserted' # inserted
    <3>1. PICK m \in Msgs : HostInserts(m)
      BY <1>2, <2>3 DEF Next, vars, session, children, Send, Poll, Host, HostRefuses, HostClaims,
         HostCommits, HostAnswers, HostPanics, HandleSend, Expire, FinishActiveMessage, Shutdown,
         Spawn, Started, Cancel, TokenCancelled, AskFinalizing, HandleFinalizing,
         FinalizingTimesOut, RunEnds
    <3> QED BY <1>2, <3>1, InsertMaps DEF Abstract!Next
  <2> QED BY <2>2, <2>3
<1> QED BY <1>1, <1>2, LeasesDecide, PTL DEF Spec, KeepsPromise, Abstract!Spec

(***************************************************************************)
(* Clean children are quiet.  Here the counters matter: a child is told    *)
(* "clean" when in_flight reaches 0, so in_flight must be the number of    *)
(* messages in flight, and every lease left undecided behind it must have  *)
(* been recorded as a doubt.                                               *)
(***************************************************************************)
Flying(k) == For(k) \cap At("flight")

ChildTypes ==
    /\ kid \in [Kids -> {"absent", "spawning", "active", "completed"}]
    /\ result \in [Kids -> {"none", "clean", "uncertain"}]
    /\ worker \in [Kids -> {"none", "running", "waiting", "clean", "unclean", "ended"}]
    /\ in_flight \in [Kids -> Nat]

Counted == \A k \in Kids : in_flight[k] = Cardinality(Flying(k))

\* The coordinator is done with m, but its session may commit it or has.
Doubtful(m) ==
    \/ stage[m] = "done" /\ lease[m] \in {"Open", "Claimed"}
    \/ outcome[m] = "AdmissionUncertain"

\* A doubt is on record with the child, unless the coordinator is gone; then the child
\* was not finished as clean.
DoubtRecorded ==
    \A m \in Msgs : Doubtful(m) =>
        To[m] \in uncertain \/ (~up /\ result[To[m]] # "clean")

\* A child that was called clean takes no further messages and has no doubt on record.
CleanIsClosed ==
    \A k \in Kids :
        /\ worker[k] = "clean" => /\ up /\ k \in finalizing
                                  /\ in_flight[k] = 0 /\ k \notin uncertain
        /\ result[k] = "clean" => /\ up => kid[k] = "completed"
                                  /\ in_flight[k] = 0 /\ k \notin uncertain

CleanInv == LeaseInv /\ ChildTypes /\ NoneLeftBehind /\ Counted /\ DoubtRecorded /\ CleanIsClosed

\* The messages in flight to a child can be counted.
LEMMA FlyingFinite ==
  ASSUME NEW k \in Kids
  PROVE  IsFiniteSet(Flying(k)) /\ IsFiniteSet(Flying(k)')
  BY FS_Subset, ActiveMessagesAssumption, Zenon DEF Flying, For, At

\* A child whose counter is 0 has no message in flight, and if it has no doubt on record
\* its sessions hold no lease they could commit.
LEMMA QuietChild ==
  ASSUME CleanInv, NEW k \in Kids, in_flight[k] = 0, k \notin uncertain,
         up \/ result[k] = "clean", NEW m \in For(k)
  PROVE  /\ stage[m] # "flight"
         /\ lease[m] \notin {"Open", "Claimed"}
         /\ outcome[m] # "AdmissionUncertain"
<1>1. Flying(k) = {}
  BY FlyingFinite, FS_EmptySet DEF CleanInv, Counted
<1>2. m \in Msgs /\ To[m] = k /\ stage[m] # "flight"
  BY <1>1 DEF Flying, For, At
<1>3. ~Doubtful(m)
  BY <1>2 DEF CleanInv, DoubtRecorded
<1> QED BY <1>2, <1>3 DEF Doubtful, CleanInv, LeaseInv, MessageTypes, StageFits, Stages

\* Nothing is in flight, on record or called clean at the start.
LEMMA InitClean == Init => CleanInv
<1> SUFFICES ASSUME Init PROVE CleanInv OBVIOUS
<1>1. Counted
  <2> SUFFICES ASSUME NEW k \in Kids PROVE in_flight[k] = Cardinality(Flying(k)) BY DEF Counted
  <2>1. Flying(k) = {} BY DEF Init, Flying, At
  <2> QED BY <2>1, FS_EmptySet DEF Init
<1>2. ChildTypes /\ NoneLeftBehind /\ DoubtRecorded /\ CleanIsClosed
  BY ActiveMessagesAssumption DEF Init, ChildTypes, NoneLeftBehind, At, DoubtRecorded, Doubtful, CleanIsClosed
<1> QED BY <1>1, <1>2, InitLease DEF CleanInv

\* A child none of whose messages enters or leaves flight keeps its count.
LEMMA CountSame ==
  ASSUME NEW k \in Kids, Counted, in_flight'[k] = in_flight[k],
         \A m \in For(k) : stage'[m] = "flight" <=> stage[m] = "flight"
  PROVE  in_flight'[k] = Cardinality(Flying(k)')
<1>1. Flying(k)' = Flying(k) BY DEF Flying, For, At
<1> QED BY <1>1 DEF Counted

\* A message taken into flight raises its child's counter and no other.
LEMMA CountMore ==
  ASSUME NEW m \in Msgs, Counted, ChildTypes, stage[m] # "flight",
         in_flight' = [in_flight EXCEPT ![To[m]] = @ + 1],
         \A n \in Msgs : stage'[n] = "flight" <=> stage[n] = "flight" \/ n = m
  PROVE  Counted'
<1> SUFFICES ASSUME NEW k \in Kids PROVE in_flight'[k] = Cardinality(Flying(k)') BY DEF Counted
<1>1. CASE k # To[m]
  BY <1>1, CountSame DEF For, ChildTypes
<1>2. CASE k = To[m]
  <2>1. Flying(k)' = Flying(k) \cup {m} /\ m \notin Flying(k)
    BY <1>2 DEF Flying, For, At
  <2>2. Cardinality(Flying(k)') = Cardinality(Flying(k)) + 1
    BY <2>1, FlyingFinite, FS_AddElement
  <2> QED BY <1>2, <2>2 DEF Counted, ChildTypes
<1> QED BY <1>1, <1>2

\* A message that leaves flight lowers its child's counter, which was positive: the
\* checked_sub of finish_admission never fails.
LEMMA CountLess ==
  ASSUME NEW m \in Msgs, Counted, ChildTypes, stage[m] = "flight",
         in_flight' = [in_flight EXCEPT ![To[m]] = @ - 1],
         \A n \in Msgs : stage'[n] = "flight" <=> stage[n] = "flight" /\ n # m
  PROVE  Counted' /\ in_flight[To[m]] > 0
<1>1. To[m] \in Kids BY ActiveMessagesAssumption
<1>2. in_flight[To[m]] > 0
  <2>1. m \in Flying(To[m]) BY DEF Flying, For, At
  <2>2. Cardinality(Flying(To[m])) # 0 BY <1>1, <2>1, FlyingFinite, FS_EmptySet
  <2> QED BY <1>1, <2>2 DEF Counted, ChildTypes
<1>3. ASSUME NEW k \in Kids PROVE in_flight'[k] = Cardinality(Flying(k)')
  <2>1. CASE k # To[m]
    BY <2>1, CountSame DEF For, ChildTypes
  <2>2. CASE k = To[m]
    <3>1. Flying(k)' = Flying(k) \ {m} /\ m \in Flying(k)
      BY <2>2 DEF Flying, For, At
    <3>2. Cardinality(Flying(k)') = Cardinality(Flying(k)) - 1
      BY <3>1, FlyingFinite, FS_RemoveElement
    <3> QED BY <2>2, <3>2 DEF Counted, ChildTypes
  <2> QED BY <2>1, <2>2
<1> QED BY <1>2, <1>3 DEF Counted

\* Every step keeps the counters exact, the doubts on record and the clean children closed.
LEMMA StepClean ==
  ASSUME CleanInv, [Next]_vars
  PROVE  CleanInv'
<1> USE ActiveMessagesAssumption
<1> DEFINE Goal == ChildTypes' /\ NoneLeftBehind' /\ Counted' /\ DoubtRecorded' /\ CleanIsClosed'
<1>0. LeaseInv /\ LeaseInv' /\ ChildTypes /\ NoneLeftBehind /\ Counted /\ DoubtRecorded /\ CleanIsClosed
  BY StepLease DEF CleanInv
<1>1. ASSUME UNCHANGED <<stage, in_flight>> PROVE Counted'
  BY <1>0, <1>1, CountSame DEF Counted
<1>2. ASSUME UNCHANGED <<up, stage, outcome, kid, finalizing, in_flight, uncertain, result, worker>>,
             \A m \in Msgs : lease'[m] \in {"Open", "Claimed"} => lease[m] \in {"Open", "Claimed"}
      PROVE  Goal
  <2>1. DoubtRecorded'
    BY <1>0, <1>2 DEF DoubtRecorded, Doubtful
  <2> QED BY <1>0, <1>1, <1>2, <2>1 DEF ChildTypes, NoneLeftBehind, At, CleanIsClosed
<1>3. ASSUME NEW m \in Msgs, Send(m) PROVE Goal
  <2>1. /\ stage[m] = "unsent" /\ lease[m] = "none" /\ lease' = lease
        /\ \A n \in Msgs \ {m} : stage'[n] = stage[n] /\ outcome'[n] = outcome[n]
        /\ stage'[m] \in {"done", "ingress"}
        /\ outcome'[m] # "AdmissionUncertain" \/ outcome'[m] = outcome[m]
        /\ UNCHANGED <<up, children>>
    BY <1>0, <1>3 DEF Send, Reply, LeaseInv, MessageTypes, StageFits
  <2>2. Counted'
    BY <1>0, <2>1, CountSame DEF Counted, For, children, lifecycle
  <2>3. DoubtRecorded'
    BY <1>0, <2>1 DEF DoubtRecorded, Doubtful, children, lifecycle
  <2> QED BY <1>0, <2>1, <2>2, <2>3 DEF ChildTypes, NoneLeftBehind, At, CleanIsClosed, children, lifecycle
<1>4. ASSUME NEW m \in Msgs, Poll(m) PROVE Goal
  BY <1>2, <1>4 DEF Poll, messages, children, lifecycle
<1>5. ASSUME NEW m \in Msgs, Host(m) PROVE Goal
  <2>1. UNCHANGED <<up, stage, outcome, children>>
    BY <1>5 DEF Host, HostRefuses, HostClaims, HostInserts, HostCommits, HostAnswers, HostPanics, messages
  <2>2. \A n \in Msgs : lease'[n] \in {"Open", "Claimed"} => lease[n] \in {"Open", "Claimed"}
    BY <1>0, <1>5 DEF Host, HostRefuses, HostClaims, HostInserts, HostCommits, HostAnswers,
       HostPanics, messages, LeaseInv, MessageTypes
  <2> QED BY <1>2, <2>1, <2>2 DEF children, lifecycle
<1>6. ASSUME HandleSend PROVE Goal
  <2>1. PICK m \in Msgs :
          /\ stage[m] = "ingress"
          /\ \/ kid[To[m]] = "active" /\ AdmitActive(m)
             \/ kid[To[m]] = "spawning" /\ Park(m)
             \/ TurnAway(m)
    BY <1>6 DEF HandleSend, At
  <2>2. up /\ UNCHANGED <<up, kid, finalizing, uncertain, result, worker>>
    BY <1>6 DEF HandleSend, Actor
  <2>3. lease[m] = "none" /\ outcome[m] = "none"
    BY <1>0, <2>1 DEF LeaseInv, MessageTypes, StageFits
  <2>4. CASE /\ kid[To[m]] = "active" /\ Admissible(To[m]) /\ Open({m})
             /\ in_flight' = [in_flight EXCEPT ![To[m]] = @ + 1]
             /\ stage' = [stage EXCEPT ![m] = "flight"]
             /\ outcome' = outcome
    <3>1. Counted'
      BY <1>0, <2>1, <2>4, CountMore DEF LeaseInv, MessageTypes
    <3>2. DoubtRecorded'
      BY <1>0, <2>2, <2>3, <2>4 DEF DoubtRecorded, Doubtful, Open, LeaseInv, MessageTypes
    <3>3. CleanIsClosed'
      BY <1>0, <2>2, <2>4 DEF CleanIsClosed, Admissible, ChildTypes
    <3> QED BY <1>0, <2>2, <2>4, <3>1, <3>2, <3>3 DEF ChildTypes, NoneLeftBehind, At, LeaseInv, MessageTypes
  <2>5. CASE /\ kid[To[m]] = "spawning" /\ stage' = [stage EXCEPT ![m] = "parked"]
             /\ UNCHANGED <<outcome, lease, in_flight>>
    <3>1. Counted'
      BY <1>0, <2>1, <2>5, CountSame DEF Counted, For, LeaseInv, MessageTypes
    <3> QED BY <1>0, <2>2, <2>5, <3>1 DEF ChildTypes, NoneLeftBehind, At, DoubtRecorded, Doubtful,
               CleanIsClosed, LeaseInv, MessageTypes
  <2>6. CASE \E o \in Outcomes \ {"AdmissionUncertain"} :
               Reply({m}, o) /\ UNCHANGED <<lease, in_flight>>
    <3>1. PICK o \in Outcomes \ {"AdmissionUncertain"} :
               Reply({m}, o) /\ UNCHANGED <<lease, in_flight>>
      BY <2>6
    <3>2. Counted'
      BY <1>0, <2>1, <3>1, CountSame DEF Counted, For, Reply
    <3>3. DoubtRecorded'
      BY <1>0, <2>2, <2>3, <3>1 DEF DoubtRecorded, Doubtful, Reply
    <3> QED BY <1>0, <2>2, <3>1, <3>2, <3>3 DEF ChildTypes, NoneLeftBehind, At, Reply, CleanIsClosed
  <2> QED BY <2>1, <2>4, <2>5, <2>6 DEF AdmitActive, Park, TurnAway, Refusal, Outcomes
\* Refusing parked messages: they have no lease.
<1>7. ASSUME NEW S \in SUBSET At("parked"), NEW o \in Outcomes \ {"AdmissionUncertain"},
             Reply(S, o), up, UNCHANGED <<up, lease, in_flight, uncertain>>
      PROVE  Counted' /\ DoubtRecorded' /\ \A m \in Msgs : stage'[m] \in {stage[m], "done"}
  <2>1. \A m \in Msgs : stage'[m] = "flight" <=> stage[m] = "flight"
    BY <1>7 DEF Reply, At
  <2>2. Counted'
    BY <1>0, <1>7, <2>1, CountSame DEF Counted, For
  <2>3. \A m \in Msgs : Doubtful(m)' => Doubtful(m)
    BY <1>0, <1>7 DEF Doubtful, Reply, At, LeaseInv, StageFits
  <2> QED BY <1>0, <1>7, <2>2, <2>3 DEF DoubtRecorded, Reply
<1>8. ASSUME NEW k \in Kids, RejectParked(k), up, UNCHANGED <<up, lease, in_flight, uncertain>>
      PROVE  /\ Counted' /\ DoubtRecorded'
             /\ \A m \in Msgs : stage'[m] \in {stage[m], "done"}
             /\ \A m \in For(k) : stage'[m] # "parked"
  <2>1. \A m \in For(k) : stage'[m] # "parked"
    BY <1>8 DEF RejectParked, Reply, ParkedFor, At, For
  <2> QED BY <1>7, <1>8, <2>1 DEF RejectParked, ParkedFor, Outcomes
<1>9. ASSUME Expire PROVE Goal
  <2>1. Counted' /\ DoubtRecorded' /\ \A m \in Msgs : stage'[m] \in {stage[m], "done"}
    BY <1>7, <1>9 DEF Expire, Actor, children, lifecycle, Outcomes
  <2> QED BY <1>0, <1>9, <2>1 DEF Expire, children, lifecycle, ChildTypes, NoneLeftBehind, At, CleanIsClosed
<1>10. ASSUME NEW k \in Kids, Started(k) PROVE Goal
  <2>1. /\ up /\ kid[k] = "spawning" /\ worker[k] = "running"
        /\ UNCHANGED <<up, finalizing, uncertain, result, worker>>
    BY <1>10 DEF Started, Actor
  <2>2. CASE k \in cancelled
    <3>1. RejectParked(k) /\ UNCHANGED <<kid, in_flight, lease>>
      BY <1>10, <2>2 DEF Started
    <3>2. Counted' /\ DoubtRecorded' /\ \A m \in Msgs : stage'[m] \in {stage[m], "done"}
      BY <1>8, <2>1, <3>1
    <3> QED BY <1>0, <2>1, <3>1, <3>2 DEF ChildTypes, NoneLeftBehind, At, CleanIsClosed
  <2>3. CASE k \notin cancelled
    <3> DEFINE admitted == Winners(k)
               saturated == ParkedFor(k) \ admitted
    <3>1. /\ admitted \subseteq ParkedFor(k) /\ admitted \cap saturated = {}
          /\ \A m \in ParkedFor(k) : m \in admitted \/ m \in saturated
      BY DEF Winners
    <3>2. /\ kid' = [kid EXCEPT ![k] = "active"]
          /\ in_flight' = [in_flight EXCEPT ![k] = Cardinality(admitted)]
          /\ Open(admitted)
          /\ outcome' = [m \in Msgs |-> IF m \in saturated THEN "Saturated" ELSE outcome[m]]
          /\ stage' = [m \in Msgs |-> IF m \in saturated THEN "done"
                                      ELSE IF m \in admitted THEN "flight" ELSE stage[m]]
      BY <1>10, <2>3 DEF Started
    <3> HIDE DEF admitted, saturated
    <3>3. \A m \in ParkedFor(k) : m \in Msgs /\ To[m] = k /\ stage[m] = "parked" /\ lease[m] = "none"
      BY <1>0 DEF ParkedFor, At, For, LeaseInv, StageFits
    <3>4. Flying(k)' = admitted
      <4>1. \A m \in For(k) : stage[m] # "flight"
        BY <1>0, <2>1 DEF NoneLeftBehind, At, For
      <4> QED BY <3>1, <3>2, <3>3, <4>1 DEF Flying, At, For, saturated
    <3>5. in_flight' \in [Kids -> Nat]
      BY <1>0, <3>2, <3>4, FlyingFinite, FS_CardinalityType DEF ChildTypes
    <3>6. Counted'
      <4> SUFFICES ASSUME NEW j \in Kids PROVE in_flight'[j] = Cardinality(Flying(j)')
        BY DEF Counted
      <4>1. CASE j = k BY <1>0, <3>2, <3>4, <4>1 DEF ChildTypes
      <4>2. CASE j # k
        <5>1. \A m \in For(j) : m \notin ParkedFor(k) BY <4>2 DEF For, ParkedFor
        <5>2. \A m \in For(j) : stage'[m] = stage[m]
          BY <3>1, <3>2, <5>1 DEF For, saturated
        <5> QED BY <1>0, <3>2, <4>2, <5>2, CountSame DEF ChildTypes
      <4> QED BY <4>1, <4>2
    <3>7. DoubtRecorded'
      <4>1. \A m \in Msgs : Doubtful(m)' => Doubtful(m)
        BY <1>0, <3>1, <3>2, <3>3 DEF Doubtful, Open, saturated, LeaseInv, StageFits
      <4> QED BY <1>0, <2>1, <4>1 DEF DoubtRecorded
    <3>8. CleanIsClosed'
      BY <1>0, <2>1, <3>2 DEF CleanIsClosed, ChildTypes
    <3>9. NoneLeftBehind'
      <4>1. \A m \in Msgs : stage'[m] = "flight" => stage[m] = "flight" \/ m \in ParkedFor(k)
        BY <3>1, <3>2
      <4>2. \A m \in Msgs : stage'[m] = "parked" => stage[m] = "parked" /\ m \notin ParkedFor(k)
        BY <3>1, <3>2
      <4> QED BY <1>0, <2>1, <3>2, <3>3, <4>1, <4>2 DEF NoneLeftBehind, At, ParkedFor, For, ChildTypes
    <3> QED BY <1>0, <2>1, <3>2, <3>5, <3>6, <3>7, <3>8, <3>9 DEF ChildTypes
  <2> QED BY <2>2, <2>3
<1>11. ASSUME NEW k \in Kids, Cancel(k) PROVE Goal
  <2>1. up /\ UNCHANGED <<up, lease, kid, lifecycle, worker>>
    BY <1>11 DEF Cancel, Actor
  <2>2. CASE kid[k] = "spawning"
    <3>1. Counted' /\ DoubtRecorded' /\ \A m \in Msgs : stage'[m] \in {stage[m], "done"}
      BY <1>8, <1>11, <2>1, <2>2 DEF Cancel, lifecycle
    <3> QED BY <1>0, <2>1, <3>1 DEF lifecycle, ChildTypes, NoneLeftBehind, At, CleanIsClosed
  <2>3. CASE kid[k] # "spawning"
    BY <1>2, <1>11, <2>1, <2>3 DEF Cancel, lifecycle
  <2> QED BY <2>2, <2>3
<1>12. ASSUME FinishActiveMessage PROVE Goal
  <2> DEFINE m == poll.msg
             k == To[m]
             settled == Settled(m, poll.why)
             unclean == Doubt(k, settled)
             drained == in_flight[k] = 1 /\ k \in finalizing
             finished == drained /\ k \in terminal
  <2>1. m \in Msgs /\ k \in Kids /\ poll.why \in Whys /\ stage[m] = "flight" /\ up /\ up' = up
    BY <1>0, <1>12 DEF FinishActiveMessage, LeaseInv, PolledInFlight
  <2>2. kid[k] = "active"
    BY <1>0, <2>1 DEF NoneLeftBehind, At
  <2>3. /\ Reply({m}, OutcomeOf(poll.why, settled)) /\ Revoke({m})
        /\ uncertain' = unclean
        /\ in_flight' = [in_flight EXCEPT ![k] = @ - 1]
        /\ finalizing' = finalizing
    BY <1>12 DEF FinishActiveMessage
  <2>4. worker' = worker \/ (drained /\ Tell(k, k \notin unclean))
    BY <1>12 DEF FinishActiveMessage
  <2>5. \/ kid' = kid /\ result' = result
        \/ /\ drained
           /\ kid' = [kid EXCEPT ![k] = "completed"]
           /\ result' = [result EXCEPT ![k] = IF k \in unclean THEN "uncertain" ELSE "clean"]
    BY <1>12 DEF FinishActiveMessage
  <2>6. Counted' /\ in_flight[k] > 0
    BY <1>0, <2>1, <2>3, CountLess DEF Reply
  <2>7. unclean = IF settled THEN uncertain ELSE uncertain \cup {k}
    BY DEF Doubt
  <2>8. ~settled => k \in unclean
    BY <2>7
  <2>9. settled => OutcomeOf(poll.why, settled) # "AdmissionUncertain"
    BY <2>1 DEF OutcomeOf, Whys, Answers
  <2>10. settled => lease[m] \in {"Open", "Revoked", "Committed"}
    BY DEF Settled
  <2>11. drained => in_flight'[k] = 0
    BY <1>0, <2>1, <2>3 DEF ChildTypes
  <2> HIDE DEF m, k, settled, unclean, drained
  <2>12. \A n \in Msgs : Doubtful(n)' => Doubtful(n) \/ (n = m /\ ~settled)
    BY <2>1, <2>3, <2>9, <2>10 DEF Doubtful, Reply, Revoke
  <2>13. DoubtRecorded'
    BY <1>0, <2>1, <2>3, <2>7, <2>8, <2>12 DEF DoubtRecorded, k
  <2>14. \A j \in Kids : worker'[j] = "clean" =>
            worker[j] = "clean" \/ (j = k /\ drained /\ k \notin unclean)
    BY <1>0, <2>4 DEF Tell, ChildTypes
  <2>15. \A j \in Kids : result'[j] = "clean" =>
            result[j] = "clean" \/ (j = k /\ drained /\ k \notin unclean /\ kid'[k] = "completed")
    BY <1>0, <2>1, <2>5 DEF ChildTypes
  <2>16. worker[k] # "clean" /\ result[k] # "clean"
    BY <1>0, <2>1, <2>2, <2>6 DEF CleanIsClosed
  <2>17. \A j \in Kids : j # k => in_flight'[j] = in_flight[j] /\ (j \in uncertain' <=> j \in uncertain)
                                   /\ kid'[j] = kid[j]
    BY <1>0, <2>3, <2>5, <2>7 DEF ChildTypes
  <2>18. drained => k \in finalizing'
    BY <2>3 DEF drained
  <2>19. CleanIsClosed'
    BY <1>0, <2>1, <2>3, <2>11, <2>14, <2>15, <2>16, <2>17, <2>18 DEF CleanIsClosed
  <2>20. NoneLeftBehind'
    <3>1. CASE kid' = kid
      BY <1>0, <2>3, <3>1 DEF NoneLeftBehind, At, Reply
    <3>2. CASE drained /\ kid' = [kid EXCEPT ![k] = "completed"]
      <4>1. PICK j \in Kids : j = k
        BY <2>1
      <4>2. Flying(j)' = {}
        BY <2>6, <2>11, <3>2, <4>1, FlyingFinite, FS_EmptySet DEF Counted
      <4>3. \A n \in Msgs : stage'[n] = "flight" => To[n] # k
        BY <4>1, <4>2 DEF Flying, For, At
      <4> QED BY <1>0, <2>2, <2>3, <3>2, <4>3 DEF NoneLeftBehind, At, Reply, ChildTypes
    <3> QED BY <2>5, <3>1, <3>2
  <2>21. ChildTypes'
    <3>1. in_flight' \in [Kids -> Nat]
      BY <1>0, <2>1, <2>3, <2>6 DEF ChildTypes
    <3> QED BY <1>0, <2>4, <2>5, <3>1 DEF ChildTypes, Tell
  <2> QED BY <2>6, <2>13, <2>19, <2>20, <2>21
<1>13. ASSUME NEW k \in Kids, NEW clean \in BOOLEAN, Tell(k, clean),
              UNCHANGED <<up, stage, lease, outcome, kid, in_flight, uncertain, result>>,
              \A j \in finalizing : j \in finalizing',
              clean => up /\ k \in finalizing' /\ in_flight[k] = 0 /\ k \notin uncertain
       PROVE  Goal
  <2>1. CleanIsClosed'
    BY <1>0, <1>13 DEF CleanIsClosed, Tell, ChildTypes
  <2> QED BY <1>0, <1>1, <1>13, <2>1 DEF ChildTypes, Tell, NoneLeftBehind, At, DoubtRecorded, Doubtful
<1>14. ASSUME NEW k \in Kids, worker'[k] # "clean",
              worker' = [worker EXCEPT ![k] = worker'[k]],
              worker'[k] \in {"running", "waiting", "unclean", "ended"},
              UNCHANGED <<up, stage, lease, outcome, in_flight, uncertain, result>>,
              \A j \in finalizing : j \in finalizing',
              kid' = kid \/ (kid[k] = "absent" /\ kid' = [kid EXCEPT ![k] = "spawning"])
       PROVE  Goal
  <2>1. kid' \in [Kids -> {"absent", "spawning", "active", "completed"}]
    BY <1>0, <1>14 DEF ChildTypes
  <2>2. worker' \in [Kids -> {"none", "running", "waiting", "clean", "unclean", "ended"}]
    BY <1>0, <1>14 DEF ChildTypes
  <2>3. NoneLeftBehind'
    BY <1>0, <1>14 DEF NoneLeftBehind, At, ChildTypes
  <2>4. CleanIsClosed'
    BY <1>0, <1>14 DEF CleanIsClosed, ChildTypes
  <2> QED BY <1>0, <1>1, <1>14, <2>1, <2>2, <2>3, <2>4 DEF ChildTypes, DoubtRecorded, Doubtful
<1>15. ASSUME NEW k \in Kids, Spawn(k) PROVE Goal
  <2>1. worker'[k] = "running" BY <1>0, <1>15 DEF Spawn, ChildTypes
  <2> QED BY <1>14, <1>15, <2>1 DEF Spawn, messages, lifecycle
<1>16. ASSUME NEW k \in Kids, AskFinalizing(k) PROVE Goal
  <2>1. worker'[k] = "waiting" BY <1>0, <1>16 DEF AskFinalizing, ChildTypes
  <2> QED BY <1>14, <1>16, <2>1 DEF AskFinalizing, messages, lifecycle
<1>17. ASSUME NEW k \in Kids, FinalizingTimesOut(k) PROVE Goal
  BY <1>13, <1>17 DEF FinalizingTimesOut, messages, lifecycle
<1>18. ASSUME NEW k \in Kids, TokenCancelled(k) PROVE Goal
  BY <1>2, <1>18 DEF TokenCancelled, messages, lifecycle
<1>19. ASSUME NEW k \in Kids, HandleFinalizing(k) PROVE Goal
  <2>1. /\ up /\ UNCHANGED <<up, stage, lease, outcome, kid, in_flight, uncertain, result>>
        /\ \A j \in finalizing : j \in finalizing'
    BY <1>19 DEF HandleFinalizing, Actor, messages
  <2>2. CASE kid[k] # "active"
    BY <1>13, <1>19, <2>1, <2>2 DEF HandleFinalizing
  <2>3. CASE kid[k] = "active" /\ in_flight[k] = 0
    <3>1. Tell(k, k \notin uncertain) /\ k \in finalizing'
      BY <1>19, <2>3 DEF HandleFinalizing
    <3>2. (k \notin uncertain) \in BOOLEAN OBVIOUS
    <3> QED BY <1>13, <2>1, <2>3, <3>1, <3>2
  <2>4. CASE kid[k] = "active" /\ in_flight[k] # 0
    <3>1. worker' = worker
      BY <1>19, <2>4 DEF HandleFinalizing
    <3> QED BY <1>0, <1>1, <2>1, <3>1 DEF ChildTypes, NoneLeftBehind, At, DoubtRecorded, Doubtful, CleanIsClosed
  <2> QED BY <2>2, <2>3, <2>4
<1>20. ASSUME NEW k \in Kids, RunEnds(k) PROVE Goal
  <2>1. /\ up /\ kid[k] \in {"spawning", "active"}
        /\ worker' = [worker EXCEPT ![k] = "ended"]
        /\ \A j \in finalizing : j \in finalizing'
        /\ UNCHANGED <<up, lease, in_flight, uncertain>>
    BY <1>20 DEF RunEnds, Actor
  <2>2. CASE in_flight[k] > 0
    <3>1. UNCHANGED <<stage, outcome, kid, result>>
      BY <1>20, <2>2 DEF RunEnds
    <3>2. worker'[k] = "ended" BY <1>0, <2>1 DEF ChildTypes
    <3> QED BY <1>14, <2>1, <3>1, <3>2
  <2>3. CASE ~(in_flight[k] > 0)
    <3>1. /\ kid' = [kid EXCEPT ![k] = "completed"] /\ RejectParked(k)
          /\ result' = [result EXCEPT ![k] = IF k \in uncertain THEN "uncertain" ELSE "clean"]
      BY <1>20, <2>3 DEF RunEnds
    <3>2. /\ Counted' /\ DoubtRecorded'
          /\ \A m \in Msgs : stage'[m] \in {stage[m], "done"}
          /\ \A m \in For(k) : stage'[m] # "parked"
      <4>1. RejectParked(k) /\ up /\ UNCHANGED <<up, lease, in_flight, uncertain>>
        BY <2>1, <3>1
      <4> QED BY <1>8, <4>1
    <3>3. in_flight[k] = 0
      BY <1>0, <2>3 DEF ChildTypes
    <3>4. \A m \in For(k) : stage[m] # "flight"
      <4>1. Flying(k) = {} BY <1>0, <3>3, FlyingFinite, FS_EmptySet DEF Counted
      <4> QED BY <4>1 DEF Flying, For, At
    <3>5. NoneLeftBehind'
      BY <1>0, <3>1, <3>2, <3>4 DEF NoneLeftBehind, At, For, ChildTypes
    <3>6. CleanIsClosed'
      BY <1>0, <2>1, <3>1, <3>3 DEF CleanIsClosed, ChildTypes
    <3> QED BY <1>0, <2>1, <3>1, <3>2, <3>5, <3>6 DEF ChildTypes
  <2> QED BY <2>2, <2>3
<1>21. ASSUME Shutdown PROVE Goal
  <2>1. /\ up /\ ~up'
        /\ \A m \in Msgs : stage'[m] \in {"unsent", "done"}
        /\ UNCHANGED <<finalizing, uncertain, result>>
        /\ worker' = [k \in Kids |-> IF worker[k] = "none" THEN "none" ELSE "ended"]
        /\ kid' = [k \in Kids |-> "absent"] /\ in_flight' = [k \in Kids |-> 0]
    BY <1>21 DEF Shutdown, Actor
  <2>2. Counted'
    <3> SUFFICES ASSUME NEW k \in Kids PROVE in_flight'[k] = Cardinality(Flying(k)') BY DEF Counted
    <3>1. Flying(k)' = {} BY <2>1 DEF Flying, At
    <3> QED BY <2>1, <3>1, FS_EmptySet
  <2>3. \A m \in Msgs : Doubtful(m)' => Doubtful(m) \/ stage[m] = "flight"
    BY <1>0, <1>21 DEF Shutdown, Doubtful, Revoke, At, LeaseInv, MessageTypes, StageFits, Stages
  <2>4. \A m \in Msgs : stage[m] = "flight" => result[To[m]] # "clean"
    BY <1>0, <2>1 DEF NoneLeftBehind, At, CleanIsClosed
  <2>5. DoubtRecorded'
    BY <1>0, <2>1, <2>3, <2>4 DEF DoubtRecorded
  <2> QED BY <1>0, <2>1, <2>2, <2>5 DEF ChildTypes, NoneLeftBehind, At, CleanIsClosed
<1>22. ASSUME UNCHANGED vars PROVE Goal
  BY <1>2, <1>22 DEF vars, messages, children, lifecycle
<1>23. Goal
  BY <1>3, <1>4, <1>5, <1>6, <1>9, <1>10, <1>11, <1>12, <1>15, <1>16, <1>17, <1>18, <1>19, <1>20,
     <1>21, <1>22 DEF Next
<1> QED BY <1>0, <1>23 DEF CleanInv

\* Every reachable state satisfies the invariant of clean children.
THEOREM CleanDecides == Spec => []CleanInv
<1>1. CleanInv /\ [Next]_vars => CleanInv'
  BY StepClean
<1> QED BY InitClean, <1>1, PTL DEF Spec

\* For any messages, children and capacities: a child whose worker is told that admission
\* is clean, or that is finished as clean, has no message whose lease its session could
\* still commit, and left no sender in doubt.
THEOREM CleanChildrenQuiet == Spec => [](CleanIsQuiet /\ UncertainNotHidden)
<1>1. CleanInv => CleanIsQuiet /\ UncertainNotHidden
  <2> SUFFICES ASSUME CleanInv, NEW k \in Kids, worker[k] = "clean" \/ result[k] = "clean",
                      NEW m \in For(k)
               PROVE  /\ lease[m] \notin {"Open", "Claimed"}
                      /\ outcome[m] # "AdmissionUncertain"
    BY DEF CleanIsQuiet, UncertainNotHidden
  <2>1. in_flight[k] = 0 /\ k \notin uncertain /\ (up \/ result[k] = "clean")
    BY DEF CleanInv, CleanIsClosed
  <2> QED BY <2>1, QuietChild
<1> QED BY <1>1, CleanDecides, PTL

\* For any messages, children and capacities: no message in flight outlives its child's
\* place in the active map, and none stays parked once its child is not starting.
THEOREM NobodyLeftBehind == Spec => []NoneLeftBehind
<1>1. CleanInv => NoneLeftBehind BY DEF CleanInv
<1> QED BY <1>1, CleanDecides, PTL

(***************************************************************************)
(* The budgets.  A parked message holds no permit; when its child starts,  *)
(* those in front win their permits and slots back.  That they are no more *)
(* than there are rests on the order among the parked: two of them never   *)
(* have equally many in front.                                             *)
(***************************************************************************)
\* The messages that hold a permit.
Holding == At("ingress") \cup At("flight")

\* The parked messages stand in one line.
InLine ==
    \A m \in At("parked") :
        /\ ahead[m] \subseteq At("parked") \ {m}
        /\ \A n \in At("parked") : n # m => n \in ahead[m] \/ m \in ahead[n]
        /\ \A n \in ahead[m] : ahead[n] \subseteq ahead[m]

OtherTypes ==
    /\ up \in BOOLEAN
    /\ ahead \in [Msgs -> SUBSET Msgs]
    /\ cancelled \subseteq Kids /\ finalizing \subseteq Kids /\ uncertain \subseteq Kids
    /\ terminal \subseteq Kids /\ asked \subseteq Kids

PermitsExact == permits \in Nat /\ permits + Cardinality(Holding) = Capacity

WithinLimit == \A k \in Kids : in_flight[k] <= PerChild

BudgetInv == CleanInv /\ OtherTypes /\ InLine /\ PermitsExact /\ WithinLimit

\* The messages can be counted.
LEMMA MsgsFinite ==
  ASSUME NEW S \in SUBSET Msgs
  PROVE  IsFiniteSet(S) /\ Cardinality(S) \in Nat
  BY FS_Subset, FS_CardinalityType, ActiveMessagesAssumption

\* No more messages win than c, when a winner has fewer than c in front of it.
LEMMA FewWinners ==
  ASSUME InLine, NEW P \in SUBSET At("parked"), NEW c \in Nat, NEW W \in SUBSET P,
         \A m \in W : Cardinality(ahead[m] \cap P) < c
  PROVE  Cardinality(W) <= c
<1> DEFINE f == [m \in W |-> Cardinality(ahead[m] \cap P)]
           I == 0 .. (c - 1)
<1>0. P \subseteq Msgs /\ W \subseteq Msgs
  BY DEF At
<1>1. \A m \in W : IsFiniteSet(ahead[m] \cap P) /\ Cardinality(ahead[m] \cap P) \in Nat
  BY <1>0, MsgsFinite
<1>2. f \in [W -> I]
  BY <1>1
<1>3. ASSUME NEW m \in W, NEW n \in W, n \in ahead[m]
      PROVE  f[n] < f[m]
  <2>1. ahead[n] \cap P \subseteq ahead[m] \cap P /\ n \in ahead[m] \cap P /\ n \notin ahead[n] \cap P
    BY <1>3 DEF InLine
  <2>2. Cardinality(ahead[n] \cap P) < Cardinality(ahead[m] \cap P)
    <3> DEFINE A == ahead[n] \cap P
               B == ahead[m] \cap P
    <3>1. A \subseteq B /\ A # B /\ IsFiniteSet(A) /\ IsFiniteSet(B) BY <1>1, <2>1
    <3>2. Cardinality(A) < Cardinality(B)
      <4> HIDE DEF A, B
      <4>1. Cardinality(A) \in Nat /\ Cardinality(B) \in Nat
        BY <3>1, FS_CardinalityType
      <4>2. Cardinality(A) <= Cardinality(B) /\ (Cardinality(B) = Cardinality(A) => B = A)
        BY <3>1, FS_Subset
      <4> QED BY <3>1, <4>1, <4>2
    <3> QED BY <3>2
  <2> QED BY <2>2
<1>4. ASSUME NEW m \in W, NEW n \in W, m # n
      PROVE  f[m] # f[n]
  <2>1. f[m] \in Int /\ f[n] \in Int BY <1>1
  <2>2. n \in ahead[m] \/ m \in ahead[n] BY <1>4 DEF InLine
  <2>3. f[n] < f[m] \/ f[m] < f[n] BY <1>3, <2>2
  <2> QED BY <2>1, <2>3
<1>5. f \in Injection(W, I)
  BY <1>2, <1>4 DEF Injection, IsInjective
<1>6. IsFiniteSet(I) /\ Cardinality(I) = c
  BY FS_Interval
<1>7. Cardinality(W) <= Cardinality(I)
  <2> HIDE DEF I, f
  <2> QED BY <1>5, <1>6, FS_Injection
<1> QED BY <1>6, <1>7

\* Messages that leave their queue leave the others in line.
LEMMA LineLeft ==
  ASSUME InLine, OtherTypes, NEW S, Leave(S),
         \A m \in Msgs : stage'[m] = "parked" <=> stage[m] = "parked" /\ m \notin S
  PROVE  InLine'
<1>1. \A m \in Msgs : ahead'[m] = IF m \in S THEN {} ELSE ahead[m] \ S
  BY DEF Leave
<1> SUFFICES ASSUME NEW m \in At("parked")'
             PROVE  /\ ahead'[m] \subseteq At("parked")' \ {m}
                    /\ \A n \in At("parked")' : n # m => n \in ahead'[m] \/ m \in ahead'[n]
                    /\ \A n \in ahead'[m] : ahead'[n] \subseteq ahead'[m]
  BY DEF InLine
<1>2. m \in At("parked") /\ m \notin S /\ ahead'[m] = ahead[m] \ S /\ m \in Msgs
  BY <1>1 DEF At
<1>3. \A n \in Msgs : n \in At("parked")' <=> n \in At("parked") /\ n \notin S
  BY DEF At
<1>4. ahead[m] \subseteq Msgs BY <1>2 DEF OtherTypes
<1>5. ahead'[m] \subseteq At("parked")' \ {m}
  BY <1>2, <1>3, <1>4 DEF InLine
<1>6. \A n \in At("parked")' : n # m => n \in ahead'[m] \/ m \in ahead'[n]
  <2> SUFFICES ASSUME NEW n \in At("parked")', n # m PROVE n \in ahead'[m] \/ m \in ahead'[n] OBVIOUS
  <2>1. n \in Msgs BY DEF At
  <2>2. n \in At("parked") /\ n \notin S BY <1>3, <2>1
  <2>3. ahead'[n] = ahead[n] \ S BY <1>1, <2>1, <2>2
  <2> QED BY <1>2, <2>2, <2>3 DEF InLine
<1>7. \A n \in ahead'[m] : ahead'[n] \subseteq ahead'[m]
  <2> SUFFICES ASSUME NEW n \in ahead'[m] PROVE ahead'[n] \subseteq ahead'[m] OBVIOUS
  <2>1. n \in ahead[m] /\ n \in Msgs /\ n \notin S BY <1>2, <1>4
  <2>2. ahead'[n] = ahead[n] \ S BY <1>1, <2>1
  <2>3. ahead[n] \subseteq ahead[m] BY <1>2, <2>1 DEF InLine
  <2> QED BY <1>2, <2>2, <2>3
<1> QED BY <1>5, <1>6, <1>7

\* Nobody parks or leaves, and the parked keep their places.
LEMMA LineSame ==
  ASSUME InLine,
         \A m \in Msgs : stage'[m] = "parked" <=> stage[m] = "parked",
         \A m \in At("parked") : ahead'[m] = ahead[m]
  PROVE  InLine'
<1>1. At("parked")' = At("parked") BY DEF At
<1>2. \A m \in At("parked") : \A n \in ahead[m] : n \in At("parked") BY DEF InLine
<1> QED BY <1>1, <1>2 DEF InLine

\* A message that parks is the last in line.
LEMMA LineGrows ==
  ASSUME InLine, NEW m \in Msgs, stage[m] # "parked", stage \in [Msgs -> Stages],
         stage' = [stage EXCEPT ![m] = "parked"],
         ahead' = [n \in Msgs |-> IF n = m THEN At("parked") ELSE ahead[n] \ {m}]
  PROVE  InLine'
<1>1. At("parked")' = At("parked") \cup {m} /\ m \notin At("parked") /\ At("parked") \subseteq Msgs
  BY DEF At
<1>2. ASSUME NEW n \in At("parked")
      PROVE  ahead'[n] = ahead[n] /\ ahead[n] \subseteq At("parked") \ {n}
  <2>1. ahead[n] \subseteq At("parked") \ {n} BY DEF InLine
  <2>2. n \in Msgs /\ n # m /\ m \notin ahead[n] BY <1>1, <2>1
  <2>3. ahead'[n] = ahead[n] \ {m} BY <2>2
  <2> QED BY <2>1, <2>2, <2>3
<1>3. ahead'[m] = At("parked") OBVIOUS
<1> QED BY <1>1, <1>2, <1>3 DEF InLine

\* A step that moves no message into or out of the ingress and the flight moves no permit.
LEMMA PermitsSame ==
  ASSUME PermitsExact, permits' = permits,
         \A m \in Msgs : stage'[m] \in {"ingress", "flight"} <=> stage[m] \in {"ingress", "flight"}
  PROVE  PermitsExact'
<1>1. Holding' = Holding BY DEF Holding, At
<1> QED BY <1>1 DEF PermitsExact

\* A message that leaves them gives its permit back.
LEMMA PermitsBack ==
  ASSUME PermitsExact, NEW m \in Msgs, stage[m] \in {"ingress", "flight"}, permits' = permits + 1,
         \A n \in Msgs : stage'[n] \in {"ingress", "flight"} <=>
                            stage[n] \in {"ingress", "flight"} /\ n # m
  PROVE  PermitsExact'
<1>1. Holding' = Holding \ {m} /\ m \in Holding /\ Holding \in SUBSET Msgs BY DEF Holding, At
<1>2. Cardinality(Holding') = Cardinality(Holding) - 1
  BY <1>1, MsgsFinite, FS_RemoveElement
<1>3. Cardinality(Holding) \in Nat BY <1>1, MsgsFinite
<1> QED BY <1>2, <1>3 DEF PermitsExact

\* Messages that enter them take as many permits.
LEMMA PermitsTaken ==
  ASSUME PermitsExact, NEW S \in SUBSET Msgs, Cardinality(S) <= permits,
         permits' = permits - Cardinality(S),
         \A m \in S : stage[m] \notin {"ingress", "flight"},
         \A m \in Msgs : stage'[m] \in {"ingress", "flight"} <=>
                            stage[m] \in {"ingress", "flight"} \/ m \in S
  PROVE  PermitsExact'
<1>1. Holding' = Holding \cup S /\ Holding \cap S = {} /\ Holding \in SUBSET Msgs BY DEF Holding, At
<1>2. /\ IsFiniteSet(Holding) /\ Cardinality(Holding) \in Nat
      /\ IsFiniteSet(S) /\ Cardinality(S) \in Nat
  BY <1>1, MsgsFinite
<1>3. Cardinality(Holding') = Cardinality(Holding) + Cardinality(S)
  BY SMTT(30), <1>1, <1>2, FS_Union, FS_EmptySet
<1>4. Capacity \in Nat BY ActiveMessagesAssumption
<1> QED BY <1>2, <1>3, <1>4 DEF PermitsExact

\* Nobody waits, runs or is counted at the start.
LEMMA InitBudget == Init => BudgetInv
<1> SUFFICES ASSUME Init PROVE BudgetInv OBVIOUS
<1>1. Holding = {} BY DEF Init, Holding, At
<1>2. PermitsExact
  BY <1>1, FS_EmptySet, ActiveMessagesAssumption DEF Init, PermitsExact
<1> QED BY <1>2, InitClean, ActiveMessagesAssumption DEF Init, BudgetInv, OtherTypes, InLine, At,
           WithinLimit

\* The sets of children and the queues keep their types.
LEMMA StepOther ==
  ASSUME LeaseInv, OtherTypes, [Next]_vars
  PROVE  OtherTypes'
<1> USE ActiveMessagesAssumption
<1>1. ASSUME NEW S, Leave(S) PROVE ahead' \in [Msgs -> SUBSET Msgs]
  BY <1>1 DEF Leave, OtherTypes
<1>2. ASSUME NEW m \in Msgs, Send(m) PROVE OtherTypes'
  <2>1. ahead' \in [Msgs -> SUBSET Msgs]
    <3>1. CASE permits = 0 \/ ~up BY <1>1, <1>2, <3>1 DEF Send, Reply
    <3>2. CASE ~(permits = 0 \/ ~up) BY <1>2, <3>2 DEF Send, OtherTypes, At
    <3> QED BY <3>1, <3>2
  <2> QED BY <1>2, <2>1 DEF Send, OtherTypes, children, lifecycle
<1>3. ASSUME NEW m \in Msgs, Poll(m) \/ Host(m) PROVE OtherTypes'
  <2>1. UNCHANGED <<up, ahead, children>>
    BY <1>3 DEF Poll, Host, HostRefuses, HostClaims, HostInserts, HostCommits, HostAnswers, HostPanics
  <2> QED BY <2>1 DEF OtherTypes, children, lifecycle
<1>4. ASSUME HandleSend PROVE OtherTypes'
  <2>1. PICK m \in Msgs : AdmitActive(m) \/ Park(m) \/ TurnAway(m)
    BY <1>4 DEF HandleSend, At
  <2>2. Leave({m}) \/ ahead' = [n \in Msgs |-> IF n = m THEN At("parked") ELSE ahead[n] \ {m}]
    BY <2>1 DEF AdmitActive, Park, TurnAway, Reply
  <2>3. ahead' \in [Msgs -> SUBSET Msgs]
    BY <1>1, <2>2 DEF OtherTypes, At
  <2> QED BY <1>4, <2>3 DEF HandleSend, OtherTypes
<1>5. ASSUME Expire PROVE OtherTypes'
  <2>1. ahead' \in [Msgs -> SUBSET Msgs] BY <1>1, <1>5 DEF Expire, Reply
  <2> QED BY <1>5, <2>1 DEF Expire, OtherTypes, children, lifecycle
<1>6. ASSUME FinishActiveMessage PROVE OtherTypes'
  <2>1. poll.msg \in Msgs /\ To[poll.msg] \in Kids
    BY <1>6 DEF FinishActiveMessage, LeaseInv, PolledInFlight
  <2>2. ahead' \in [Msgs -> SUBSET Msgs] BY <1>1, <1>6 DEF FinishActiveMessage, Reply
  <2>3. /\ uncertain' \in {uncertain, uncertain \cup {To[poll.msg]}}
        /\ terminal' \in {terminal, terminal \ {To[poll.msg]}}
        /\ cancelled' \in {cancelled, cancelled \cup {To[poll.msg]}}
        /\ UNCHANGED <<up, finalizing, asked>>
    BY <1>6 DEF FinishActiveMessage, Doubt
  <2> QED BY <2>1, <2>2, <2>3 DEF OtherTypes
<1>7. ASSUME Shutdown PROVE OtherTypes'
  BY <1>7 DEF Shutdown, OtherTypes
<1>8. ASSUME NEW k \in Kids,
             Spawn(k) \/ TokenCancelled(k) \/ AskFinalizing(k) \/ HandleFinalizing(k) \/ FinalizingTimesOut(k)
      PROVE  OtherTypes'
  BY <1>8 DEF Spawn, TokenCancelled, AskFinalizing, HandleFinalizing, FinalizingTimesOut, OtherTypes,
     children, lifecycle
<1>9. ASSUME NEW k \in Kids, Started(k) PROVE OtherTypes'
  <2>1. ahead' \in [Msgs -> SUBSET Msgs] BY <1>1, <1>9 DEF Started, RejectParked, Reply
  <2> QED BY <1>9, <2>1 DEF Started, OtherTypes
<1>10. ASSUME NEW k \in Kids, Cancel(k) PROVE OtherTypes'
  <2>1. ahead' \in [Msgs -> SUBSET Msgs] BY <1>1, <1>10 DEF Cancel, RejectParked, Reply, OtherTypes
  <2> QED BY <1>10, <2>1 DEF Cancel, OtherTypes, lifecycle
<1>11. ASSUME NEW k \in Kids, RunEnds(k) PROVE OtherTypes'
  <2>1. ahead' \in [Msgs -> SUBSET Msgs] BY <1>1, <1>11 DEF RunEnds, RejectParked, Reply, OtherTypes
  <2>2. /\ finalizing' \in {finalizing, finalizing \cup {k}}
        /\ terminal' \in {terminal, terminal \cup {k}}
        /\ cancelled' \in {cancelled, cancelled \cup {k}}
        /\ UNCHANGED <<up, uncertain, asked>>
    BY <1>11 DEF RunEnds
  <2> QED BY <2>1, <2>2 DEF OtherTypes
<1>12. CASE UNCHANGED vars BY <1>12 DEF vars, children, lifecycle, OtherTypes
<1> QED BY <1>2, <1>3, <1>4, <1>5, <1>6, <1>7, <1>8, <1>9, <1>10, <1>11, <1>12 DEF Next

\* Every step keeps the line, the permits and the limit of each child.
LEMMA StepBudget ==
  ASSUME BudgetInv, [Next]_vars
  PROVE  BudgetInv'
<1> USE ActiveMessagesAssumption
<1> DEFINE Goal == InLine' /\ PermitsExact' /\ WithinLimit'
<1>0. LeaseInv /\ ChildTypes /\ OtherTypes /\ InLine /\ PermitsExact /\ WithinLimit /\ MessageTypes
      /\ NoneLeftBehind
  BY DEF BudgetInv, CleanInv, LeaseInv
<1>1. ASSUME UNCHANGED <<stage, ahead, permits, in_flight>> PROVE Goal
  BY <1>0, <1>1, LineSame, PermitsSame DEF WithinLimit
<1>2. ASSUME NEW S \in SUBSET At("parked"), NEW o, Reply(S, o), UNCHANGED <<permits, in_flight>>
      PROVE  Goal
  <2>1. \A m \in Msgs : stage'[m] = IF m \in S THEN "done" ELSE stage[m]
    BY <1>2 DEF Reply
  <2>2. \A m \in S : m \in Msgs /\ stage[m] = "parked" BY DEF At
  <2>3. InLine' BY <1>0, <1>2, <2>1, LineLeft DEF Reply
  <2>4. PermitsExact' BY <1>0, <1>2, <2>1, <2>2, PermitsSame
  <2> QED BY <1>0, <1>2, <2>3, <2>4 DEF WithinLimit
<1>3. ASSUME NEW k \in Kids, RejectParked(k), UNCHANGED <<permits, in_flight>> PROVE Goal
  BY <1>2, <1>3 DEF RejectParked, ParkedFor
<1>4. ASSUME NEW m \in Msgs, Send(m) PROVE Goal
  <2>1. stage[m] = "unsent" /\ in_flight' = in_flight BY <1>4 DEF Send, children, lifecycle
  <2>2. WithinLimit' BY <1>0, <2>1 DEF WithinLimit
  <2>3. CASE permits = 0 \/ ~up
    <3>1. Leave({m}) /\ permits' = permits
          /\ \A n \in Msgs : stage'[n] = IF n = m THEN "done" ELSE stage[n]
      BY <1>4, <2>3 DEF Send, Reply
    <3>2. InLine' BY <1>0, <2>1, <3>1, LineLeft
    <3>3. PermitsExact' BY <1>0, <2>1, <3>1, PermitsSame
    <3> QED BY <2>2, <3>2, <3>3
  <2>4. CASE ~(permits = 0 \/ ~up)
    <3>1. /\ \A n \in Msgs : stage'[n] = IF n = m THEN "ingress" ELSE stage[n]
          /\ \A n \in Msgs \ {m} : ahead'[n] = ahead[n]
          /\ permits' = permits - 1
      BY <1>0, <1>4, <2>4 DEF Send, MessageTypes, OtherTypes
    <3>2. InLine' BY <1>0, <2>1, <3>1, LineSame DEF At
    <3>3. Cardinality({m}) = 1 BY FS_Singleton
    <3>4. permits # 0 /\ permits \in Nat BY <1>0, <2>4 DEF PermitsExact
    <3>5. Cardinality({m}) <= permits /\ permits' = permits - Cardinality({m}) BY <3>1, <3>3, <3>4
    <3>6. \A n \in Msgs : stage'[n] \in {"ingress", "flight"} <=>
                             stage[n] \in {"ingress", "flight"} \/ n \in {m}
      BY <3>1
    <3>7. PermitsExact' BY <1>0, <2>1, <3>5, <3>6, PermitsTaken
    <3> QED BY <2>2, <3>2, <3>7
  <2> QED BY <2>3, <2>4
<1>5. ASSUME NEW m \in Msgs, Poll(m) \/ Host(m) PROVE Goal
  <2>1. UNCHANGED <<stage, ahead, permits, in_flight>>
    BY <1>5 DEF Poll, Host, HostRefuses, HostClaims, HostInserts, HostCommits, HostAnswers, HostPanics,
       messages, children, lifecycle
  <2> QED BY <1>1, <2>1
<1>6. ASSUME HandleSend PROVE Goal
  <2>1. PICK m \in Msgs : stage[m] = "ingress" /\ (AdmitActive(m) \/ Park(m) \/ TurnAway(m))
    BY <1>6 DEF HandleSend, At
  <2>2. CASE /\ Admissible(To[m])
             /\ in_flight' = [in_flight EXCEPT ![To[m]] = @ + 1]
             /\ stage' = [stage EXCEPT ![m] = "flight"]
             /\ Leave({m}) /\ permits' = permits
    <3>1. \A n \in Msgs : stage'[n] = IF n = m THEN "flight" ELSE stage[n]
      BY <1>0, <2>2 DEF MessageTypes
    <3>2. InLine' BY <1>0, <2>1, <2>2, <3>1, LineLeft
    <3>3. PermitsExact' BY <1>0, <2>1, <2>2, <3>1, PermitsSame
    <3>4. WithinLimit' BY <1>0, <2>2 DEF WithinLimit, ChildTypes, Admissible
    <3> QED BY <3>2, <3>3, <3>4
  <2>3. CASE /\ stage' = [stage EXCEPT ![m] = "parked"]
             /\ ahead' = [n \in Msgs |-> IF n = m THEN At("parked") ELSE ahead[n] \ {m}]
             /\ permits' = permits + 1 /\ in_flight' = in_flight
    <3>1. \A n \in Msgs : stage'[n] = IF n = m THEN "parked" ELSE stage[n]
      BY <1>0, <2>3 DEF MessageTypes
    <3>2. InLine' BY <1>0, <2>1, <2>3, LineGrows DEF MessageTypes
    <3>3. PermitsExact' BY <1>0, <2>1, <2>3, <3>1, PermitsBack
    <3> QED BY <1>0, <2>3, <3>2, <3>3 DEF WithinLimit
  <2>4. CASE /\ \E o : Reply({m}, o)
             /\ permits' = permits + 1 /\ in_flight' = in_flight
    <3>1. Leave({m}) /\ \A n \in Msgs : stage'[n] = IF n = m THEN "done" ELSE stage[n]
      BY <2>4 DEF Reply
    <3>2. InLine' BY <1>0, <2>1, <3>1, LineLeft
    <3>3. PermitsExact' BY <1>0, <2>1, <2>4, <3>1, PermitsBack
    <3> QED BY <1>0, <2>4, <3>2, <3>3 DEF WithinLimit
  <2>5. CASE AdmitActive(m) BY <2>2, <2>4, <2>5 DEF AdmitActive
  <2>6. CASE Park(m) BY <2>3, <2>4, <2>6 DEF Park
  <2>7. CASE TurnAway(m) BY <2>4, <2>7 DEF TurnAway
  <2> QED BY <2>1, <2>5, <2>6, <2>7
<1>7. ASSUME Expire PROVE Goal
  BY <1>2, <1>7 DEF Expire, children, lifecycle
<1>8. ASSUME NEW k \in Kids, Started(k) PROVE Goal
  <2>1. CASE k \in cancelled
    BY <1>3, <1>8, <2>1 DEF Started
  <2>2. CASE k \notin cancelled
    <3> DEFINE P == ParkedFor(k)
               W == Winners(k)
    <3>1. /\ permits' = permits - Cardinality(W)
          /\ in_flight' = [in_flight EXCEPT ![k] = Cardinality(W)]
          /\ stage' = [m \in Msgs |-> IF m \in P \ W THEN "done"
                                      ELSE IF m \in W THEN "flight" ELSE stage[m]]
          /\ Leave(P)
      BY <1>8, <2>2 DEF Started
    <3>2. /\ P \in SUBSET At("parked") /\ W \in SUBSET P
          /\ \A m \in W : /\ Cardinality(ahead[m] \cap P) < permits
                          /\ Cardinality(ahead[m] \cap P) < PerChild
      BY DEF ParkedFor, Winners
    <3> HIDE DEF P, W
    <3>3. permits \in Nat /\ PerChild \in Nat BY <1>0 DEF PermitsExact
    <3>4. Cardinality(W) <= permits /\ Cardinality(W) <= PerChild
      BY <1>0, <3>2, <3>3, FewWinners
    <3>5. \A m \in P : m \in Msgs /\ stage[m] = "parked" BY <3>2 DEF At
    <3>6. \A m \in Msgs : stage'[m] = IF m \in P \ W THEN "done"
                                      ELSE IF m \in W THEN "flight" ELSE stage[m]
      BY <3>1
    <3>7. InLine' BY <1>0, <3>1, <3>2, <3>5, <3>6, LineLeft
    <3>8. PermitsExact'
      <4>1. W \in SUBSET Msgs /\ \A m \in W : stage[m] \notin {"ingress", "flight"}
        BY <3>2, <3>5
      <4>2. \A m \in Msgs : stage'[m] \in {"ingress", "flight"} <=>
                               stage[m] \in {"ingress", "flight"} \/ m \in W
        BY <3>2, <3>5, <3>6
      <4> QED BY <1>0, <3>1, <3>4, <4>1, <4>2, PermitsTaken
    <3>9. WithinLimit' BY <1>0, <3>1, <3>4 DEF WithinLimit, ChildTypes
    <3> QED BY <3>7, <3>8, <3>9
  <2> QED BY <2>1, <2>2
<1>9. ASSUME NEW k \in Kids, Cancel(k) PROVE Goal
  <2>1. UNCHANGED <<permits, in_flight>> BY <1>9 DEF Cancel, lifecycle
  <2>2. CASE kid[k] = "spawning" BY <1>3, <1>9, <2>1, <2>2 DEF Cancel
  <2>3. CASE kid[k] # "spawning" BY <1>1, <1>9, <2>1, <2>3 DEF Cancel
  <2> QED BY <2>2, <2>3
<1>10. ASSUME FinishActiveMessage PROVE Goal
  <2> DEFINE m == poll.msg
  <2>1. m \in Msgs /\ To[m] \in Kids /\ stage[m] = "flight"
    BY <1>0, <1>10 DEF FinishActiveMessage, LeaseInv, PolledInFlight
  <2>2. /\ \E o : Reply({m}, o)
        /\ permits' = permits + 1
        /\ in_flight' = [in_flight EXCEPT ![To[m]] = @ - 1]
    BY <1>10 DEF FinishActiveMessage
  <2> HIDE DEF m
  <2>3. Leave({m}) /\ \A n \in Msgs : stage'[n] = IF n = m THEN "done" ELSE stage[n]
    BY <2>2 DEF Reply
  <2>4. InLine' BY <1>0, <2>1, <2>3, LineLeft
  <2>5. PermitsExact' BY <1>0, <2>1, <2>2, <2>3, PermitsBack
  <2>6. WithinLimit' BY <1>0, <2>1, <2>2 DEF WithinLimit, ChildTypes
  <2> QED BY <2>4, <2>5, <2>6
<1>11. ASSUME NEW k \in Kids, RunEnds(k) PROVE Goal
  <2>1. UNCHANGED <<permits, in_flight>> BY <1>11 DEF RunEnds
  <2>2. CASE in_flight[k] > 0 BY <1>1, <1>11, <2>1, <2>2 DEF RunEnds
  <2>3. CASE ~(in_flight[k] > 0) BY <1>3, <1>11, <2>1, <2>3 DEF RunEnds
  <2> QED BY <2>2, <2>3
<1>12. ASSUME Shutdown PROVE Goal
  <2>1. \A m \in Msgs : stage'[m] \in {"unsent", "done"} BY <1>12 DEF Shutdown
  <2>2. Holding' = {} /\ At("parked")' = {} BY <2>1 DEF Holding, At
  <2>3. PermitsExact' BY <1>12, <2>2, FS_EmptySet DEF Shutdown, PermitsExact
  <2>4. InLine' BY <2>2 DEF InLine
  <2>5. WithinLimit' BY <1>12 DEF Shutdown, WithinLimit
  <2> QED BY <2>3, <2>4, <2>5
<1>13. ASSUME NEW k \in Kids,
              Spawn(k) \/ TokenCancelled(k) \/ AskFinalizing(k) \/ HandleFinalizing(k) \/ FinalizingTimesOut(k)
       PROVE  Goal
  <2>1. UNCHANGED <<stage, ahead, permits, in_flight>>
    BY <1>13 DEF Spawn, TokenCancelled, AskFinalizing, HandleFinalizing, FinalizingTimesOut, messages, lifecycle
  <2> QED BY <1>1, <2>1
<1>14. ASSUME UNCHANGED vars PROVE Goal
  BY <1>1, <1>14 DEF vars, messages, children, lifecycle
<1>15. Goal
  BY <1>4, <1>5, <1>6, <1>7, <1>8, <1>9, <1>10, <1>11, <1>12, <1>13, <1>14 DEF Next
<1>16. CleanInv' BY StepClean DEF BudgetInv
<1>17. OtherTypes' BY <1>0, StepOther
<1> QED BY <1>15, <1>16, <1>17 DEF BudgetInv

\* Every reachable state satisfies the invariant of the budgets.
THEOREM BudgetsKept == Spec => []BudgetInv
<1>1. BudgetInv /\ [Next]_vars => BudgetInv'
  BY StepBudget
<1> QED BY InitBudget, <1>1, PTL DEF Spec

\* For any messages, children and capacities: a child's in_flight is the number of its open
\* admissions and within MAX_ACTIVE_MESSAGE_ADMISSIONS_PER_CHILD, and every permit is free
\* or held by one message, on whichever of the paths a message is admitted, refused, parked,
\* readmitted, expired or dropped.
THEOREM BudgetsHold == Spec => []BudgetsExact
<1>1. BudgetInv => BudgetsExact
  BY DEF BudgetInv, CleanInv, Counted, Flying, PermitsExact, Holding, WithinLimit, BudgetsExact
<1> QED BY <1>1, BudgetsKept, PTL

\* The protocol's state stays well typed; that the permits stay within the capacity is a
\* consequence of the budgets.
THEOREM TypeCorrect == Spec => []TypeOK
<1>1. ASSUME BudgetInv PROVE TypeOK
  <2>1. permits \in 0 .. Capacity
    <3>1. Holding \in SUBSET Msgs BY DEF Holding, At
    <3>2. Cardinality(Holding) \in Nat BY <3>1, MsgsFinite
    <3> QED BY <1>1, <3>2, ActiveMessagesAssumption DEF BudgetInv, PermitsExact
  <2>2. poll \in [msg : Msgs, why : Whys] \cup {Idle}
    BY <1>1 DEF BudgetInv, CleanInv, LeaseInv, PolledInFlight
  <2> QED BY <1>1, <2>1, <2>2 DEF BudgetInv, CleanInv, LeaseInv, MessageTypes, ChildTypes, OtherTypes,
             TypeOK
<1> QED BY <1>1, BudgetsKept, PTL

\* For any messages, children and capacities, a child finished as clean left no sender in
\* doubt about a message.
THEOREM DoubtNotHidden == Spec => []UncertainNotHidden
<1> QED BY CleanChildrenQuiet, PTL

=============================================================================
