--------------------------- MODULE ActiveMessages ---------------------------
(***************************************************************************)
(* Messages sent to running subagents: task/active_message.rs and          *)
(* task/coordinator/active_message.rs, with the child session's side of    *)
(* the protocol (parent_message.rs of the shell).                          *)
(*                                                                         *)
(* Three parties run concurrently.  Senders take a permit and put a        *)
(* message into the coordinator's ingress.  The coordinator (one event per *)
(* iteration) parks it while the child is starting, or opens a lease for   *)
(* it and waits for the child's answer, the child's cancellation or a      *)
(* deadline.  The child's session, on a thread of its own, claims the      *)
(* lease, inserts the message and commits.  A child's worker closes        *)
(* admission before it reports its result.                                 *)
(***************************************************************************)
EXTENDS Integers, FiniteSets

CONSTANTS
    Msgs, Kids,
    To,             \* the child a message is for
    Foreign,        \* messages of a session that is not the parent of their child
    Workflow,       \* children owned by a workflow, which take no messages
    Capacity,       \* active_message_capacity, at least 1
    PerChild        \* MAX_ACTIVE_MESSAGE_ADMISSIONS_PER_CHILD

ASSUME ActiveMessagesAssumption ==
    /\ IsFiniteSet(Msgs)
    /\ To \in [Msgs -> Kids] /\ Workflow \subseteq Kids /\ Foreign \subseteq Msgs
    /\ Capacity \in Nat \ {0} /\ PerChild \in Nat \ {0}

VARIABLES
    up,             \* the coordinator runs
    poll,           \* the completion between the poll of its future and its handling
    ahead,          \* per message: those in front of it in the ingress or among the parked
    permits,        \* free permits of the semaphore
    stage,          \* per message: in the ingress channel, spawn_ready.parked or
                    \* active_messages ("flight")
    lease, outcome,
    kid, cancelled,                     \* per child: its record and its token
    finalizing, in_flight, uncertain,   \* ActiveMessageLifecycle
    terminal, result,                   \* terminal_outputs, and how the child was finished
    worker, asked,                      \* the run, and its Finalizing event in the channel
    host, inserted                      \* the child session's handling of a message

messages == <<stage, lease, outcome>>
lifecycle == <<finalizing, in_flight, uncertain, terminal, result>>
children == <<kid, cancelled, lifecycle, worker, asked>>
session == <<host, inserted>>
vars == <<up, poll, ahead, permits, messages, children, session>>

Stages == {"unsent", "ingress", "parked", "flight", "done"}
Leases == {"none", "Open", "Claimed", "Committed", "Revoked"}
Answers == {"Admitted", "Rejected", "Unsupported", "ChannelClosed"}
Outcomes == {"none", "Accepted", "NotFoundOrNotOwned", "NotActiveOrFinalizing", "Saturated",
             "AdmissionUncertain", "NotAcceptedBeforeDeadline", "Unsupported", "ChannelClosed"}
Idle == [msg |-> "none", why |-> "none"]
Whys == Answers \cup {"Cancelled", "DeadlineElapsed"}

TypeOK ==
    /\ up \in BOOLEAN
    /\ poll \in [msg : Msgs, why : Whys] \cup {Idle}
    /\ ahead \in [Msgs -> SUBSET Msgs]
    /\ permits \in 0 .. Capacity
    /\ stage \in [Msgs -> Stages] /\ lease \in [Msgs -> Leases] /\ outcome \in [Msgs -> Outcomes]
    /\ kid \in [Kids -> {"absent", "spawning", "active", "completed"}]
    /\ cancelled \subseteq Kids /\ finalizing \subseteq Kids /\ uncertain \subseteq Kids
    /\ terminal \subseteq Kids /\ asked \subseteq Kids
    /\ in_flight \in [Kids -> Nat]
    /\ result \in [Kids -> {"none", "clean", "uncertain"}]
    /\ worker \in [Kids -> {"none", "running", "waiting", "clean", "unclean", "ended"}]
    /\ host \in [Msgs -> Answers \cup {"none", "handling", "inserting", "inserted", "committed"}]
    /\ inserted \subseteq Msgs

Init ==
    /\ up = TRUE /\ poll = Idle
    /\ ahead = [m \in Msgs |-> {}] /\ permits = Capacity
    /\ stage = [m \in Msgs |-> "unsent"]
    /\ lease = [m \in Msgs |-> "none"]
    /\ outcome = [m \in Msgs |-> "none"]
    /\ kid = [k \in Kids |-> "absent"] /\ cancelled = {}
    /\ finalizing = {} /\ in_flight = [k \in Kids |-> 0] /\ uncertain = {}
    /\ terminal = {} /\ result = [k \in Kids |-> "none"]
    /\ worker = [k \in Kids |-> "none"] /\ asked = {}
    /\ host = [m \in Msgs |-> "none"] /\ inserted = {}

At(s) == {m \in Msgs : stage[m] = s}
For(k) == {m \in Msgs : To[m] = k}

\* The coordinator is between two iterations.
Actor == up /\ poll = Idle

\* The messages of S leave their queue.
Leave(S) == ahead' = [m \in Msgs |-> IF m \in S THEN {} ELSE ahead[m] \ S]

\* The senders of S get o; the senders of the others nothing.
Reply(S, o) ==
    /\ outcome' = [m \in Msgs |-> IF m \in S THEN o ELSE outcome[m]]
    /\ stage' = [m \in Msgs |-> IF m \in S THEN "done" ELSE stage[m]]
    /\ Leave(S)

----------------------------------------------------------------------------
(* Senders *)

\* enqueue_active_message: a permit first, then the channel.
Send(m) ==
    /\ stage[m] = "unsent"
    /\ IF permits = 0 \/ ~up
       THEN /\ Reply({m}, IF permits = 0 THEN "Saturated" ELSE "ChannelClosed")
            /\ UNCHANGED permits
       ELSE /\ stage' = [stage EXCEPT ![m] = "ingress"]
            /\ ahead' = [ahead EXCEPT ![m] = At("ingress")]
            /\ permits' = permits - 1
            /\ UNCHANGED outcome
    /\ UNCHANGED <<up, poll, lease, children, session>>

----------------------------------------------------------------------------
(* The coordinator: routing *)

\* admit_active_message up to begin_admission: why a message for k is refused.
Refusal(k) ==
    IF k \in Workflow \cup cancelled \cup finalizing THEN "NotActiveOrFinalizing" ELSE "Saturated"

\* Mutant of Admissible: one admission too many.
AdmissibleOneMore(k) ==
    k \notin Workflow \cup cancelled \cup finalizing /\ in_flight[k] <= PerChild

\* begin_admission succeeds
Admissible(k) == k \notin Workflow \cup cancelled \cup finalizing /\ in_flight[k] < PerChild

\* A lease is opened for every message of S and it goes to its child's session.
Open(S) ==
    /\ lease' = [m \in Msgs |-> IF m \in S THEN "Open" ELSE lease[m]]
    /\ host' = [m \in Msgs |-> IF m \in S THEN "handling" ELSE host[m]]

\* A message for an active child: admitted, or refused and its permit released.
AdmitActive(m) ==
    LET k == To[m]
    IN  IF Admissible(k)
        THEN /\ Open({m})
             /\ in_flight' = [in_flight EXCEPT ![k] = @ + 1]
             /\ stage' = [stage EXCEPT ![m] = "flight"]
             /\ Leave({m})
             /\ UNCHANGED <<outcome, permits>>
        ELSE /\ Reply({m}, Refusal(k))
             /\ permits' = permits + 1
             /\ UNCHANGED <<lease, host, in_flight>>

\* A message for a child that is queued or pending: parked without its permit.
Park(m) ==
    /\ permits' = permits + 1
    /\ IF To[m] \in Workflow \cup cancelled
       THEN Reply({m}, "NotActiveOrFinalizing")
       ELSE /\ stage' = [stage EXCEPT ![m] = "parked"]
            /\ ahead' = [n \in Msgs |-> IF n = m THEN At("parked") ELSE ahead[n] \ {m}]
            /\ UNCHANGED outcome
    /\ UNCHANGED <<lease, host, in_flight>>

\* A message for a child that is unknown, of another session, or completed.
TurnAway(m) ==
    /\ Reply({m}, IF kid[To[m]] = "completed" /\ m \notin Foreign THEN "NotActiveOrFinalizing"
                  ELSE "NotFoundOrNotOwned")
    /\ permits' = permits + 1
    /\ UNCHANGED <<lease, host, in_flight>>

\* handle_send_active_message, of the first message in the channel
HandleSend ==
    /\ Actor
    /\ \E m \in At("ingress") :
        /\ ahead[m] = {}
        /\ \/ m \notin Foreign /\ kid[To[m]] = "active" /\ AdmitActive(m)
           \/ m \notin Foreign /\ kid[To[m]] = "spawning" /\ Park(m)
           \/ (m \in Foreign \/ kid[To[m]] \in {"absent", "completed"}) /\ TurnAway(m)
    /\ UNCHANGED <<up, poll, kid, cancelled, finalizing, uncertain, terminal, result,
                   worker, asked, inserted>>

ParkedFor(k) == At("parked") \cap For(k)

\* Mutant of RejectParked: nobody is told.
RejectParkedNot(k) == UNCHANGED <<ahead, stage, outcome>>

\* SpawnReadyMessages::reject
RejectParked(k) == Reply(ParkedFor(k), "NotActiveOrFinalizing")

\* handle_spawn, as far as messages are concerned
Spawn(k) ==
    /\ Actor /\ kid[k] = "absent"
    /\ kid' = [kid EXCEPT ![k] = "spawning"]
    /\ worker' = [worker EXCEPT ![k] = "running"]
    /\ UNCHANGED <<up, poll, ahead, permits, messages, cancelled, lifecycle, asked, session>>

\* SpawnReadyMessages::admit and begin_admission: in the order in which they were
\* parked, the messages that find a permit and a slot of the new child.
Winners(k) ==
    {m \in ParkedFor(k) :
        /\ Cardinality(ahead[m] \cap ParkedFor(k)) < permits
        /\ Cardinality(ahead[m] \cap ParkedFor(k)) < PerChild}

\* Started: the child is active and its parked messages are admitted in order.
\* One that was cancelled first stays pending and its messages are refused.
Started(k) ==
    /\ Actor /\ kid[k] = "spawning" /\ worker[k] = "running"
    /\ IF k \in cancelled
       THEN RejectParked(k) /\ UNCHANGED <<kid, in_flight, permits, lease, host>>
       ELSE LET admitted == Winners(k)
                saturated == ParkedFor(k) \ admitted
            IN  /\ kid' = [kid EXCEPT ![k] = "active"]
                /\ permits' = permits - Cardinality(admitted)
                /\ in_flight' = [in_flight EXCEPT ![k] = Cardinality(admitted)]
                /\ Open(admitted)
                /\ outcome' = [m \in Msgs |-> IF m \in saturated THEN "Saturated" ELSE outcome[m]]
                /\ stage' = [m \in Msgs |-> IF m \in saturated THEN "done"
                                            ELSE IF m \in admitted THEN "flight" ELSE stage[m]]
                /\ Leave(ParkedFor(k))
    /\ UNCHANGED <<up, poll, cancelled, finalizing, uncertain, terminal, result,
                   worker, asked, inserted>>

\* cancel_one and the other cancels: parked messages of a pending child are refused.
Cancel(k) ==
    /\ Actor /\ kid[k] \in {"spawning", "active"}
    /\ cancelled' = cancelled \cup {k}
    /\ IF kid[k] = "spawning" THEN RejectParked(k) ELSE UNCHANGED <<ahead, stage, outcome>>
    /\ UNCHANGED <<up, poll, permits, lease, kid, lifecycle, worker, asked, session>>

\* The token is cancelled from outside the coordinator.
TokenCancelled(k) ==
    /\ kid[k] \in {"spawning", "active"} /\ k \notin cancelled
    /\ cancelled' = cancelled \cup {k}
    /\ UNCHANGED <<up, poll, ahead, permits, messages, kid, lifecycle, worker, asked, session>>

\* Mutants of Expire: the deadlines are not among the coordinator's timers; permits are
\* released a second time.
ExpireNever == FALSE /\ UNCHANGED vars
ExpireFreesPermit ==
    /\ Actor
    /\ \E m \in At("parked") : ahead[m] = {} /\ Reply({m}, "NotAcceptedBeforeDeadline")
    /\ permits' = permits + 1
    /\ UNCHANGED <<up, poll, lease, children, session>>

\* SpawnReadyMessages::expire: the deadlines of parked messages run out in order.
Expire ==
    /\ Actor
    /\ \E due \in SUBSET At("parked") :
        /\ due # {} /\ \A m \in due : ahead[m] \subseteq due
        /\ Reply(due, "NotAcceptedBeforeDeadline")
    /\ UNCHANGED <<up, poll, permits, lease, children, session>>

----------------------------------------------------------------------------
(* The coordinator: settling an admission *)

\* Mutant of Poll: without the deadline.
PollNoDeadline(m) ==
    /\ Actor /\ stage[m] = "flight"
    /\ \/ host[m] \in Answers /\ poll' = [msg |-> m, why |-> host[m]]
       \/ /\ host[m] \notin Answers /\ To[m] \in cancelled
          /\ poll' = [msg |-> m, why |-> "Cancelled"]
    /\ UNCHANGED <<up, ahead, permits, messages, children, session>>

\* ActiveMessageFuture::poll: the child's answer, else its cancellation, else the
\* deadline.  The lease is looked at afterwards.
Poll(m) ==
    /\ Actor /\ stage[m] = "flight"
    /\ \/ host[m] \in Answers /\ poll' = [msg |-> m, why |-> host[m]]
       \/ /\ host[m] \notin Answers /\ To[m] \in cancelled
          /\ poll' = [msg |-> m, why |-> "Cancelled"]
       \/ /\ host[m] \notin Answers /\ To[m] \notin cancelled
          /\ poll' = [msg |-> m, why |-> "DeadlineElapsed"]
    /\ UNCHANGED <<up, ahead, permits, messages, children, session>>

\* Mutant of Settled: a claimed lease counts as revoked.
SettledUnlessCommitted(m, why) ==
    IF why = "Admitted" THEN lease[m] = "Committed" ELSE lease[m] # "Committed"

\* settle and revoke: does the lease bear the outcome out?  (The load and the CAS of
\* settle are one step: a lease that leaves Open never returns to it.)
Settled(m, why) ==
    IF why = "Admitted" THEN lease[m] = "Committed" ELSE lease[m] \in {"Open", "Revoked"}

\* protocol_outcome_from_completion
OutcomeOf(why, settled) ==
    IF ~settled THEN "AdmissionUncertain"
    ELSE CASE why = "Admitted" -> "Accepted"
           [] why = "Unsupported" -> "Unsupported"
           [] why = "ChannelClosed" -> "ChannelClosed"
           [] why = "Rejected" -> "NotActiveOrFinalizing"
           [] why \in {"Cancelled", "DeadlineElapsed"} -> "NotAcceptedBeforeDeadline"

\* The future is dropped once it is ready, which revokes a lease still open.
Revoke(S) == lease' = [m \in Msgs |-> IF m \in S /\ lease[m] = "Open" THEN "Revoked" ELSE lease[m]]

\* What finalizing() of the worker of k returns.
Tell(k, clean) ==
    worker' = [worker EXCEPT ![k] = IF @ # "waiting" THEN @
                                    ELSE IF clean THEN "clean" ELSE "unclean"]

\* Mutant of Doubt: recorded only while the child finalizes.
DoubtOnlyFinalizing(k, settled) ==
    IF settled \/ k \notin finalizing THEN uncertain ELSE uncertain \cup {k}

\* TerminalDrainDisposition::record: an unsettled admission is never forgotten.
Doubt(k, settled) == IF settled THEN uncertain ELSE uncertain \cup {k}

\* finish_active_message: the sender is answered and the child's lifecycle counts the
\* admission; the last one of a finalizing child answers its worker, and finishes a
\* child whose output is buffered.
FinishActiveMessage ==
    /\ up /\ poll # Idle
    /\ LET m == poll.msg
           k == To[m]
           settled == Settled(m, poll.why)
           unclean == Doubt(k, settled)
           drained == in_flight[k] = 1 /\ k \in finalizing
           finished == drained /\ k \in terminal
       IN  /\ Reply({m}, OutcomeOf(poll.why, settled))
           /\ Revoke({m})
           /\ uncertain' = unclean
           /\ in_flight' = [in_flight EXCEPT ![k] = @ - 1]
           /\ IF drained /\ k \notin asked THEN Tell(k, k \notin unclean) ELSE UNCHANGED worker
           /\ IF finished
              THEN /\ kid' = [kid EXCEPT ![k] = "completed"]
                   /\ terminal' = terminal \ {k}
                   /\ result' = [result EXCEPT ![k] = IF k \in unclean THEN "uncertain" ELSE "clean"]
                   /\ cancelled' = IF k \in unclean THEN cancelled \cup {k} ELSE cancelled
              ELSE UNCHANGED <<kid, terminal, result, cancelled>>
    /\ permits' = permits + 1
    /\ poll' = Idle
    /\ UNCHANGED <<up, finalizing, asked, session>>

----------------------------------------------------------------------------
(* A child's worker closes admission and ends *)

\* reporter.finalizing(): the event is sent and the worker waits for the reply.
AskFinalizing(k) ==
    /\ up /\ worker[k] = "running" /\ kid[k] = "active"
    /\ worker' = [worker EXCEPT ![k] = "waiting"]
    /\ asked' = asked \cup {k}
    /\ UNCHANGED <<up, poll, ahead, permits, messages, kid, cancelled, lifecycle,
                   session>>

\* Mutant of HandleFinalizing: does not wait for the admissions in flight.
HandleFinalizingAtOnce(k) ==
    /\ Actor /\ k \in asked
    /\ asked' = asked \ {k}
    /\ IF kid[k] # "active" THEN Tell(k, FALSE) /\ UNCHANGED finalizing
       ELSE finalizing' = finalizing \cup {k} /\ Tell(k, k \notin uncertain)
    /\ UNCHANGED <<up, poll, ahead, permits, messages, kid, cancelled, in_flight,
                   uncertain, terminal, result, session>>

\* handle_active_message_finalizing, begin_finalizing
HandleFinalizing(k) ==
    /\ Actor /\ k \in asked
    /\ asked' = asked \ {k}
    /\ IF kid[k] # "active" THEN Tell(k, FALSE) /\ UNCHANGED finalizing
       ELSE /\ finalizing' = finalizing \cup {k}
            /\ IF in_flight[k] = 0 THEN Tell(k, k \notin uncertain) ELSE UNCHANGED worker
    /\ UNCHANGED <<up, poll, ahead, permits, messages, kid, cancelled, in_flight,
                   uncertain, terminal, result, session>>

\* ACTIVE_MESSAGE_FINALIZATION_TIMEOUT
FinalizingTimesOut(k) ==
    /\ worker[k] = "waiting"
    /\ Tell(k, FALSE)
    /\ UNCHANGED <<up, poll, ahead, permits, messages, kid, cancelled, lifecycle,
                   asked, session>>

\* begin_terminalization: a child without admissions in flight is finished, another
\* one keeps its output buffered.
RunEnds(k) ==
    /\ Actor /\ kid[k] \in {"spawning", "active"}
    /\ worker[k] \in {"running", "clean", "unclean"}
    /\ worker' = [worker EXCEPT ![k] = "ended"]
    /\ finalizing' = IF kid[k] = "active" THEN finalizing \cup {k} ELSE finalizing
    /\ IF in_flight[k] > 0
       THEN terminal' = terminal \cup {k} /\ UNCHANGED <<kid, ahead, stage, outcome, result, cancelled>>
       ELSE /\ kid' = [kid EXCEPT ![k] = "completed"]
            /\ RejectParked(k)
            /\ result' = [result EXCEPT ![k] = IF k \in uncertain THEN "uncertain" ELSE "clean"]
            /\ cancelled' = IF k \in uncertain THEN cancelled \cup {k} ELSE cancelled
            /\ UNCHANGED terminal
    /\ UNCHANGED <<up, poll, permits, lease, in_flight, uncertain, asked, session>>

\* The coordinator is dropped: leases are revoked where they can be, every sender and
\* waiter is answered, the runs are gone.
Shutdown ==
    /\ Actor
    /\ up' = FALSE
    /\ Revoke(At("flight"))
    /\ outcome' = [m \in Msgs |->
                      IF stage[m] \notin {"ingress", "parked", "flight"} THEN outcome[m]
                      ELSE IF stage[m] = "flight" /\ lease[m] # "Open" THEN "AdmissionUncertain"
                      ELSE "ChannelClosed"]
    /\ stage' = [m \in Msgs |-> IF stage[m] = "unsent" THEN "unsent" ELSE "done"]
    /\ ahead' = [m \in Msgs |-> {}]
    /\ permits' = Capacity
    /\ worker' = [k \in Kids |-> IF worker[k] = "none" THEN "none" ELSE "ended"]
    /\ kid' = [k \in Kids |-> "absent"] /\ terminal' = {} /\ asked' = {}
    /\ in_flight' = [k \in Kids |-> 0]
    /\ UNCHANGED <<poll, cancelled, finalizing, uncertain, result, session>>

----------------------------------------------------------------------------
(* The child's session *)

\* message_delivery.send or the session refuses, or its thread is gone.
HostRefuses(m, answer) ==
    /\ host[m] = "handling"
    /\ host' = [host EXCEPT ![m] = answer]
    /\ UNCHANGED <<up, poll, ahead, permits, messages, children, inserted>>

\* commit_admission: the CAS
HostClaims(m) ==
    /\ host[m] = "handling"
    /\ IF lease[m] = "Open"
       THEN /\ lease' = [lease EXCEPT ![m] = "Claimed"]
            /\ host' = [host EXCEPT ![m] = "inserting"]
       ELSE /\ host' = [host EXCEPT ![m] = "Rejected"]
            /\ UNCHANGED lease
    /\ UNCHANGED <<up, poll, ahead, permits, stage, outcome, children, inserted>>

\* commit_admission: insert()
HostInserts(m) ==
    /\ host[m] = "inserting"
    /\ host' = [host EXCEPT ![m] = "inserted"]
    /\ inserted' = inserted \cup {m}
    /\ UNCHANGED <<up, poll, ahead, permits, messages, children>>

\* commit_admission: the store of Committed
HostCommits(m) ==
    /\ host[m] = "inserted"
    /\ lease' = [lease EXCEPT ![m] = "Committed"]
    /\ host' = [host EXCEPT ![m] = "committed"]
    /\ UNCHANGED <<up, poll, ahead, permits, stage, outcome, children, inserted>>

HostAnswers(m) ==
    /\ host[m] = "committed"
    /\ host' = [host EXCEPT ![m] = "Admitted"]
    /\ UNCHANGED <<up, poll, ahead, permits, messages, children, inserted>>

\* The session panics with the lease claimed: its answer channel closes.
HostPanics(m) ==
    /\ host[m] \in {"inserting", "inserted", "committed"}
    /\ host' = [host EXCEPT ![m] = "ChannelClosed"]
    /\ UNCHANGED <<up, poll, ahead, permits, messages, children, inserted>>

Host(m) ==
    \/ \E answer \in Answers \ {"Admitted"} : HostRefuses(m, answer)
    \/ HostClaims(m) \/ HostInserts(m) \/ HostCommits(m) \/ HostAnswers(m) \/ HostPanics(m)

Next ==
    \/ \E m \in Msgs : Send(m) \/ Poll(m) \/ Host(m)
    \/ HandleSend \/ Expire \/ FinishActiveMessage \/ Shutdown
    \/ \E k \in Kids :
        \/ Spawn(k) \/ Started(k) \/ Cancel(k) \/ TokenCancelled(k)
        \/ AskFinalizing(k) \/ HandleFinalizing(k) \/ FinalizingTimesOut(k) \/ RunEnds(k)

Spec == Init /\ [][Next]_vars

(***************************************************************************)
(* Fairness: the coordinator's select loop takes what is in its channels   *)
(* and fires its timers.  Nothing is assumed of children: a session may    *)
(* never answer, a run may never end.                                      *)
(***************************************************************************)
FairSpec ==
    /\ Spec
    /\ WF_vars(HandleSend) /\ WF_vars(Expire) /\ WF_vars(FinishActiveMessage)
    /\ \A m \in Msgs : WF_vars(Poll(m))
    /\ \A k \in Kids : WF_vars(HandleFinalizing(k))

----------------------------------------------------------------------------
(* Properties *)

\* What a sender is told, as a verdict.
verdict == [m \in Msgs |->
               CASE outcome[m] = "none" -> "none"
                 [] outcome[m] = "Accepted" -> "accepted"
                 [] outcome[m] = "AdmissionUncertain" -> "uncertain"
                 [] OTHER -> "rejected"]

Abstract == INSTANCE MessageVerdict WITH Msgs <- Msgs, inserted <- inserted, verdict <- verdict

\* The protocol keeps the sender's promise: an accepted message was inserted, and a
\* message refused, expired, cancelled or lost at shutdown is never inserted, not even
\* by a session that claims its lease late.
KeepsPromise == Abstract!Spec

\* A worker told that admission is clean, and a child finished as clean, have no
\* message whose lease the session could still commit.
CleanIsQuiet ==
    \A k \in Kids : worker[k] = "clean" \/ result[k] = "clean" =>
        \A m \in For(k) : lease[m] \notin {"Open", "Claimed"}

\* A child finished as clean left no sender in doubt.
UncertainNotHidden ==
    \A k \in Kids : result[k] = "clean" => \A m \in For(k) : outcome[m] # "AdmissionUncertain"

\* The counters tell the truth: a child's in_flight is the number of its open
\* admissions, within its limit, and every permit is free or held by one message.
BudgetsExact ==
    /\ \A k \in Kids : /\ in_flight[k] = Cardinality(For(k) \cap At("flight"))
                       /\ in_flight[k] <= PerChild
    /\ permits + Cardinality(At("ingress") \cup At("flight")) = Capacity

\* A message in flight has its child in the active map, and a parked one has a child
\* that is still starting: neither is left behind when the child moves on.
NoneLeftBehind ==
    /\ \A m \in At("flight") : kid[To[m]] = "active"
    /\ \A m \in At("parked") : kid[To[m]] = "spawning"

\* Every sender is answered although neither the child's session nor its run need ever
\* do anything.
SenderAnswered == \A m \in Msgs : stage[m] # "unsent" ~> outcome[m] # "none"

\* A child whose run has ended does not stay buffered behind an admission.
BufferedChildFinishes == \A k \in Kids : k \in terminal ~> k \notin terminal

=============================================================================
