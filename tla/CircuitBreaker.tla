--------------------------- MODULE CircuitBreaker ---------------------------
(***************************************************************************)
(* The circuit breaker of xai-circuit-breaker (breaker.rs, window.rs).     *)
(*                                                                         *)
(* A caller thread asks check() before a request and, unless the request's *)
(* future is dropped or ends in a status the caller does not count, calls  *)
(* record() afterwards.  Both run on shared atomics without a lock (only   *)
(* the sliding window has one), so one action is one atomic access and     *)
(* pc[t] names the access thread t makes next.  Any two calls may overlap. *)
(***************************************************************************)
EXTENDS Integers, Sequences, FiniteSets

CONSTANTS
    Threads,        \* callers sharing one breaker
    Enabled,        \* BreakerConfig.enabled
    MaxProbes,      \* half_open_max_probes, at least 1 after with_clock
    OpenDuration,   \* open_duration, in ticks (also the probe lease)
    WindowDuration, \* window_duration, in ticks
    MinSamples,     \* min_samples
    RateNum, RateDen, \* error_rate_threshold = RateNum / RateDen
    MaxEntries,     \* MAX_WINDOW_ENTRIES
    CounterMod,     \* half_open_probes wraps modulo CounterMod (2^64 in the code)
    MaxClock        \* bound on the clock

ASSUME BreakerAssumption ==
    /\ Enabled \in BOOLEAN
    /\ MaxProbes \in Nat \ {0} /\ OpenDuration \in Nat /\ WindowDuration \in Nat
    /\ MinSamples \in Nat /\ RateNum \in Nat /\ RateDen \in Nat \ {0}
    /\ MaxEntries \in Nat \ {0} /\ CounterMod \in Nat /\ MaxClock \in Nat
    /\ MaxProbes < CounterMod      \* both are a usize

VARIABLES
    clock,          \* elapsed_millis()
    state, opened_at, half_open_probes, probe_claimed_at, is_open_fast,
    window,         \* SlidingWindow: entries and the incremental failure count
    pc, loc,        \* per-thread control and the locals of the call it is in
    claimAt         \* ghost: the time of the claim that t holds on a slot that
                    \* half_open_probes counts, or NoClaim

shared == <<state, opened_at, half_open_probes, probe_claimed_at, is_open_fast, window>>
vars == <<clock, shared, pc, loc, claimAt>>

NoClaim == -1
States == {"Closed", "Open", "HalfOpen"}
Times == 0 .. MaxClock
Steps == {"idle", "running", "check_load_opened", "check_elapsed", "check_cas",
          "check_lost", "check_mirror", "probe_now", "probe_add", "probe_store",
          "probe_sub", "probe_load", "probe_cas", "record_load", "record_closed",
          "record_open", "trip_state", "trip_now", "trip_opened", "trip_probes", "trip_mirror", "close_state",
          "close_window", "close_probes", "close_mirror"}

NoLocals == [now |-> 0, opened |-> 0, claimed |-> 0, failed |-> FALSE]

Entries == [at : Times, failed : BOOLEAN]

TypeOK ==
    /\ clock \in Times
    /\ state \in States
    /\ opened_at \in Times /\ probe_claimed_at \in Times
    /\ half_open_probes \in 0 .. CounterMod - 1
    /\ is_open_fast \in BOOLEAN
    /\ window \in [entries : Seq(Entries), failures : Int]
    /\ pc \in [Threads -> Steps]
    /\ loc \in [Threads -> [now : Times, opened : Times, claimed : Times, failed : BOOLEAN]]
    /\ claimAt \in [Threads -> Times \cup {NoClaim}]

----------------------------------------------------------------------------
(* SlidingWindow *)

EmptyWindow == [entries |-> <<>>, failures |-> 0]

AsCount(b) == IF b THEN 1 ELSE 0

\* Mutant of Push: the sample dropped at the cap stays counted.
PushKeepsCount(w, failed, at) ==
    [entries |-> Append(IF Len(w.entries) >= MaxEntries THEN Tail(w.entries) ELSE w.entries,
                        [at |-> at, failed |-> failed]),
     failures |-> w.failures + AsCount(failed)]

\* push: at the cap the oldest sample is dropped and un-counted.
Push(w, failed, at) ==
    LET full == Len(w.entries) >= MaxEntries
    IN  [entries |-> Append(IF full THEN Tail(w.entries) ELSE w.entries,
                            [at |-> at, failed |-> failed]),
         failures |-> w.failures + AsCount(failed)
                      - AsCount(full /\ Head(w.entries).failed)]

\* evict: drop from the front while the timestamp is before the cut-off; an old
\* sample behind a newer one stays.
Evict(w, at) ==
    LET fresh == {i \in 1 .. Len(w.entries) : w.entries[i].at >= at - WindowDuration}
        kept == IF fresh = {} THEN Len(w.entries) + 1
                ELSE CHOOSE i \in fresh : \A j \in fresh : i <= j
    IN  [entries |-> SubSeq(w.entries, kept, Len(w.entries)),
         failures |-> w.failures
                      - Cardinality({i \in 1 .. kept - 1 : w.entries[i].failed})]

ShouldTrip(w) ==
    LET n == Len(w.entries)
    IN  /\ n >= MinSamples
        /\ IF n = 0 THEN RateNum = 0 ELSE w.failures * RateDen >= RateNum * n

----------------------------------------------------------------------------
Init ==
    /\ clock = 0
    /\ state = "Closed"
    /\ opened_at = 0 /\ probe_claimed_at = 0
    /\ half_open_probes = 0
    /\ is_open_fast = FALSE
    /\ window = EmptyWindow
    /\ pc = [t \in Threads |-> "idle"]
    /\ loc = [t \in Threads |-> NoLocals]
    /\ claimAt = [t \in Threads |-> NoClaim]

\* now.saturating_sub(then): a time stored by a later caller is no time ago.
Since(now, then) == IF then <= now THEN now - then ELSE 0

At(t, step) == pc[t] = step

Goto(t, step) == pc' = [pc EXCEPT ![t] = step]

\* The call of t returns; its locals are gone.
Return(t, step) == Goto(t, step) /\ loc' = [loc EXCEPT ![t] = NoLocals]

\* What check() and the lost CAS of check_open do with the state they loaded.
Dispatch(t, open) ==
    Goto(t, CASE state = "Closed" -> "running"
              [] state = "Open" -> open
              [] state = "HalfOpen" -> "probe_now")

\* check(): the load of state.
Check(t) ==
    /\ At(t, "idle")
    /\ IF Enabled THEN Dispatch(t, "check_load_opened") ELSE Goto(t, "running")
    /\ UNCHANGED <<clock, shared, loc, claimAt>>

\* check_open(): opened_at is loaded first, the clock read afterwards.
LoadOpened(t) ==
    /\ At(t, "check_load_opened")
    /\ loc' = [loc EXCEPT ![t].opened = opened_at]
    /\ Goto(t, "check_elapsed")
    /\ UNCHANGED <<clock, shared, claimAt>>

CheckElapsed(t) ==
    /\ At(t, "check_elapsed")
    /\ Return(t, IF Since(clock, loc[t].opened) >= OpenDuration THEN "check_cas" ELSE "idle")
    /\ UNCHANGED <<clock, shared, claimAt>>

CasState(t) ==
    /\ At(t, "check_cas")
    /\ IF state = "Open"
       THEN state' = "HalfOpen" /\ Goto(t, "check_mirror")
       ELSE state' = state /\ Goto(t, "check_lost")
    /\ UNCHANGED <<clock, opened_at, half_open_probes, probe_claimed_at,
                   is_open_fast, window, loc, claimAt>>

\* A lost race re-reads the state; a breaker found Open again refuses.
LostCas(t) ==
    /\ At(t, "check_lost")
    /\ Dispatch(t, "idle")
    /\ UNCHANGED <<clock, shared, loc, claimAt>>

ClearMirror(t) ==
    /\ At(t, "check_mirror")
    /\ is_open_fast' = FALSE
    /\ Goto(t, "probe_now")
    /\ UNCHANGED <<clock, state, opened_at, half_open_probes, probe_claimed_at,
                   window, loc, claimAt>>

\* try_half_open_probe()
ProbeNow(t) ==
    /\ At(t, "probe_now")
    /\ loc' = [loc EXCEPT ![t].now = clock]
    /\ Goto(t, "probe_add")
    /\ UNCHANGED <<clock, shared, claimAt>>

\* t has won a slot, at the time it read before.
Claim(t) == claimAt' = [claimAt EXCEPT ![t] = loc[t].now]

ProbeAdd(t) ==
    /\ At(t, "probe_add")
    /\ half_open_probes' = (half_open_probes + 1) % CounterMod
    /\ IF half_open_probes < MaxProbes
       THEN Claim(t) /\ Goto(t, "probe_store")
       ELSE Goto(t, "probe_sub") /\ UNCHANGED claimAt
    /\ UNCHANGED <<clock, state, opened_at, probe_claimed_at, is_open_fast,
                   window, loc>>

ProbeStore(t) ==
    /\ At(t, "probe_store")
    /\ probe_claimed_at' = loc[t].now
    /\ Return(t, "running")
    /\ UNCHANGED <<clock, state, opened_at, half_open_probes, is_open_fast,
                   window, claimAt>>

\* Mutant of ProbeSub: the counter does not wrap.
ProbeSubUnwrapped(t) ==
    /\ At(t, "probe_sub")
    /\ half_open_probes' = half_open_probes - 1
    /\ Goto(t, "probe_load")
    /\ UNCHANGED <<clock, state, opened_at, probe_claimed_at, is_open_fast,
                   window, loc, claimAt>>

ProbeSub(t) ==
    /\ At(t, "probe_sub")
    /\ half_open_probes' = (half_open_probes + CounterMod - 1) % CounterMod
    /\ Goto(t, "probe_load")
    /\ UNCHANGED <<clock, state, opened_at, probe_claimed_at, is_open_fast,
                   window, loc, claimAt>>

\* Mutant of ProbeLoad: claims never expire.
ProbeLoadNoLease(t) ==
    /\ At(t, "probe_load")
    /\ Return(t, "idle")
    /\ UNCHANGED <<clock, shared, claimAt>>

\* All slots are claimed: a claim older than open_duration counts as abandoned.
ProbeLoad(t) ==
    /\ At(t, "probe_load")
    /\ IF Since(loc[t].now, probe_claimed_at) >= OpenDuration
       THEN loc' = [loc EXCEPT ![t].claimed = probe_claimed_at] /\ Goto(t, "probe_cas")
       ELSE Return(t, "idle")
    /\ UNCHANGED <<clock, shared, claimAt>>

ProbeCas(t) ==
    /\ At(t, "probe_cas")
    /\ IF probe_claimed_at = loc[t].claimed
       THEN probe_claimed_at' = loc[t].now /\ Claim(t) /\ Return(t, "running")
       ELSE Return(t, "idle") /\ UNCHANGED <<probe_claimed_at, claimAt>>
    /\ UNCHANGED <<clock, state, opened_at, half_open_probes, is_open_fast,
                   window>>

\* The request's future is dropped, or it ends with an outcome that its caller
\* does not report.
Abandon(t) ==
    /\ At(t, "running")
    /\ Goto(t, "idle")
    /\ claimAt' = [claimAt EXCEPT ![t] = NoClaim]
    /\ UNCHANGED <<clock, shared, loc>>

\* record(): the clock is read, then the state, before anything is written.
Record(t, failed) ==
    /\ At(t, "running")
    /\ IF Enabled
       THEN /\ loc' = [loc EXCEPT ![t].now = clock, ![t].failed = failed]
            /\ Goto(t, "record_load")
       ELSE Return(t, "idle")
    /\ claimAt' = [claimAt EXCEPT ![t] = NoClaim]
    /\ UNCHANGED <<clock, shared>>

RecordLoad(t) ==
    /\ At(t, "record_load")
    /\ Goto(t, CASE state = "Closed" -> "record_closed"
                 [] state = "Open" -> "record_open"
                 [] state = "HalfOpen" -> IF loc[t].failed THEN "trip_state" ELSE "close_state")
    /\ UNCHANGED <<clock, shared, loc, claimAt>>

\* The sample pushed under the window lock, stale samples evicted.
Sampled(t) == Evict(Push(window, loc[t].failed, loc[t].now), loc[t].now)

RecordClosed(t) ==
    /\ At(t, "record_closed")
    /\ window' = Sampled(t)
    /\ Return(t, IF ShouldTrip(Sampled(t)) THEN "trip_state" ELSE "idle")
    /\ UNCHANGED <<clock, state, opened_at, half_open_probes, probe_claimed_at,
                   is_open_fast, claimAt>>

RecordOpen(t) ==
    /\ At(t, "record_open")
    /\ window' = Sampled(t)
    /\ Return(t, "idle")
    /\ UNCHANGED <<clock, state, opened_at, half_open_probes, probe_claimed_at,
                   is_open_fast, claimAt>>

\* trip(): state, the clock, opened_at, half_open_probes, is_open_fast, in this order.
TripState(t) ==
    /\ At(t, "trip_state")
    /\ state' = "Open"
    /\ Return(t, "trip_now")
    /\ UNCHANGED <<clock, opened_at, half_open_probes, probe_claimed_at,
                   is_open_fast, window, claimAt>>

TripNow(t) ==
    /\ At(t, "trip_now")
    /\ loc' = [loc EXCEPT ![t].now = clock]
    /\ Goto(t, "trip_opened")
    /\ UNCHANGED <<clock, shared, claimAt>>

\* Mutant of TripOpened: the end of the cool-down stored in place of its start.
TripOpenedDeadline(t) ==
    /\ At(t, "trip_opened")
    /\ opened_at' = loc[t].now + OpenDuration
    /\ Return(t, "trip_probes")
    /\ UNCHANGED <<clock, state, half_open_probes, probe_claimed_at,
                   is_open_fast, window, claimAt>>

TripOpened(t) ==
    /\ At(t, "trip_opened")
    /\ opened_at' = loc[t].now
    /\ Return(t, "trip_probes")
    /\ UNCHANGED <<clock, state, half_open_probes, probe_claimed_at,
                   is_open_fast, window, claimAt>>

TripProbes(t) ==
    /\ At(t, "trip_probes")
    /\ half_open_probes' = 0
    /\ claimAt' = [u \in Threads |-> NoClaim]
    /\ Goto(t, "trip_mirror")
    /\ UNCHANGED <<clock, state, opened_at, probe_claimed_at, is_open_fast,
                   window, loc>>

TripMirror(t) ==
    /\ At(t, "trip_mirror")
    /\ is_open_fast' = TRUE
    /\ Goto(t, "idle")
    /\ UNCHANGED <<clock, state, opened_at, half_open_probes, probe_claimed_at,
                   window, loc, claimAt>>

\* close(): state, window, half_open_probes, is_open_fast, in this order.
CloseState(t) ==
    /\ At(t, "close_state")
    /\ state' = "Closed"
    /\ Return(t, "close_window")
    /\ UNCHANGED <<clock, opened_at, half_open_probes, probe_claimed_at,
                   is_open_fast, window, claimAt>>

CloseWindow(t) ==
    /\ At(t, "close_window")
    /\ window' = EmptyWindow
    /\ Goto(t, "close_probes")
    /\ UNCHANGED <<clock, state, opened_at, half_open_probes, probe_claimed_at,
                   is_open_fast, loc, claimAt>>

CloseProbes(t) ==
    /\ At(t, "close_probes")
    /\ half_open_probes' = 0
    /\ claimAt' = [u \in Threads |-> NoClaim]
    /\ Goto(t, "close_mirror")
    /\ UNCHANGED <<clock, state, opened_at, probe_claimed_at, is_open_fast,
                   window, loc>>

CloseMirror(t) ==
    /\ At(t, "close_mirror")
    /\ is_open_fast' = FALSE
    /\ Goto(t, "idle")
    /\ UNCHANGED <<clock, state, opened_at, half_open_probes, probe_claimed_at,
                   window, loc, claimAt>>

\* error_rate(): a reader evicts too.
ErrorRate ==
    /\ window' = Evict(window, clock)
    /\ UNCHANGED <<clock, state, opened_at, half_open_probes, probe_claimed_at,
                   is_open_fast, pc, loc, claimAt>>

Tick ==
    /\ clock < MaxClock
    /\ clock' = clock + 1
    /\ UNCHANGED <<shared, pc, loc, claimAt>>

\* The rest of a call, once begun.
Continue(t) ==
    \/ LoadOpened(t) \/ CheckElapsed(t) \/ CasState(t) \/ LostCas(t)
    \/ ClearMirror(t) \/ ProbeNow(t) \/ ProbeAdd(t) \/ ProbeStore(t)
    \/ ProbeSub(t) \/ ProbeLoad(t) \/ ProbeCas(t)
    \/ RecordLoad(t) \/ RecordClosed(t) \/ RecordOpen(t)
    \/ TripState(t) \/ TripNow(t) \/ TripOpened(t) \/ TripProbes(t) \/ TripMirror(t)
    \/ CloseState(t) \/ CloseWindow(t) \/ CloseProbes(t) \/ CloseMirror(t)

Finish(t) == Abandon(t) \/ \E failed \in BOOLEAN : Record(t, failed)

Next ==
    \/ Tick
    \/ ErrorRate
    \/ \E t \in Threads : Check(t) \/ Finish(t) \/ Continue(t)

Spec == Init /\ [][Next]_vars

(***************************************************************************)
(* Fairness: the clock runs, a call that began is executed to its end, and *)
(* requests keep coming: every idle caller eventually checks again.        *)
(***************************************************************************)
FairSpec ==
    /\ Spec
    /\ WF_vars(Tick)
    /\ \A t \in Threads : WF_vars(Check(t)) /\ WF_vars(Continue(t))

----------------------------------------------------------------------------
(* Properties *)

\* The incremental failure count kept by push, evict and clear is the number of
\* failed samples in the window, whatever order timestamps arrive in.
FailureCountExact ==
    window.failures = Cardinality({i \in 1 .. Len(window.entries) : window.entries[i].failed})

\* A HalfOpen breaker whose probes were all abandoned is not stranded: a later
\* caller takes over the claim, or the state is left.  (Claims made in the last
\* OpenDuration ticks before the clock's bound cannot expire and are excluded.)
ProbeLeaseRecovers ==
    (state = "HalfOpen" /\ clock + OpenDuration <= MaxClock /\ \A t \in Threads : pc[t] = "idle")
        ~> (state # "HalfOpen" \/ \E t \in Threads : pc[t] = "running")

\* An Open breaker sheds traffic for a bounded time: whatever order racing calls
\* stored opened_at in, a later check() leaves Open once open_duration is over.
\* (A cool-down that cannot end before the clock's bound is excluded.)
OpenRecovers ==
    (state = "Open" /\ clock + OpenDuration <= MaxClock /\ \A t \in Threads : pc[t] = "idle")
        ~> (state # "Open" \/ \E t \in Threads : pc[t] = "running")

\* When a cool-down has passed, at most half_open_max_probes callers hold claims that
\* are younger than the lease, out of any number that check() at once: the test that
\* races sixteen threads for one slot says so, and the comment that lets exactly one
\* caller take over an abandoned claim.  (Not so in the code: see the run breaker_probes.)
ProbeBudget ==
    clock - opened_at >= OpenDuration =>
        Cardinality({t \in Threads : claimAt[t] # NoClaim /\ clock - claimAt[t] < OpenDuration})
            <= MaxProbes

=============================================================================
