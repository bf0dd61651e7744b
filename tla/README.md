# A TLA+ development of Grok Privacy's agent runtime

Grok Privacy is a Rust CLI, terminal UI and agent runtime. Most of its 3700 files are rendering,
protocol adapters, file-system work and vendored code. This directory models the parts whose
correctness is a matter of *control*: actors and atomics that several parties drive at once.
The modules are TLA+, the `.cfg` files are TLC instances, and the `...Proofs` modules hold proofs for TLAPS.
`PROJECT.json` maps every definition to the source lines it models.

Paths below are relative to `src/crates/`; `task/` and `scheduler/` are
directories of `codegen/xai-grok-tools/src/implementations/grok_build/`.

## 1. Inventory

| Component | State | Operations | Interactions | Hard behaviour | What makes it correct |
|---|---|---|---|---|---|
| Circuit breaker (`common/xai-circuit-breaker`) | six atomics, a window under a mutex | `check`, `record`, `is_open`, `error_rate` | called by every upload and storage request on any thread; a caller may vanish between `check` and `record` | lock-free interleavings, probes whose owner was dropped, counter wrap-around | exact failure count, a counter that wraps within its width, never stranded in Open or HalfOpen, probe budget kept (it is not, see Findings) |
| Subagent coordinator (`task/coordinator*.rs`, `task/admission.rs`) | maps pending, active, completed; the spawn queue; parked callers, turns, deletes and cancels; blocked sessions | spawn, start, finish, cancel (id, prompt, session, run), teardown, reopen, query, drain, deadlines | commands from tools, sessions and workflows; run futures of the runner; tokens and receivers shared with callers | handlers that call one another, callers that leave, Stop against late spawns, deadlines against results | slot limit, no idle slot, FIFO per session, every caller answered once, every parked party released |
| Active messages (`task/active_message.rs`, `task/coordinator/active_message.rs`) | a lease per message, a lifecycle per child, parked sends, permits | send, claim, commit, revoke, terminalize, expire | between the coordinator and a running child | claim against deadline, terminalization with admissions in flight | the outcome told to the sender matches whether the message was inserted |
| Message delivery core (`common/xai-message-delivery-core`) | one lifecycle per message | validated transitions | used by the senders | duplicated and late transitions | a final state is final |
| Scheduler (`scheduler/actor.rs`, `scheduler/types.rs`, `codegen/xai-grok-tools/src/persistence.rs`) | the task list in the shared resources, a version clock, one pending removal, blocked expiries; the writer's channel, its pending snapshot, the state file | create, update, delete, expire, fire, stop; save, flush, debounce | tools save the same resources at any time; a consumer acknowledges removals; loops run as subagents of the coordinator, and a guard per iteration edits the list | waits inside a handler, time-outs against late answers, older snapshots behind newer ones, a crash between flush and acknowledgement | an acknowledged removal is final, a held version stays valid, a loop's iterations do not overlap and do not mix prompts, every handler returns |
| Monitor (`.../monitor`) | token bucket, watched command | event, refill, stop | floods the session with events | overflow at the limit | suppressed events are reported |
| Upload queue (`codegen/xai-file-utils/src/queue.rs`) and its recovery (`codegen/xai-grok-workspace/src/recovery.rs`) | pairs of temporary file and sidecar, a bounded channel, permits, counters, marks of destinations in flight | enqueue, dispatch, attempt, park, settle, drain, abort, recover, clean up | callers on any thread, one worker with a task per item, recovery beside them, the storage service | a crash between two files, refused credentials, a full queue, two items for one pair | an upload that was taken is stored, given up by a rule or still on disk; counters and marks are exact; a drain ends |
| Interjections, prompt queue (`common/xai-interjection-core`, `codegen/xai-prompt-queue`) | buffers of one session | push, drain, combine | between UI and turn loop | input while a turn ends | nothing typed is lost |
| Computer hub SDK (`common/xai-computer-hub-sdk`) | a connection, in-flight calls, admission | connect, call, cancel, reconnect | remote service | reconnects, late answers | each call resolved once |
| Workflow engine (`codegen/xai-workflow`) | script state, a journal | run, replay, cancel | spawns agents through the coordinator | replay after restart | same decisions on replay |
| Sampler, chat state, hunk tracker, file watching, active sessions | see `PROJECT.json` | | | | |
| Shell, hooks, MCP, ACP, workspaces, UI, update, telemetry | see `PROJECT.json` | | I/O | | not modelled |

The hazards, each at its line and with the properties that would catch it, are in `PROJECT.json`.

## 2. Modules

| Module | Models | State and actions |
|---|---|---|
| `CircuitBreaker` | `breaker.rs`, `window.rs` | one variable per atomic; `pc[t]` names the next atomic access of caller `t`, and each access is an action. `claimAt` is a ghost: the claim a caller holds on a slot that the counter counts |
| `CircuitBreakerProofs` | theorems about the breaker | |
| `SubagentCoordinator` | the actor | one record `co`; one action per iteration of `run` |
| `QueueSweep` | the loop of `start_queued_within_capacity`, one action per pass | extends `SubagentCoordinator`, compared with its closed form |
| `SubagentCoordinatorProofs` | types, slots and the order of the queue | |
| `SubagentRecordsProofs` | callers, runs, completions and waiters; Stop and first in, first out. Extends the former | |
| `QueueSweepProofs` | the loop computes the closed form | |
| `MessageVerdict` | what the sender of a message may rely on (abstract) | inserted messages, one verdict each |
| `ActiveMessages` | messages to running subagents: sender, coordinator, child session, child worker | per message `stage`, `lease`, `outcome`, `host`; per child its lifecycle; one action per event or atomic access |
| `ActiveMessagesProofs` | refinement, clean children and budgets of the above | |
| `Scheduler` | the scheduler's actor, the writer of the state file, what it sees of loop iterations | `tasks`, `clock`, `pending`, `blocked`; `job` is the handler that waits and where; `chan`, `buffer`, `disk` are the writer; `sub`, `guards` the iterations. `acked` is a history variable |
| `SchedulerProofs` | types, removals and versions of the scheduler | |
| `SchedulerLoopProofs` | the loops of the scheduler. Extends the former | |
| `UploadQueue` | the upload queue and the recovery of spilled uploads | per file its halves on disk and in the storage; per item its stage; the worker, the counters, the marks, the scan of recovery. `owed` is a history variable |
| `UploadQueueProofs` | theorems about the upload queue and recovery | |
| `MC...` | request menus and symmetry sets for TLC | |

**Circuit breaker.** `check()` loads the state and dispatches; `check_open` loads `opened_at`, reads
the clock, tries the CAS, clears the mirror; `try_half_open_probe` adds to the counter, stores the
claim time or gives back and tries to take over an expired claim; `record` reads the clock, loads the
state, samples under the window's lock, and trips or closes store by store in the code's order. The
counter is a `usize`: it wraps modulo `CounterMod`. Time is a tick counter that never goes back.
The atomics are `Acquire`/`Release`, modelled as sequentially consistent; weaker outcomes would only
add to the races already found. Any two calls may overlap at every access; `Abandon` is a request whose future
is dropped or whose outcome its caller does not report, as in `storage_client.rs`.

**Coordinator.** The actor handles one event without yielding, so an action is one iteration: the
handler, everything it calls, then `Settle` (turn waiters resolved, completed records evicted).
Commands first reap callers that left. Handlers call one another (removing a queued spawn finishes
it, finishing sweeps the queue, the sweep finishes cancelled entries), so each is an operator
from state to state and the actions compose them. `phase` replaces the per-phase maps; the
queue is `ahead[i]`, the ids in front of `i`, which makes "start as many of each session as fit, in
arrival order" the set `Startable` instead of a loop. That the loop computes that set is what
`QueueSweep` checks. What interleaves with the actor: callers that drop their receiver, tokens
cancelled from outside, query callers that leave, run futures, deadlines.
`told`, `torn` and `notified` are history variables.

Abstractions: ids are reused once their completed record is evicted; prompts are `"p"` and `"q"`; results
are told apart only as cancelled or not; whether a message admission is in flight when a run ends is an
input (`busy`), settled later by `AdmissionSettles`; several blocking queries of one id count as one.

**Active messages.** A sender takes a permit and enters the ingress. The coordinator parks the message
while the child starts (giving the permit back), refuses it, or opens a lease and hands it to the child's
session, which claims the lease with a CAS, inserts, and stores Committed; these three are separate actions
because the session has its own thread. `Poll` chooses the answer, the cancellation or the deadline,
in the code's order; `FinishActiveMessage` then looks at the lease, so a session that claims in between is
seen. `settle`'s load and CAS are one step: a lease that leaves Open never returns to it. A worker closes
admission with `AskFinalizing` and may time out; a run that ends with admissions in flight is buffered in
`terminal`. `Shutdown` is the coordinator's `Drop`. A child is only starting, active or completed here, and a
queued child counts as starting; deadlines may fire at any time after they are armed, in order for parked messages. A
refusal by the session (identity already present, steer slots full, channel closed) is a free choice.

**Scheduler.** The actor handles one command or one due task at a time, but a handler waits: for the writer to
flush, for the consumer to acknowledge, for the coordinator to answer. `job` records where, for whom and with
which reservation, and what it waits for is a step of somebody else; each wait also has the step in which
the actor gives up (`FlushGivenUp`, `NotAcknowledged`, `LoopSkipped`: cancellation and time-out). The writer
takes its channel in order; a save replaces its pending snapshot, a flush supersedes it and may report an
error although the file was renamed (the directory is synchronised afterwards), a tick writes it or drops it. `Crash` may happen
at any step and leaves the state file. Versions are a generation and a revision of bounded width: `Reserve` rolls
over when the reservation does not fit. Times are abstracted to "due" and "expired"; refused commands change
nothing and are not actions. Of a loop iteration the model keeps its state, its prompt, the prompt its
transcript began with, the transcript's length, and whether descendants of it run.

**Upload queue.** A file name is unique, so an upload is its file; all have size 1. An item is a file and its
origin, its caller or recovery, because recovery lists the pairs of live callers too. The caller's steps
(duplicate check, temporary file, budget, sidecar; counters; hand-over or its undoing) are three actions, as the worker and
recovery can run in between; the worker receives, waits for a permit, spawns; an item tries, parks without
its permit, wakes, wins or is given up, then removes its temporary file, its sidecar, and settles. `Abort` ends the
tasks that wait somewhere; one that is removing its files has no further wait and finishes. `Dies` keeps the
files; `LosesPower` may tear any temporary file (it is written without synchronisation) and drop any sidecar. A
temporary file without a sidecar is never read by a later process and is forgotten there.

## 3. Runs

All bounds are in the cfg files. Three ids with one slot are the smallest instance in which one child
runs, one waits and one overtakes, is cancelled or arrives late; two sessions show that they do not
interfere. Eviction needs a cap below the number of ids. Two callers and one probe slot
are the smallest instance in which the slot, each atomic and the order of `trip` and `close` are contended; a window of
two samples is the smallest in which the cap evicts one of several. Cool-down and lease last one tick and the clock two, so that
one can pass, begin again and pass again, and a claim or a trip can be read a lease too late.

| Run | Shows |
|---|---|
| `breaker_race` | with every interleaving of two callers: the counter wraps within its width, the failure count is exact, and neither an Open breaker nor one whose probes were dropped sheds traffic for ever |
| `breaker_probes` | the first finding below |
| `coordinator_queue` | slots, queue order, answers, runs and the Stop barrier with fickle callers, cancelled tokens and evicted records, when the limit queues and when it refuses |
| `coordinator_owners` | nested Tasks and workflow agents of a session that is stopped, torn down and reopened |
| `coordinator_release` | a caller is answered once; a waiting turn is released by timers alone; queued spawns leave the queue if runs end |
| `queue_sweep` | the sweep's loop against `Startable`, from every small queue |
| `messages_one` | three messages to one child with two slots: refinement of `MessageVerdict`, quiet clean children, exact counters and permits |
| `messages_fair` | one permit, two children (one of a workflow), a foreign sender: everyone is answered by timers alone |
| `scheduler_removal` | removals, expiries and fires of three tasks against saves, failing flushes, time-outs, lost consumers, shutdowns and crashes |
| `scheduler_loop` | a loop whose prompt is patched while iterations run, fail, leave descendants or cannot be sent |
| `scheduler_loop_unit` | the second finding below |
| `upload_queue` | two uploads of the same content, one of them durable, with one channel slot, permit and byte, across a crash, a loss of power, a drain or its abort |

Three messages and two slots are the smallest in which two admissions are in flight and a third
is refused, parked or arrives while the child finalizes.

The scheduler's tasks are one of each kind: durable and expiring, expiring only, one-shot. Revisions end at 2, so
that every second transition rolls over, and two generations suffice because only the current one is compared.
Two requests in the writer's channel are the smallest in which a save is in front of a flush or behind it. The
loop runs need three subagents for a chain of two and a third beside it, and no saves. A channel, permits and a budget
of one make every limit bite with two uploads; two processes are one restart.

The message runs have deadlock checking off too: once every message is answered the system rests.
`queue_sweep` and `upload_queue` run with deadlock checking off because the sweep and the work end. Symmetry is used
only where ids or callers are interchangeable and no liveness is checked.

**Fairness.** `FairSpec` of the breaker: the clock runs, a call that began goes on, and an idle caller
checks again (`ProbeLeaseRecovers` and `OpenRecovers` are about a breaker that still gets requests). It does not ask
that a probe is ever recorded. `TimerSpec` of the coordinator: the `select!` loop polls its timers and the callers'
channels, so an armed deadline does not stay armed, and an abandoned caller or a cancelled
queued spawn does not stay unnoticed (`QUEUED_REAP_INTERVAL`). No run has to end under it.
`RunsEnd`: run futures resolve and admissions settle, which cancellation, panics and the runner's
own limits bring about; it is assumed only for `QueueDrains`. `FairSpec` of the messages: the coordinator
takes what is in its channels, polls its admissions and fires its timers. Its `select!` is biased, so this
rests on the channels of higher priority running empty, which they do: a child sends a bounded number of
internal events. Nothing is assumed of sessions and runs. `FairSpec` of the scheduler: a handler that can go on by
itself (the lock is free, the answer is there, its timer ran out) does; nothing is assumed of the writer, the consumer and
the coordinator. `FairSpec` of the upload queue: callers, the dispatch loop and every item's task go on, and an attempt
comes back (the HTTP client has time-outs). Permits need strong fairness: the dispatch loop competes with
items that wake, and tokio's semaphore serves in the order of asking. Nothing is assumed of credentials,
age or recovery.

**Findings.** `try_half_open_probe` claims a slot by `fetch_add` (`breaker.rs` 279) and stores the time of the claim in
a later instruction (281-283). A caller refused in between loads the time of an older claim, or 0 if there was none (299),
finds the lease over, wins the exchange (300-308) and is let through; so is the winner of the slot. The comment at 292-295
lets "exactly one caller" take over a claim "older than `open_duration`", and the test `cas_loss_recovery_with_mock_clock`
races 16 threads for "one probe slot; exactly one Ok overall" (`half_open.rs` 152-153, asserted at 170). `ProbeBudget` fails in
`breaker_probes` in the test's own scenario, with two threads: a failure trips the breaker, the call returns, the cool-down
passes, both check. It counts claims younger than the lease, so a slow probe beside its replacement, which the
comment allows (295-297), is not what fails.

A loop fire asks the coordinator about the previous iteration and about descendants only if the
task has an anchor (`actor.rs` 562 and 622). The guard of an iteration clears the anchor when the iteration
ends in an error (746-772; a loop's spawn gets its terminal result there, `spawn.rs` 21-30), and descendants it
left behind are then no longer asked about: the next fire runs beside them. The changelog of `xai-grok-shell` (line 753) says
iterations "no longer overlap when descendant subagents are still running", and a test
(`descendant_still_running_skips_fire`) covers the case of an iteration that succeeded. `OneUnit` fails in
`scheduler_loop_unit`; `OneUnitUnlessFailed` holds in `scheduler_loop`.

**Observations** that no run states as a property, but that shape the models:

* The breaker's mirror: `trip`, `close` and `check_open` each store the state and `is_open_fast` in two instructions
  (249-251 and 257 for `trip`). A check that overlaps a trip can clear the mirror before the trip sets it, and `is_open()` then
  answers TRUE for a HalfOpen breaker after both calls returned; the comment at `breaker.rs` 41-44 calls it a mirror of
  `state == Open`. Only `storage_breaker_is_open` of `storage_client.rs` reads it, for tests.
* The cool-down: `trip` stores Open (249-251) before `opened_at` (252-254), so a check in between measures from an earlier
  trip, or from the breaker's creation, and half-opens at once. What remains true of racing calls is that Open
  ends (`OpenRecovers`).
* The reset of the probe counter: `trip` zeroes it (255) after it published Open. A second thread that has half-opened and claimed
  by then loses its claim to the reset, and another probe is admitted; the comment at 211-217 assumes that
  nothing is claimed before the zero is stored. A fetch_sub that lands after a reset wraps the counter, which then
  admits by the lease only (`TypeOK`, `ProbeLeaseRecovers`).
  TLC finds each of these three in the instance of `breaker_race`; a property that says otherwise would be false, so none does.
* A spawn whose parent child has already finished is no longer re-parented, so the stop of the
  grand-parent session does not refuse it; `StopBarrier` is about a session's own spawns.
* Recovery runs detached beside live callers (`xai-grok-shell/src/upload/trace.rs` 1170-1200) and queues a second item
  for a pair that one of them has just written. Whichever settles first removes the files; the other
  finds its file gone, sizes itself as 0 and gives nothing back, so `pending_bytes` may stay too high. `CountersSound` asks for
  equality of `pending` and for a bound of `pending_bytes` from below.
* A one-shot task is announced as fired and removed in memory only; a crash before the next save fires it again.

## 4. Proofs

Every invariant and action property that a passing run checks, and the refinement, is also a theorem, for every value of the
constants. Liveness is not (see the end of this section). Each inductive invariant was first checked by TLC on the instance of a run.

### The coordinator

`SubagentCoordinatorProofs` proves, for any finite set of ids, any sessions, runs, request sets and any
limit, under `CoordinatorAssumption`:

* `TypeCorrect`: `Spec => []TypeOK`;
* `SlotsBounded`: `Spec => []SlotBound`, no session executes more Task children than the limit;
* `SlotsNeverIdle`: `Spec => []NoIdleSlot`, a queued spawn's session has no free slot.

Neither slot property is inductive. The invariant `Full` adds that `ahead` restricted to queued ids is
a strict total order (`QueueOrder`) and that only Tasks queue (`QueuedAreTasks`): the sweep decides by
rank in that order, and without it two spawns could have the same rank and both take the last slot.
The argument: in a finite strict order ranks are distinct (`RankInjective`), so at most *k* elements
have a rank below *k*, and exactly *k* unless all do (`FirstInOrder`). Hence the spawns that
`Startable` picks never exceed a session's free slots and fill them if one stays behind
(`StartableFits`). `StartQueuedFull` concludes that the sweep restores the whole
invariant from the weaker `Core` that finishing children preserves (`FinishAllCore`), and one lemma per
handler composes these.

`SubagentRecordsProofs` goes on from there, under the same assumption:

* `CallersAnswered`, `RunsMatch`, `DeliveriesOnce`, `TeardownsSilent`, `WaitersRemembered`: `Spec => []P` for
  `CallerNotStranded`, `RunsMatchChildren`, `DeliveredOnce`, `TornDownStaysSilent` and `NobodyForgotten`;
* `StopHolds` and `QueueFifo`: the action properties `StopBarrier` and `QueueIsFifo`.

The invariant `TidyInv` has one part for each of the five, stronger than the property: a caller that waits has an open
reply and a live record (`CallersHeld`); exactly the executing children have a run or a buffered output, never both
(`RunsFit`); what was told or notified is of a completed child, and a handle-only child with an open reply was
spawned in the background (`DeliveryFits`); a torn-down child has lost its right to surface while it lives (`SilentFits`);
parked waiters and torn-down sessions have something alive, and such a session is blocked (`WaitersFit`). It does not hold in the middle of a
handler: a spawn under admission has a caller and no record, hence the parameter `X` of its parts, and waiting turns are answered only by
`Settle`. So each building block (`Removed`, `FinishAll`, `StartAll`, `StartQueued`, the cancellations, the reaping of callers) has a lemma about
what it makes of a state, and each action is a composition of them. The action properties need a relation between the states before
and after: `Later` says that children only move forward and that the order of the queue is kept, and is transitive along
the blocks of a handler; `Step` adds the barrier and the order of departure of the whole iteration.

`QueueSweepProofs` proves, for queues of any length, any sessions and any limit:

* `SweepMatches` and `SweepOrders`: `SweepMatchesClosedForm` and `SweepKeepsOrder` in every state of the loop;
* `SweepComputes`: no pass changes `StartAll(co, Startable(co))`, and at the end `co` is that state. So the closed form in
  `SubagentCoordinator` is the loop of the source, and what is proved of the one holds of the other.

The invariant `SweepInv`: every queued spawn is in one of three lists, which are ordered as the queue was; what was kept is in
front of what remains, and its session is full and stays so, since starts only add. Hence nobody competes with an
entry at the front whose session has room (`FrontDecided`), and a start takes from each spawn behind it a competitor and a
slot at once (`StartableLeft`).

### Messages

`ActiveMessagesProofs` proves, for any finite set of messages, any children and any capacities, under
`ActiveMessagesAssumption`:

* `PromiseKept`: `Spec => KeepsPromise`, the protocol implements `MessageVerdict`. The invariant `LeaseInv`
  ties, per message, the stage to the lease (none before the admission), the session's progress to the lease
  (it inserts only while it holds the claim), and the outcome to the lease (Accepted only if
  Committed; a refusal only if there is no lease or it is Revoked). Every step keeps it and tells nobody twice
  (`StepLease`); then a step that inserts is the abstract `Insert` (`InsertMaps`) and any other is `Resolve`
  (`AnswersMap`).
* `CleanChildrenQuiet`: `Spec => [](CleanIsQuiet /\ UncertainNotHidden)`. A worker is told "clean" by a counter
  and a flag, so `CleanInv` adds that `in_flight` counts the messages in flight (`Counted`, by the
  cardinality lemmas `CountSame`, `CountMore`, `CountLess`), that an undecided lease left behind is
  on record as a doubt (`DoubtRecorded`), and that a clean child takes nothing further (`CleanIsClosed`).
* `NobodyLeftBehind`: `Spec => []NoneLeftBehind`, and `DoubtNotHidden`: `Spec => []UncertainNotHidden`, parts of the same invariant.
* `BudgetsHold`: `Spec => []BudgetsExact`, and `TypeCorrect`. `BudgetInv` adds that a permit is free or held by a message in the
  ingress or in flight (`PermitsExact`) and that parked messages of a child are in a strict line (`InLine`). When a child becomes
  active, those with fewer in front of them than there are permits and slots are admitted together, and the rank argument of the
  coordinator's queue bounds how many these are.

### The scheduler

`SchedulerProofs` proves, for any finite set of tasks, any prompts, subagents, limits and any contents of the
writer's channel, under `SchedulerAssumption`:

* `TypeCorrect`: `Spec => []TypeOK`. With `ReserveFits` and `CommitOne` it says that no revision passes the width, also when
  several versions are committed at the end of a generation.
* `RemovalsFinal`: `Spec => []RemovedForGood`. An acknowledgement is given after a flush was answered, and other snapshots are in
  the writer's channel before and behind that flush. `AwaitedOK` says that at most one entry is awaited, and that from it
  on no entry has the task: what is in front of it is superseded by it, what is behind was
  taken after the removal. So when the answer is "ok" the task is absent everywhere (`FlushMakesAbsent`), and `AbsentOK` keeps it
  absent: ids are not reused (`born`), a removed task is put back only by the very handler that removed it, and
  that one does not report it. A flush whose handler gave up is no longer awaited and so proves nothing to anybody.
* `AssertionsHold`: `Spec => []ReservationsFresh`. `FreshOK` says that a held reservation, of the handler or of a pending removal,
  is for the clock as it is; `JobOK` says that never both are held by different parties; `SizeOK` bounds every list a
  restart could load.

The invariant is the conjunction of these with `TypeOK`. To keep one proof per action short, `EffectStep` first
reduces the actions to what they may do to lists, acknowledgements, the pending removal and the handler.

`SchedulerLoopProofs` adds, under the same assumption:

* `UnitsApart`: `Spec => []OneUnitUnlessFailed`;
* `ChainsFit`: `Spec => []ChainsKeepPrompt`.

Neither is inductive, because a fire asks about the unit in one step and sends its request in a later one. `AnchorsOK` says
that a task's anchor is its only iteration that may be busy without having failed, that this holds too of the task an expiry may put back, and
that a handler about to send knows of none. `BusyOK` says that nothing is busy once the coordinator is gone, and that an
iteration whose error is still to be noticed has failed, so that clearing the anchor for it loses nothing. `ChainsOK` says that the transcript of an anchor
is of the task's prompt and no longer than the task's count, unless the chain is to be reset, also for the copy that a waiting handler holds. The steps are
grouped by what they do to lists and handler (`BreaksInv`, `FiresInv`, `WaitsInv`), and those that move iterations have a lemma each.

### The upload queue

`UploadQueueProofs` proves, for any finite set of files, any destinations, capacities, thresholds, attempts and number of processes, under
`UploadQueueAssumption`: `TypeCorrect`, `UploadsSurvive` (`DurableSurvives`), `NeverTorn` (`NothingTornStored`), `CountersExact`
(`CountersSound`) and `NoMarkLeft` (`MarksHeld`).

A live item and recovery's item of the same file rely on the same pair on disk. `OweOK` is what makes that safe: an item that
removes files has stored the upload, or nobody is owed it any more. `ScanOK` says that recovery queues a file at most once in a process, so that
a file has at most two items; `ChanOK` that each queued item is in the channel once, so that receiving it moves one item; `DiskOK` that nobody works
on a torn file; `CountedOK` that an item whose hand-over fails gives back what it took. `pending` is
counted with the library's cardinality theorems: each step adds an unsettled item, settles one, or neither, and a crash leaves none.

### The circuit breaker

`CircuitBreakerProofs` proves, for any set of callers, any limits and any bound of the clock, under `BreakerAssumption`:

* `TypeCorrect`: every atomic and local stays in its type under any interleaving, the wrapping counter included;
* `CountExact` (`FailureCountExact`): pushing, evicting at the cap and pruning keep the window's
  count in step with its entries, also when timestamps are out of order. That a prefix of the window is
  dropped is a fact about the sum over a sequence, which the proof gets from cardinalities of index sets instead of an induction.

The invariant is the conjunction of the two, and inductive as it is: a push or an eviction needs the window's type to
count its entries. Nothing is proved of the probe budget, which does not hold (see Findings).

### Assumptions

They are the named `ASSUME`s of the modules, evaluated by every run. For the proofs two say more than the runs need: the probe limit
is below the modulus of the counter, as both are a `usize`; the names `"due"` and `"done"`, which mark the state of
recovery's scan, are not files. Nothing bounds the number of ids, messages, tasks or files except that they are finite.

### Only model-checked

Liveness, since the prover handles neither fairness nor `ENABLED`: `ProbeLeaseRecovers`, `OpenRecovers`, `TurnReleased`, `QueueDrains`, `SenderAnswered`,
`BufferedChildFinishes`, `HandlerReturns`, `DrainEnds`.

## 5. Not modelled

Of the coordinator: usage-not-applied marks, the cap of buffered completions, read-only replies (list,
inspect, describe, validate, counts, progress), the acknowledgement of a registration,
the exit on a closed command channel and `Drop`, commands that name a foreign session. Of the breaker: the
observer, configuration parsing, the registry, status classification. Of the scheduler: the list command and the
announcements at start (read-only), the wait for subagent wiring, a session without a state file or whose writer
has stopped, and the occurrence journal, a part of the persisted state that no code outside its own tests writes.
The loop instances have no saves, so a restart there finds the loop as it was at first. Of
the upload queue: the enqueue variants for files and blocking callers (nothing in the repository calls them),
compression, informational statistics, `wait_idle` (read-only), the purge when uploads are disabled, the
validation of a sidecar's fields, the worker's exit when all handles are dropped. The rest of the runtime is listed
with reasons in `PROJECT.json`.

## 6. Plan

1. Proofs: the safety part is complete for the modules at hand. A further step is an abstract specification of the
   scheduler's removals and of the durable uploads (accepted, then stored or given up), refined by `Scheduler` and `UploadQueue` as
   `MessageVerdict` is by `ActiveMessages`.
2. `MessageDelivery`: what the child's session does with an inserted message (queued or steered, drained at a
   safe point, settled at teardown), from `xai-message-delivery-core` and `parent_message.rs`; a composition of
   `ActiveMessages` with the coordinator in place of `busy`, and of the scheduler's loops with the coordinator.
3. Monitor's rate limiter as a pure algorithm against a reference; interjections and the prompt queue.
