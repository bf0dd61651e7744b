----------------------------- MODULE Scheduler -----------------------------
(***************************************************************************)
(* The scheduler of recurring and one-shot tasks: scheduler/actor.rs and   *)
(* scheduler/types.rs of xai-grok-tools, with the state file's writer      *)
(* (persistence.rs).                                                       *)
(*                                                                         *)
(* The actor handles one command or one due task at a time, but inside a   *)
(* handler it waits: for the writer to flush the state file, for the       *)
(* consumer of notifications to acknowledge a removal, for the subagent    *)
(* coordinator to tell about the previous iteration of a loop.  While it   *)
(* waits, tools save snapshots of the shared resources, the writer works   *)
(* through its channel, iterations end and the guards of failed ones edit  *)
(* the task list.  A crash loses everything but the state file.            *)
(*                                                                         *)
(* Times are abstracted to the facts the actor derives from them: a task   *)
(* is due, or has outlived its expiry.  Commands that are refused change   *)
(* nothing and are not actions.  Which of several due tasks comes first    *)
(* (their order in the list) is left open.                                 *)
(***************************************************************************)
EXTENDS Integers, Sequences, FiniteSets, Functions

CONSTANTS
    Ids,            \* task ids: fresh UUIDs, never used twice
    Prompts,
    Recurring, Durable,     \* tasks with these flags
    Expiring,       \* recurring tasks with an expires_at
    Consumers,      \* whether the session has an acknowledging consumer of notifications
    Loops,          \* recurring tasks that fire as subagents: not foreground, background
                    \* loops enabled, the session wired to a coordinator
    Restored,       \* tasks in the state file when the model starts
    Subs,           \* subagent ids
    FreshEvery,     \* LOOP_FRESH_CHAIN_EVERY
    MaxTasks,       \* MAX_SCHEDULED_TASKS
    MaxRev,         \* u64::MAX
    Gens,           \* generations of versions
    MaxQueued,      \* bound: requests in the writer's channel when another one is begun
    None

ASSUME SchedulerAssumption ==
    /\ IsFiniteSet(Ids) /\ Prompts # {} /\ None \notin Ids \cup Subs
    /\ Recurring \subseteq Ids /\ Durable \subseteq Ids
    /\ Loops \subseteq Recurring /\ Expiring \subseteq Recurring
    /\ Consumers \subseteq BOOLEAN /\ Consumers # {}
    /\ Restored \subseteq Ids /\ Cardinality(Restored) <= MaxTasks
    /\ FreshEvery \in Nat \ {0} /\ MaxTasks \in Nat /\ MaxQueued \in Nat
    /\ MaxRev \in Nat /\ MaxRev >= 2 /\ MaxRev >= MaxTasks
    /\ Gens # {} /\ \A g \in Gens : \E h \in Gens : h # g

VARIABLES
    tasks,          \* SchedulerState.tasks: a record for every task in memory
    born,           \* the ids used so far
    due, expired,   \* next_fire_at and expires_at have passed
    clock,          \* SchedulerClock
    pending,        \* pending_removal, or None
    blocked,        \* blocked_expiries
    job,            \* the handler that is waiting
    targets,        \* an acknowledging consumer is alive
    acked,          \* removals reported as durable
    chan, buffer, disk,     \* the writer: its channel, its pending snapshot, the state file
    coord,          \* the coordinator's channel is open
    sub, guards     \* the iterations, and those whose error result is on its way

writer == <<chan, buffer, disk>>
loops == <<coord, sub, guards>>
vars == <<tasks, born, due, expired, clock, pending, blocked, job, targets, acked, writer, loops>>

Task == [prompt : Prompts, anchor : Subs \cup {None}, iters : 0 .. FreshEvery, reset : BOOLEAN]
Lists == UNION {[S -> Task] : S \in SUBSET Ids}
Version == [gen : Gens, rev : 0 .. MaxRev]
Reservation == [source : Version, gen : Gens, next : 1 .. MaxRev]
Entries == [kind : {"save", "flush"}, snap : Lists, awaited : BOOLEAN]
States == {"free", "sent", "running", "completed", "failed", "gone"}

\* A handler: where it waits, on whose behalf, with which reservation, the task as it was
\* when the handler began, the writer's answer, and whether the anchor can be resumed.
Job(pc, why, t, old, res) ==
    [pc |-> pc, why |-> why, task |-> t, old |-> old, res |-> res,
     answer |-> "none", usable |-> FALSE]
Idle == Job("idle", "none", None, None, None)
Pcs == {"idle", "stopped", "persist", "flush", "publish", "query", "unit", "spawn", "restore"}
Jobs ==
    [pc : Pcs, why : {"none", "delete", "expire", "lapse", "loop"},
     task : Ids \cup {None}, old : Task \cup {None}, res : Reservation \cup {None},
     answer : {"none", "ok", "error"}, usable : BOOLEAN]
Iterations ==
    [state : States, task : Ids \cup {None}, prompt : Prompts, first : Prompts,
     len : Nat, brood : BOOLEAN]

TypeOK ==
    /\ tasks \in Lists /\ disk \in Lists
    /\ born \subseteq Ids /\ due \subseteq Ids /\ expired \subseteq Ids
    /\ clock \in Version
    /\ pending = None \/ pending \in [task : Ids, res : Reservation]
    /\ blocked \subseteq Ids /\ acked \subseteq Ids /\ targets \in BOOLEAN /\ coord \in BOOLEAN
    /\ job \in Jobs
    /\ chan \in Seq(Entries)
    /\ buffer = None \/ buffer \in Lists
    /\ sub \in [Subs -> Iterations]
    /\ guards \subseteq Subs

New(p) == [prompt |-> p, anchor |-> None, iters |-> 0, reset |-> FALSE]
AnyPrompt == CHOOSE p \in Prompts : TRUE
Unused == [state |-> "free", task |-> None, prompt |-> AnyPrompt, first |-> AnyPrompt,
           len |-> 0, brood |-> FALSE]

Init ==
    /\ disk = [t \in Restored |-> New(AnyPrompt)]
    /\ tasks = disk
    /\ born = Restored /\ due = {} /\ expired = {} /\ acked = {}
    /\ clock = [gen |-> CHOOSE g \in Gens : TRUE, rev |-> 0]
    /\ pending = None /\ blocked = {} /\ job = Idle
    /\ targets \in Consumers /\ coord = TRUE
    /\ chan = <<>> /\ buffer = None
    /\ sub = [s \in Subs |-> Unused] /\ guards = {}

----------------------------------------------------------------------------
(* Versions *)

\* A generation that is not the clock's: a new UUID.
FreshGen == CHOOSE g \in Gens : g # clock.gen

\* Mutant of Reserve: only room for the first of the n versions is looked for.
ReserveOne(n) ==
    IF clock.rev + 1 > MaxRev
    THEN [source |-> clock, gen |-> FreshGen, next |-> 1]
    ELSE [source |-> clock, gen |-> clock.gen, next |-> clock.rev + 1]

\* prepare_transition: n consecutive versions, of a new generation if this one has no room.
Reserve(n) ==
    IF clock.rev + n > MaxRev
    THEN [source |-> clock, gen |-> FreshGen, next |-> 1]
    ELSE [source |-> clock, gen |-> clock.gen, next |-> clock.rev + 1]

\* commit_next, n times.  It asserts clock = res.source: ReservationsFresh.
Commit(res, n) == clock' = [gen |-> res.gen, rev |-> res.next + n - 1]

With(f, t, r) == [x \in DOMAIN f \cup {t} |-> IF x = t THEN r ELSE f[x]]
Without(f, t) == Restrict(f, DOMAIN f \ {t})
Enqueue(kind, snap, awaited) ==
    chan' = Append(chan, [kind |-> kind, snap |-> snap, awaited |-> awaited])

\* The actor is in its select loop.
Selecting == job.pc = "idle"

\* The channel is unbounded; this bounds the model.
Room == Len(chan) < MaxQueued

----------------------------------------------------------------------------
(* Commands *)

\* Mutant of Create: accepted while a removal is pending.
CreateAnyway(t, p) ==
    /\ Selecting /\ t \in Ids \ born
    /\ Cardinality(DOMAIN tasks) < MaxTasks
    /\ tasks' = With(tasks, t, New(p))
    /\ born' = born \cup {t}
    /\ Commit(Reserve(1), 1)
    /\ UNCHANGED <<due, expired, pending, blocked, job, targets, acked, writer, loops>>

Create(t, p) ==
    /\ Selecting /\ pending = None /\ t \in Ids \ born
    /\ Cardinality(DOMAIN tasks) < MaxTasks
    /\ tasks' = With(tasks, t, New(p))
    /\ born' = born \cup {t}
    /\ Commit(Reserve(1), 1)
    /\ UNCHANGED <<due, expired, pending, blocked, job, targets, acked, writer, loops>>

\* Mutant of Patched: the next fire resumes the transcript of the old prompt.
PatchedWithoutReset(task, p) == [task EXCEPT !.prompt = p]

\* A new prompt keeps the anchor and asks for a fresh chain.
Patched(task, p) ==
    IF p = task.prompt THEN task ELSE [task EXCEPT !.prompt = p, !.reset = TRUE, !.iters = 0]

\* Update: a patched interval never leaves the task due.
Update(t, p, interval) ==
    /\ Selecting /\ pending = None /\ t \in DOMAIN tasks
    /\ tasks' = [tasks EXCEPT ![t] = Patched(@, p)]
    /\ due' = IF interval THEN due \ {t} ELSE due
    /\ Commit(Reserve(1), 1)
    /\ UNCHANGED <<born, expired, pending, blocked, job, targets, acked, writer, loops>>

\* Delete of a listed task: gone from memory, and complete_pending_removal begins.
Delete(t) ==
    /\ Selecting /\ Room /\ pending = None /\ t \in DOMAIN tasks /\ targets
    /\ tasks' = Without(tasks, t)
    /\ due' = due \ {t}
    /\ pending' = [task |-> t, res |-> Reserve(1)]
    /\ job' = Job("persist", "delete", t, None, None)
    /\ UNCHANGED <<born, expired, clock, blocked, targets, acked, writer, loops>>

\* Delete of the task whose removal is pending: the removal is tried again, or given up
\* when there is nobody left to acknowledge it.
RetryDelete(t) ==
    /\ Selecting /\ Room /\ pending # None /\ pending.task = t
    /\ IF targets
       THEN job' = Job("persist", "delete", t, None, None) /\ UNCHANGED pending
       ELSE pending' = None /\ UNCHANGED job
    /\ UNCHANGED <<tasks, born, due, expired, clock, blocked, targets, acked, writer, loops>>

----------------------------------------------------------------------------
(* The durability barrier: flush the absence, then have the removal acknowledged *)

\* persist_resources takes the lock and enqueues what the resources hold now.
Persist ==
    /\ job.pc = "persist"
    /\ Enqueue("flush", tasks, TRUE)
    /\ job' = [job EXCEPT !.pc = "flush"]
    /\ UNCHANGED <<tasks, born, due, expired, clock, pending, blocked, targets, acked,
                   buffer, disk, loops>>

\* An expiry without the durability barrier's failures: what follows its flush, whatever
\* came of it.
Lapse(ok) ==
    /\ Commit(job.res, 1)
    /\ acked' = IF ok THEN acked \cup {job.task} ELSE acked
    /\ job' = Idle
    /\ UNCHANGED <<tasks, blocked>>

\* The writer has answered.  A delete whose flush failed stays pending; a durable expiry
\* is taken back and not tried again by this process.
Flushed ==
    /\ job.pc = "flush" /\ job.answer # "none"
    /\ \/ /\ job.why \in {"delete", "expire"} /\ job.answer = "ok"
          /\ job' = [job EXCEPT !.pc = "publish"]
          /\ UNCHANGED <<tasks, blocked, clock, acked>>
       \/ /\ job.why = "delete" /\ job.answer = "error"
          /\ job' = Idle
          /\ UNCHANGED <<tasks, blocked, clock, acked>>
       \/ /\ job.why = "expire" /\ job.answer = "error"
          /\ tasks' = With(tasks, job.task, job.old)
          /\ blocked' = blocked \cup {job.task}
          /\ job' = Idle
          /\ UNCHANGED <<clock, acked>>
       \/ job.why = "lapse" /\ Lapse(job.answer = "ok")
    /\ UNCHANGED <<born, due, expired, pending, targets, writer, loops>>

\* Cancelled or timed out: the snapshot stays in the channel, nobody waits for it.
FlushGivenUp ==
    /\ job.pc = "flush"
    /\ chan' = [i \in DOMAIN chan |-> [chan[i] EXCEPT !.awaited = FALSE]]
    /\ \/ /\ job.why \in {"delete", "expire"}
          /\ job' = Idle
          /\ UNCHANGED <<tasks, blocked, clock, acked>>
       \/ job.why = "lapse" /\ Lapse(FALSE)
    /\ UNCHANGED <<born, due, expired, pending, targets, buffer, disk, loops>>

\* Every durable target acknowledged the removal.
Acknowledged ==
    /\ job.pc = "publish" /\ targets
    /\ acked' = acked \cup {job.task}
    /\ IF job.why = "delete"
       THEN Commit(pending.res, 1) /\ pending' = None
       ELSE Commit(job.res, 1) /\ UNCHANGED pending
    /\ job' = Idle
    /\ UNCHANGED <<tasks, born, due, expired, blocked, targets, writer, loops>>

\* Mutant of NotAcknowledged: without cancellation and timeout.
NotAcknowledgedByClosed ==
    /\ job.pc = "publish" /\ ~targets
    /\ job' = Idle
    /\ UNCHANGED <<tasks, born, due, expired, clock, pending, blocked, targets, acked, writer, loops>>

\* Refused, dropped, cancelled or timed out: the version is not committed.  A delete
\* stays pending, a durable expiry stays absent.
NotAcknowledged ==
    /\ job.pc = "publish"
    /\ job' = Idle
    /\ UNCHANGED <<tasks, born, due, expired, clock, pending, blocked, targets, acked, writer, loops>>

----------------------------------------------------------------------------
(* The timer: fire_next_task *)

\* A task the timer may pick: no removal is pending and it is not a blocked expiry.
Waking(t) ==
    /\ Selecting /\ pending = None
    /\ t \in DOMAIN tasks \cap (due \cup expired) /\ t \notin blocked

IsExpired(t) == t \in expired

\* A durable task's expiry: blocked if nobody can acknowledge it, else removed and
\* flushed under one lock.
ExpireDurable(t) ==
    /\ Waking(t) /\ Room /\ IsExpired(t) /\ t \in Durable
    /\ IF ~targets
       THEN blocked' = blocked \cup {t} /\ UNCHANGED <<tasks, due, job, chan>>
       ELSE /\ tasks' = Without(tasks, t)
            /\ due' = due \ {t}
            /\ Enqueue("flush", tasks', TRUE)
            /\ job' = Job("flush", "expire", t, tasks[t], Reserve(1))
            /\ UNCHANGED blocked
    /\ UNCHANGED <<born, expired, clock, pending, targets, acked, buffer, disk, loops>>

\* Another task's expiry: removed, and persisted as well as it goes.
ExpirePlain(t) ==
    /\ Waking(t) /\ Room /\ IsExpired(t) /\ t \notin Durable
    /\ tasks' = Without(tasks, t)
    /\ due' = due \ {t}
    /\ job' = Job("persist", "lapse", t, None, Reserve(1))
    /\ UNCHANGED <<born, expired, clock, pending, blocked, targets, acked, writer, loops>>

\* A one-shot task is removed and announced twice, as fired and as removed; a recurring
\* one in the foreground is announced as fired.
FireForeground(t) ==
    /\ Waking(t) /\ ~IsExpired(t) /\ t \notin Loops
    /\ due' = due \ {t}
    /\ IF t \in Recurring THEN Commit(Reserve(1), 1) /\ UNCHANGED tasks
       ELSE Commit(Reserve(2), 2) /\ tasks' = Without(tasks, t)
    /\ UNCHANGED <<born, expired, pending, blocked, job, targets, acked, writer, loops>>

\* A loop fires: first the coordinator is asked about the previous iteration, if any.
FireLoop(t) ==
    /\ Waking(t) /\ ~IsExpired(t) /\ t \in Loops
    /\ due' = due \ {t}
    /\ job' = IF tasks[t].anchor # None /\ ~coord THEN Idle
              ELSE Job(IF tasks[t].anchor = None THEN "spawn" ELSE "query", "loop", t,
                       tasks[t], Reserve(1))
    /\ UNCHANGED <<tasks, born, expired, clock, pending, blocked, targets, acked, writer, loops>>

----------------------------------------------------------------------------
(* fire_as_loop_subagent *)

\* The coordinator's answer about the anchor: skip while it runs.  It may have forgotten
\* an iteration that is over, and knows none of an earlier process.
QueryAnswered ==
    /\ job.pc = "query" /\ coord
    /\ LET state == sub[job.old.anchor].state
       IN  /\ state # "sent"
           /\ \E known \in BOOLEAN :
                job' = IF state = "running" THEN Idle
                       ELSE [job EXCEPT !.pc = "unit", !.usable = known /\ state = "completed"]
    /\ UNCHANGED <<tasks, born, due, expired, clock, pending, blocked, targets, acked, writer, loops>>

\* What the coordinator counts for LoopUnitActive: iterations and what descends from them.
UnitOf(t) == {s \in Subs : sub[s].task = t /\ (sub[s].state \in {"sent", "running"} \/ sub[s].brood)}

\* Mutant of UnitAnswered: the answer is not looked at.
UnitNotAsked ==
    /\ job.pc = "unit" /\ coord
    /\ job' = [job EXCEPT !.pc = "spawn"]
    /\ UNCHANGED <<tasks, born, due, expired, clock, pending, blocked, targets, acked, writer, loops>>

\* The answer about descendants of earlier iterations.
UnitAnswered ==
    /\ job.pc = "unit" /\ coord
    /\ job' = IF UnitOf(job.task) # {} THEN Idle ELSE [job EXCEPT !.pc = "spawn"]
    /\ UNCHANGED <<tasks, born, due, expired, clock, pending, blocked, targets, acked, writer, loops>>

\* The coordinator is closed, silent for ten seconds, or the scheduler is cancelled.
LoopSkipped ==
    /\ job.pc \in {"query", "unit"}
    /\ job' = Idle
    /\ UNCHANGED <<tasks, born, due, expired, clock, pending, blocked, targets, acked, writer, loops>>

\* Resume the anchor's transcript, unless a reset is asked for, the chain is due for a
\* restart, or the anchor is not a completed iteration.
Resumes == ~job.old.reset /\ job.old.iters < FreshEvery /\ job.usable

\* Ids that stand for an earlier iteration somewhere.
Anchors(f) == {f[t].anchor : t \in DOMAIN f}
Mentioned ==
    Anchors(tasks) \cup Anchors(disk) \cup UNION {Anchors(chan[i].snap) : i \in DOMAIN chan}
        \cup (IF buffer = None THEN {} ELSE Anchors(buffer)) \cup {job.old.anchor}
NewSubs ==
    {s \in Subs \ (Mentioned \cup guards) : sub[s].state \notin {"sent", "running"} /\ ~sub[s].brood}

\* The iteration: its id becomes the anchor, then the request is sent.  Only this actor
\* removes tasks, so the task is still there.
SpawnLoop ==
    /\ job.pc = "spawn" /\ NewSubs # {}
    /\ LET s == CHOOSE s \in NewSubs : TRUE
           t == job.task
           n == IF Resumes THEN job.old.iters + 1 ELSE 1
           from == sub[job.old.anchor]
       IN  /\ tasks' = [tasks EXCEPT ![t] = [@ EXCEPT !.anchor = s, !.iters = n, !.reset = FALSE]]
           /\ IF coord
              THEN /\ sub' = [x \in Subs |->
                        IF x # s THEN IF x \in NewSubs THEN Unused ELSE sub[x]
                        ELSE [state |-> "sent", task |-> t, prompt |-> job.old.prompt,
                              first |-> IF Resumes THEN from.first ELSE job.old.prompt,
                              len |-> IF Resumes THEN from.len + 1 ELSE 1, brood |-> FALSE]]
                   /\ Commit(job.res, 1)
                   /\ job' = Idle
              ELSE job' = [job EXCEPT !.pc = "restore"] /\ UNCHANGED <<sub, clock>>
    /\ UNCHANGED <<born, due, expired, pending, blocked, targets, acked, writer, coord, guards>>

\* The snapshot from before the fire.
Rollback(task, old) ==
    [task EXCEPT !.anchor = old.anchor, !.iters = old.iters, !.reset = old.reset]

\* The request could not be sent: roll back, and fire in the foreground.
Restore ==
    /\ job.pc = "restore"
    /\ tasks' = [tasks EXCEPT ![job.task] = Rollback(@, job.old)]
    /\ Commit(job.res, 1)
    /\ job' = Idle
    /\ UNCHANGED <<born, due, expired, pending, blocked, targets, acked, writer, loops>>

\* The task spawned with an iteration: when its result is an error and it still is an
\* anchor, the chain is cleared.
Guard(s) ==
    /\ s \in guards
    /\ guards' = guards \ {s}
    /\ tasks' = [t \in DOMAIN tasks |-> IF tasks[t].anchor = s
                    THEN [tasks[t] EXCEPT !.anchor = None, !.iters = 0] ELSE tasks[t]]
    /\ UNCHANGED <<born, due, expired, clock, pending, blocked, job, targets, acked, writer,
                   coord, sub>>

----------------------------------------------------------------------------
(* The coordinator and the iterations (external) *)

\* A request is taken up: started, or queued at the concurrent limit.
SubStarts(s) ==
    /\ sub[s].state = "sent"
    /\ sub' = [sub EXCEPT ![s].state = "running"]
    /\ UNCHANGED <<tasks, born, due, expired, clock, pending, blocked, job, targets, acked, writer,
                   coord, guards>>

\* An iteration ends; an error is sent to its guard.
SubEnds(s, how) ==
    /\ sub[s].state = "running" \/ (sub[s].state = "sent" /\ how = "failed")
    /\ sub' = [sub EXCEPT ![s].state = how]
    /\ guards' = IF how = "failed" THEN guards \cup {s} ELSE guards
    /\ UNCHANGED <<tasks, born, due, expired, clock, pending, blocked, job, targets, acked, writer, coord>>

\* A running iteration has children of its own; they outlive it or not.
BroodChanges(s) ==
    /\ sub[s].brood \/ sub[s].state = "running"
    /\ sub' = [sub EXCEPT ![s].brood = ~@]
    /\ UNCHANGED <<tasks, born, due, expired, clock, pending, blocked, job, targets, acked, writer,
                   coord, guards>>

\* The coordinator is gone and its children with it; no result is sent any more.
CoordinatorCloses ==
    /\ coord /\ coord' = FALSE
    /\ sub' = [s \in Subs |-> IF sub[s].state \in {"sent", "running"} \/ sub[s].brood
                               THEN [sub[s] EXCEPT !.state = "gone", !.brood = FALSE] ELSE sub[s]]
    /\ UNCHANGED <<tasks, born, due, expired, clock, pending, blocked, job, targets, acked, writer, guards>>

----------------------------------------------------------------------------
(* The writer of the state file *)

\* A tool call ends with a save of the resources.
ToolSave ==
    /\ Room
    /\ Enqueue("save", tasks, FALSE)
    /\ UNCHANGED <<tasks, born, due, expired, clock, pending, blocked, job, targets, acked,
                   buffer, disk, loops>>

\* Mutant of WriterFlushes: the older snapshot stays pending.
WriterKeepsPending ==
    /\ chan # <<>> /\ Head(chan).kind = "flush"
    /\ chan' = Tail(chan)
    /\ \E renamed \in BOOLEAN, answer \in {"ok", "error"} :
        /\ answer = "ok" => renamed
        /\ disk' = IF renamed THEN Head(chan).snap ELSE disk
        /\ job' = IF Head(chan).awaited THEN [job EXCEPT !.answer = answer] ELSE job
    /\ UNCHANGED <<tasks, born, due, expired, clock, pending, blocked, targets, acked, buffer, loops>>

WriterSaves ==
    /\ chan # <<>> /\ Head(chan).kind = "save"
    /\ chan' = Tail(chan)
    /\ buffer' = Head(chan).snap
    /\ UNCHANGED <<tasks, born, due, expired, clock, pending, blocked, job, targets, acked, disk, loops>>

\* save_and_flush supersedes the pending snapshot.  The rename may have happened although
\* an error is answered: the directory is synchronised after it.
WriterFlushes ==
    /\ chan # <<>> /\ Head(chan).kind = "flush"
    /\ chan' = Tail(chan)
    /\ buffer' = None
    /\ \E renamed \in BOOLEAN, answer \in {"ok", "error"} :
        /\ answer = "ok" => renamed
        /\ disk' = IF renamed THEN Head(chan).snap ELSE disk
        /\ job' = IF Head(chan).awaited THEN [job EXCEPT !.answer = answer] ELSE job
    /\ UNCHANGED <<tasks, born, due, expired, clock, pending, blocked, targets, acked, loops>>

\* The debounce tick; a snapshot that cannot be written is dropped.
WriterTicks ==
    /\ buffer # None
    /\ buffer' = None
    /\ disk' \in {buffer, disk}
    /\ UNCHANGED <<tasks, born, due, expired, clock, pending, blocked, job, targets, acked, chan, loops>>

----------------------------------------------------------------------------
(* Time, faults and the end *)

BecomesDue(t) ==
    /\ t \in DOMAIN tasks \ due
    /\ due' = due \cup {t}
    /\ UNCHANGED <<tasks, born, expired, clock, pending, blocked, job, targets, acked, writer, loops>>

Expires(t) ==
    /\ t \in (Expiring \cap born) \ expired
    /\ expired' = expired \cup {t}
    /\ UNCHANGED <<tasks, born, due, clock, pending, blocked, job, targets, acked, writer, loops>>

\* The acknowledging consumer drops its receiver.
ConsumerCloses ==
    /\ targets /\ targets' = FALSE
    /\ UNCHANGED <<tasks, born, due, expired, clock, pending, blocked, job, acked, writer, loops>>

\* Cancelled: every task left is announced as removed by the shutdown, and kept.  The
\* actor is gone, and a pending removal with it.
Stop ==
    /\ Selecting
    /\ job' = Job("stopped", "none", None, None, None)
    /\ pending' = None
    /\ IF DOMAIN tasks = {} THEN UNCHANGED clock
       ELSE LET n == Cardinality(DOMAIN tasks) IN Commit(Reserve(n), n)
    /\ UNCHANGED <<tasks, born, due, expired, blocked, targets, acked, writer, loops>>

\* The process dies; the session is opened again with the state file and nothing else.
Crash ==
    /\ tasks' = disk
    /\ due' = {} /\ pending' = None /\ blocked' = {} /\ job' = Idle
    /\ clock' = [gen |-> FreshGen, rev |-> 0]
    /\ targets' \in Consumers /\ coord' = TRUE /\ guards' = {}
    /\ chan' = <<>> /\ buffer' = None
    /\ sub' = [s \in Subs |-> IF sub[s].state = "free" THEN sub[s]
                               ELSE [sub[s] EXCEPT !.state = "gone", !.brood = FALSE]]
    /\ UNCHANGED <<born, expired, acked, disk>>

----------------------------------------------------------------------------

\* A handler goes on by itself: its lock is free, its answer is there, or its timer has
\* run out.
Proceeds ==
    \/ Persist \/ Flushed \/ FlushGivenUp \/ NotAcknowledged \/ LoopSkipped
    \/ SpawnLoop \/ Restore

\* A handler goes on with what the consumer or the coordinator says.
Answered == Acknowledged \/ QueryAnswered \/ UnitAnswered

Next ==
    \/ \E t \in Ids :
        \/ \E p \in Prompts : Create(t, p) \/ \E interval \in BOOLEAN : Update(t, p, interval)
        \/ Delete(t) \/ RetryDelete(t)
        \/ ExpireDurable(t) \/ ExpirePlain(t) \/ FireForeground(t) \/ FireLoop(t)
        \/ BecomesDue(t) \/ Expires(t)
    \/ Proceeds \/ Answered
    \/ \E s \in Subs :
        \/ SubStarts(s) \/ \E how \in {"completed", "failed"} : SubEnds(s, how)
        \/ BroodChanges(s) \/ Guard(s)
    \/ CoordinatorCloses \/ ConsumerCloses \/ ToolSave
    \/ WriterSaves \/ WriterFlushes \/ WriterTicks
    \/ Stop \/ Crash

Spec == Init /\ [][Next]_vars

\* The runtime polls a handler that can go on by itself.  Nothing is assumed of the
\* writer, the consumer or the coordinator.
FairSpec == Spec /\ WF_vars(Proceeds)

----------------------------------------------------------------------------
(* Properties *)

Snapshots == {tasks, disk} \cup {chan[i].snap : i \in DOMAIN chan}
                \cup (IF buffer = None THEN {} ELSE {buffer})

\* A removal that was reported as done is final: the task is nowhere from where it could
\* come back, neither in memory nor in the state file, nor in a snapshot the writer has
\* yet to write, whatever was timed out, retried or lost in a crash before.
RemovedForGood == \A f \in Snapshots : acked \cap DOMAIN f = {}

\* The assertions of the versions never fail.  commit_next: a reservation held across a
\* wait, or across commands by a pending removal, is still for the version that follows
\* the clock.  prepare_transition: there are never more tasks to announce at the shutdown
\* than a reservation may cover, be they created, restored or put back.
ReservationsFresh ==
    /\ pending # None => pending.res.source = clock
    /\ job.res # None => job.res.source = clock
    /\ Cardinality(DOMAIN tasks) <= MaxTasks

\* Iterations of a loop, with all that descends from them, overlap only when one of them
\* has failed, whatever is patched, refused or rolled back in between.
OneUnitUnlessFailed ==
    \A t \in Loops : \A s1, s2 \in UnitOf(t) : s1 # s2 => "failed" \in {sub[s1].state, sub[s2].state}

\* "Background /loop iterations no longer overlap when descendant subagents are still
\* running": at most one iteration of a loop, with its descendants, is active.
OneUnit == \A t \in Loops : Cardinality(UnitOf(t)) <= 1

\* An iteration resumes a transcript only of the prompt it was given, and no transcript
\* grows beyond LOOP_FRESH_CHAIN_EVERY iterations.
ChainsKeepPrompt ==
    \A s \in Subs : sub[s].state # "free" => sub[s].first = sub[s].prompt /\ sub[s].len <= FreshEvery

\* Every handler comes to its end although the writer, the consumer and the coordinator
\* may never answer it.
HandlerReturns == job.pc \notin {"idle", "stopped"} ~> job.pc \in {"idle", "stopped"}

=============================================================================
