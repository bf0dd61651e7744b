------------------------ MODULE SubagentCoordinator ------------------------
(***************************************************************************)
(* The subagent coordinator of xai-grok-tools (grok_build/task): one actor *)
(* that owns every subagent of a process.  It admits spawns against a      *)
(* per-session limit, queues the rest, promotes, backgrounds, cancels and  *)
(* finishes children, and answers the callers parked on them.              *)
(*                                                                         *)
(* The actor handles one event per loop iteration without yielding, so one *)
(* action is one iteration: the handler, everything it calls, and what the *)
(* loop does after it (Settle).  Handlers call one another (a cancel that  *)
(* removes queued spawns finishes them, which starts others), so a handler *)
(* is an operator from the actor's state to its next state and the actions *)
(* compose them.  What happens outside the actor (a caller drops its       *)
(* receiver, a token is cancelled, a run ends, time passes) interleaves.   *)
(***************************************************************************)
EXTENDS Integers, FiniteSets

CONSTANTS
    Ids,            \* subagent ids; a started child's session is named by its id
    Roots,          \* parent sessions that are not subagents
    Runs, NoRun,    \* workflow runs; NoRun: the child is owned by a Task
    Requests,       \* what a spawn may ask for, a subset of Request
    MaxConcurrent,  \* SubagentLimits.max_concurrent after Admission::new
    FailModes,      \* whether limit_behavior may be Fail, or Queue
    BufferCompletions, \* CoordinatorConfig.buffer_completions
    MaxCompleted,   \* MAX_COMPLETED_ENTRIES
    \* inputs of the environment
    Scopes,         \* <<session, prompt>> a WaitPromptDrained may name
    StopSessions, TeardownSessions, \* sessions that may be stopped, torn down
    PromptCancels,  \* <<session, prompt>> a prompt cancel may name
    BackgroundIds,  \* ids whose agent definition says background: true
    QueryIds,       \* ids a blocking query may wait on
    FickleIds       \* ids whose callers may leave or cancel the token themselves

Sessions == Roots \cup Ids
Owners == Runs \cup {NoRun}
Modes == {"background", "foreground", "completion"}
Request == [session : Sessions, prompt : {"p", "q"}, run : Owners,
            mode : Modes, surface : BOOLEAN]

ASSUME CoordinatorAssumption ==
    /\ IsFiniteSet(Ids) /\ Roots # {}
    /\ NoRun \notin Runs
    /\ Requests \subseteq Request
    /\ StopSessions \subseteq Sessions /\ TeardownSessions \subseteq Sessions
    /\ Scopes \subseteq Sessions \X {"p", "q"}
    /\ MaxConcurrent \in Nat \ {0}
    /\ FailModes \subseteq BOOLEAN /\ FailModes # {} /\ BufferCompletions \in BOOLEAN
    /\ MaxCompleted \in Nat

Phases == {"none", "queued", "pending", "active", "completed"}
Told == {"no", "waiting", "result", "backgrounded", "gone"}

(***************************************************************************)
(* co, the actor's state.  Where the source has one map per phase, phase   *)
(* says which map holds the id.  The queue is kept as the set of ids in    *)
(* front of each queued id, and the completion order likewise.             *)
(*   fail      limit_behavior is Fail rather than Queue                    *)
(*   reply     spawn_reply / QueuedCaller::Awaiting: "open" while the      *)
(*             caller listens, "closed" once it left, "none" when taken    *)
(*   deadline  the foreground_deadline or queue deadline is set            *)
(*   token     cancel_token is cancelled (kept while the child is live)     *)
(*   waiting   a blocking query with a live receiver waits on the id       *)
(*   terminal  terminal_outputs: the run ended, a message admission has not*)
(* told, torn and notified are history: what the spawn caller was told,    *)
(* the ids alive when their session was torn down, and the completions the *)
(* host was notified of.                                                   *)
(***************************************************************************)
VARIABLE co

Fresh == [session |-> CHOOSE s \in Roots : TRUE, prompt |-> "p", run |-> NoRun,
          mode |-> "background", surface |-> FALSE]

State == [
    fail : FailModes,
    phase : [Ids -> Phases],
    req : [Ids -> Request],
    ahead : [Ids -> SUBSET Ids],
    before : [Ids -> SUBSET Ids],
    reply : [Ids -> {"open", "closed", "none"}],
    told : [Ids -> Told],
    token : SUBSET Ids, deadline : SUBSET Ids, handleOnly : SUBSET Ids,
    defBackground : SUBSET Ids, killed : SUBSET Ids,
    runs : SUBSET Ids, terminal : SUBSET Ids, waiting : SUBSET Ids,
    drains : SUBSET (Sessions \X {"p", "q"}),
    cancelWaiters : SUBSET Runs,
    teardown : SUBSET Sessions, blocked : SUBSET Sessions,
    buffer : SUBSET (Sessions \X Ids), torn : SUBSET Ids, notified : SUBSET Ids]

TypeOK == co \in State

Init ==
  \E mode \in FailModes :
    co = [fail |-> mode,
          phase |-> [i \in Ids |-> "none"],
          req |-> [i \in Ids |-> Fresh],
          ahead |-> [i \in Ids |-> {}],
          before |-> [i \in Ids |-> {}],
          reply |-> [i \in Ids |-> "none"],
          told |-> [i \in Ids |-> "no"],
          token |-> {}, deadline |-> {}, handleOnly |-> {},
          defBackground |-> {}, killed |-> {},
          runs |-> {}, terminal |-> {}, waiting |-> {},
          drains |-> {}, cancelWaiters |-> {}, teardown |-> {}, blocked |-> {},
          buffer |-> {}, torn |-> {}, notified |-> {}]

----------------------------------------------------------------------------
(* What the handlers look up *)

In(c, phases) == {i \in Ids : c.phase[i] \in phases}
Queued(c) == In(c, {"queued"})
Executing(c) == In(c, {"pending", "active"})
Live(c) == In(c, {"queued", "pending", "active"})
IsWorkflow(c, i) == c.req[i].run # NoRun

\* session_running_count: workflow children draw from their run's own pool.
SessionRunning(c, s) ==
    {i \in Executing(c) : c.req[i].session = s /\ ~IsWorkflow(c, i)}

\* session_has_children counts every owner.
SessionChildren(c, s) == {i \in Live(c) : c.req[i].session = s}

WorkflowOutstanding(c, r) == {i \in Executing(c) : c.req[i].run = r}

\* live_turn_blocking_ids
TurnBlocking(c, scope) ==
    {i \in Live(c) :
        /\ c.req[i].session = scope[1] /\ c.req[i].prompt = scope[2] /\ ~IsWorkflow(c, i)
        /\ i \notin c.handleOnly
        /\ c.phase[i] = "active" => i \notin c.defBackground
        /\ c.phase[i] = "queued" => c.reply[i] # "none"}

----------------------------------------------------------------------------
(* Finishing children and starting queued ones *)

\* The ids of F leave the maps, the queue and the set of runs.
Removed(c, F) ==
    [c EXCEPT
        !.ahead = [i \in Ids |-> IF i \in F THEN {} ELSE @[i] \ F],
        !.reply = [i \in Ids |-> IF i \in F THEN "none" ELSE @[i]],
        !.token = @ \ F, !.deadline = @ \ F, !.handleOnly = @ \ F, !.defBackground = @ \ F,
        !.killed = @ \ F, !.runs = @ \ F, !.terminal = @ \ F, !.waiting = @ \ F]

\* The completions of F the host is told about: handle-only after the reply was tried
\* (there was none, or nobody listens), not cancelled, not awaited, not killed.
Surfaced(c, F, result) ==
    {i \in F : /\ c.req[i].surface
               /\ i \in c.handleOnly \/ c.reply[i] # "open"
               /\ result # "cancelled"
               /\ i \notin c.waiting /\ i \notin c.killed}

\* finish_child for every id of F with the same result, without the sweep of the
\* queue that ends it.  Ids that were queued finish in queue order.
FinishAll(c, F, result) ==
    LET heard == {i \in F : c.reply[i] = "open"}
        runsDone == {r \in c.cancelWaiters : /\ WorkflowOutstanding(c, r) \subseteq F
                                             /\ \E i \in F : c.req[i].run = r}
        drained == {s \in c.teardown : /\ SessionChildren(c, s) \subseteq F
                                       /\ \E i \in F : c.req[i].session = s}
    IN  [Removed(c, F) EXCEPT
            !.phase = [i \in Ids |-> IF i \in F THEN "completed" ELSE @[i]],
            !.before = [i \in Ids |-> IF i \in F
                                      THEN In(c, {"completed"}) \cup (F \cap c.ahead[i])
                                      ELSE @[i]],
            !.told = [i \in Ids |-> IF i \in heard THEN "result" ELSE @[i]],
            !.buffer = @ \cup {<<c.req[i].session, i>> :
                                   i \in {j \in F : /\ BufferCompletions /\ c.req[j].surface
                                                    /\ ~IsWorkflow(c, j)}},
            !.notified = @ \cup Surfaced(c, F, result),
            !.cancelWaiters = @ \ runsDone,
            !.teardown = @ \ drained,
            !.blocked = @ \ drained]

\* start_child of a set of ids: into pending, the run launched.
StartAll(c, F) ==
    [c EXCEPT
        !.phase = [i \in Ids |-> IF i \in F THEN "pending" ELSE @[i]],
        !.ahead = [i \in Ids |-> IF i \in F THEN {} ELSE @[i] \ F],
        !.handleOnly = @ \cup {i \in F : c.req[i].mode = "background" \/ c.reply[i] = "none"},
        !.runs = @ \cup F]

\* Mutants of Competing: the queue served from its end; cancelled spawns counted.
CompetingLifo(c, i) ==
    {j \in Queued(c) : /\ i \in c.ahead[j] /\ j \notin c.token
                       /\ c.req[j].session = c.req[i].session}
CompetingCancelled(c, i) ==
    {j \in c.ahead[i] \cap Queued(c) : c.req[j].session = c.req[i].session}

\* The uncancelled queued spawns of i's session in front of i.
Competing(c, i) ==
    {j \in c.ahead[i] \cap Queued(c) : j \notin c.token /\ c.req[j].session = c.req[i].session}

\* Mutant of Startable: one spawn too many.
StartableOneMore(c) ==
    {i \in Queued(c) \ c.token :
        Cardinality(SessionRunning(c, c.req[i].session)) + Cardinality(Competing(c, i))
            <= MaxConcurrent}

\* The queued spawns the sweep starts: in arrival order, as many of each session
\* as it has free slots; a cancelled one takes none.
Startable(c) ==
    {i \in Queued(c) \ c.token :
        Cardinality(SessionRunning(c, c.req[i].session)) + Cardinality(Competing(c, i))
            < MaxConcurrent}

\* start_queued_within_capacity: spawns whose token is cancelled are taken out of
\* the queue on the way and finished at the end.
StartQueued(c) ==
    LET started == StartAll(c, Startable(c))
    IN  FinishAll(started, Queued(started) \cap started.token, "cancelled")

\* Mutant of Finish: without the trailing sweep.
FinishNoSweep(c, F, result) == FinishAll(c, F, result)

\* finish_child
Finish(c, F, result) == StartQueued(FinishAll(c, F, result))

\* remove_queued: every removed spawn is finished as cancelled.
RemoveQueued(c, F) ==
    IF F = {} THEN c ELSE Finish([c EXCEPT !.token = @ \cup F], F, "cancelled")

\* caller_gone: still foreground, and nobody listens for the result any more.
Abandoned(c) == {i \in Executing(c) : i \notin c.handleOnly /\ c.reply[i] = "closed"}

\* reap_abandoned_callers
Reap(c) ==
    LET left == Abandoned(c)
        kept == {i \in left : ~IsWorkflow(c, i)}
        parked == {i \in Queued(c) : c.reply[i] = "closed"}
        handedOff ==
            [c EXCEPT !.reply = [i \in Ids |-> IF i \in left \cup parked THEN "none" ELSE @[i]],
                      !.token = @ \cup (left \ kept),
                      !.handleOnly = @ \cup kept,
                      !.deadline = @ \ (kept \cup parked)]
    IN  RemoveQueued(handedOff, Queued(handedOff) \cap handedOff.token)

\* resolve_drain_waiters: the turns that still wait.
StillDraining(c) == {scope \in c.drains : TurnBlocking(c, scope) # {}}

\* After every iteration: resolve_drain_waiters, then eviction of the oldest
\* completed records beyond the cap.
Settle(c) ==
    LET evicted == {i \in In(c, {"completed"}) :
                        Cardinality({j \in In(c, {"completed"}) : i \in c.before[j]})
                            >= MaxCompleted}
    IN  [c EXCEPT
            !.drains = StillDraining(c),
            !.phase = [i \in Ids |-> IF i \in evicted THEN "none" ELSE @[i]],
            !.req = [i \in Ids |-> IF i \in evicted THEN Fresh ELSE @[i]],
            !.before = [i \in Ids |-> IF i \in evicted THEN {} ELSE @[i] \ evicted],
            !.told = [i \in Ids |-> IF i \in evicted THEN "no" ELSE @[i]],
            !.torn = @ \ evicted, !.notified = @ \ evicted]

Becomes(c) == co' = Settle(c)

----------------------------------------------------------------------------
(* Commands: every one first reaps abandoned callers *)

\* reparent_nested_spawn: a spawn whose parent is an active child belongs to that
\* child's own parent.
Nested(c, r) == r.session \in In(c, {"active"})

Reparented(c, r) ==
    IF ~Nested(c, r) THEN r
    ELSE LET parent == c.req[r.session]
         IN  [r EXCEPT !.session = parent.session, !.surface = FALSE,
                       !.run = IF @ = NoRun THEN parent.run ELSE @]

\* Mutant of Registered: the cancellation is recorded under the parent's name.
RegisteredWrongKey(c, i, r, cancelled) ==
    [c EXCEPT !.req[i] = r, !.reply[i] = "open", !.told[i] = "waiting",
              !.token = IF cancelled THEN @ \cup {r.session} ELSE @ \ {i},
              !.deadline = IF r.mode = "foreground" THEN @ \cup {i} ELSE @,
              !.handleOnly = IF r.mode = "background" THEN @ \cup {i} ELSE @]

\* The record of a spawn that passed the checks; its caller holds the receiver.
Registered(c, i, r, cancelled) ==
    [c EXCEPT !.req[i] = r, !.reply[i] = "open", !.told[i] = "waiting",
              !.token = IF cancelled THEN @ \cup {i} ELSE @ \ {i},
              !.deadline = IF r.mode = "foreground" THEN @ \cup {i} ELSE @,
              !.handleOnly = IF r.mode = "background" THEN @ \cup {i} ELSE @]

\* admit: what happens to a spawn that passed the checks.
Admit(c, i, r) ==
    CASE r.run # NoRun \/ Cardinality(SessionRunning(c, r.session)) < MaxConcurrent ->
             StartAll(c, {i})
      [] r.run = NoRun /\ Cardinality(SessionRunning(c, r.session)) >= MaxConcurrent ->
             IF c.fail THEN Finish(c, {i}, "done")
             ELSE [c EXCEPT !.phase[i] = "queued", !.ahead[i] = Queued(c)]

\* Mutant of Refused: the stopped session is not looked up.
RefusedNotStopped(c, i, asked) ==
    \/ Nested(c, asked) /\ asked.session \in c.token
    \/ c.phase[i] # "none"

\* handle_spawn.  A refused spawn (torn-down spawner, stopped session, known id)
\* is answered at once and leaves no record.
Refused(c, i, asked) ==
    \/ Nested(c, asked) /\ asked.session \in c.token
    \/ Reparented(c, asked).run = NoRun /\ Reparented(c, asked).session \in c.blocked
    \/ c.phase[i] # "none"

HandleSpawn(c, i, asked, cancelled) ==
    IF Refused(c, i, asked) THEN c
    ELSE LET r == Reparented(c, asked)
         IN  Admit(Registered(c, i, r, cancelled), i, r)

Spawn(i) ==
    \E asked \in Requests, cancelled \in BOOLEAN :
        /\ asked.session # i
        /\ cancelled => i \in FickleIds
        /\ Becomes(HandleSpawn(Reap(co), i, asked, cancelled))

\* cancel_one, by session s or unbound.
CancelOne(c, i) ==
    CASE i \in Executing(c) -> [c EXCEPT !.killed = @ \cup {i}, !.token = @ \cup {i}]
      [] i \in Queued(c) -> RemoveQueued(c, {i})
      [] OTHER -> c

Cancel(i) == Becomes(CancelOne(Reap(co), i))

\* Cancel every child of F: running ones are told to stop, queued ones finish.
CancelAll(c, F) ==
    RemoveQueued([c EXCEPT !.token = @ \cup (F \cap Executing(c))], F \cap Queued(c))

CancelParentPrompt(scope) ==
    LET c == Reap(co)
    IN  Becomes(CancelAll(c, {i \in Live(c) : /\ c.req[i].session = scope[1]
                                              /\ c.req[i].prompt = scope[2]}))

\* cancel_parent_session (Stop): also closes spawn admission for the session.
CancelParentSession(s) ==
    LET c == [Reap(co) EXCEPT !.blocked = @ \cup {s}]
    IN  Becomes(CancelAll(c, {i \in Live(c) : c.req[i].session = s /\ ~IsWorkflow(c, i)}))

\* Mutant of CancelWorkflow: waits although nothing of the run is left.
CancelWorkflowAlwaysWaits(r) ==
    LET c == Reap(co)
    IN  Becomes([c EXCEPT !.token = @ \cup WorkflowOutstanding(c, r),
                          !.cancelWaiters = @ \cup {r}])

\* cancel_workflow_children: answered once nothing of the run is left.
CancelWorkflow(r) ==
    LET c == Reap(co)
        left == WorkflowOutstanding(c, r)
    IN  Becomes([c EXCEPT !.token = @ \cup left,
                          !.cancelWaiters = IF left = {} THEN @ ELSE @ \cup {r}])

\* Mutant of Silenced: the children keep surface_completion.
SilencedOnlyBuffer(c, s, F) ==
    [c EXCEPT !.buffer = {b \in @ : b[1] # s}, !.torn = @ \cup F]

\* The session's buffered summaries are dropped and its children F will leave none.
Silenced(c, s, F) ==
    [c EXCEPT !.buffer = {b \in @ : b[1] # s},
              !.req = [i \in Ids |-> IF i \in F THEN [@[i] EXCEPT !.surface = FALSE] ELSE @[i]],
              !.torn = @ \cup F]

\* TeardownSession, from /delete (which waits for the children) or from an unload.
TeardownSession(s, delete) ==
    LET c0 == Reap(co)
        F == SessionChildren(c0, s)
        c1 == CancelAll(Silenced(c0, s, F), F)
    IN  Becomes(IF delete /\ SessionChildren(c1, s) # {}
                THEN [c1 EXCEPT !.blocked = @ \cup {s}, !.teardown = @ \cup {s}]
                ELSE c1)

OpenSpawnAdmission(s) ==
    LET c == Reap(co)
    IN  Becomes(IF s \in c.teardown THEN c ELSE [c EXCEPT !.blocked = @ \ {s}])

\* Completions: the session's buffered summaries are handed over.
Completions(s) ==
    LET c == Reap(co)
    IN  Becomes([c EXCEPT !.buffer = {b \in @ : b[1] # s}])

WaitPromptDrained(scope) ==
    LET c == Reap(co)
    IN  Becomes(IF TurnBlocking(c, scope) = {} THEN c
                ELSE [c EXCEPT !.drains = @ \cup {scope}])

\* handle_query with block: waits on a live child that no workflow owns.
Query(i) ==
    LET c == Reap(co)
    IN  Becomes(IF i \in Live(c) /\ ~IsWorkflow(c, i)
                THEN [c EXCEPT !.waiting = @ \cup {i}] ELSE c)

----------------------------------------------------------------------------
(* Events of the runner, of time, and of callers *)

\* InternalEvent::Started: cancellation wins over promotion.
Started(i) ==
    /\ co.phase[i] = "pending" /\ i \in co.runs
    /\ Becomes(IF i \in co.token THEN co
               ELSE [co EXCEPT !.phase[i] = "active",
                               !.defBackground = @ \cup ({i} \cap BackgroundIds)])

\* Mutant of RunEnds: the output of a busy child is not buffered.
RunEndsDropsOutput(i, result, busy) ==
    /\ i \in co.runs
    /\ busy => co.phase[i] = "active"
    /\ Becomes(IF busy THEN [co EXCEPT !.runs = @ \ {i}] ELSE Finish(co, {i}, result))

\* The run future is ready.  An active child with a message admission in flight
\* is kept until that settles.
RunEnds(i, result, busy) ==
    /\ i \in co.runs
    /\ busy => co.phase[i] = "active"
    /\ Becomes(IF busy THEN [co EXCEPT !.runs = @ \ {i}, !.terminal = @ \cup {i}]
               ELSE Finish(co, {i}, result))

\* The last admission of a child whose output is buffered settles; an uncertain
\* one turns the result into a cancellation.
AdmissionSettles(i, result) ==
    /\ i \in co.terminal
    /\ Becomes(Finish(IF result = "cancelled" THEN [co EXCEPT !.token = @ \cup {i}] ELSE co,
                      {i}, result))

\* The select arm that wakes on a caller that left.
CallerAbandoned ==
    /\ Abandoned(co) # {}
    /\ Becomes(Reap(co))

\* Mutants of HandOff: the reply is dropped without an answer; it is answered but
\* kept; the child stays foreground.
HandOffUnanswered(c, F) ==
    [c EXCEPT !.reply = [i \in Ids |-> IF i \in F THEN "none" ELSE @[i]],
              !.handleOnly = @ \cup (F \cap Executing(c)),
              !.deadline = @ \ F]
HandOffKeepsReply(c, F) ==
    [c EXCEPT !.told = [i \in Ids |-> IF i \in F /\ c.reply[i] = "open"
                                      THEN "backgrounded" ELSE @[i]],
              !.handleOnly = @ \cup (F \cap Executing(c)),
              !.deadline = @ \ F]
HandOffStaysForeground(c, F) ==
    [c EXCEPT !.told = [i \in Ids |-> IF i \in F /\ c.reply[i] = "open"
                                      THEN "backgrounded" ELSE @[i]],
              !.reply = [i \in Ids |-> IF i \in F THEN "none" ELSE @[i]],
              !.deadline = @ \ F]

\* process_deadlines: due callers are handed off, due teardown holds are dropped,
\* due queries are answered with what is known.
HandOff(c, F) ==
    [c EXCEPT !.told = [i \in Ids |-> IF i \in F /\ c.reply[i] = "open"
                                      THEN "backgrounded" ELSE @[i]],
              !.reply = [i \in Ids |-> IF i \in F THEN "none" ELSE @[i]],
              !.handleOnly = @ \cup (F \cap Executing(c)),
              !.deadline = @ \ F]

ProcessDeadlines(callers, holds, queries) ==
    LET c == Reap(co)
        reopened == [c EXCEPT !.teardown = @ \ holds, !.blocked = @ \ (holds \cap c.teardown)]
        handedOff == HandOff(reopened, callers \cap c.deadline)
    IN  Becomes([handedOff EXCEPT !.waiting = @ \ queries])

\* With something queued the sweep runs even when nothing is due.
DeadlineElapses ==
    \E callers \in SUBSET co.deadline, holds \in SUBSET co.teardown, queries \in SUBSET co.waiting :
        /\ callers # {} \/ holds # {} \/ queries # {} \/ Queued(co) # {}
        /\ ProcessDeadlines(callers, holds, queries)

\* A spawn caller drops its receiver.
CallerLeaves(i) ==
    /\ i \in FickleIds /\ co.reply[i] = "open"
    /\ co' = [co EXCEPT !.reply[i] = "closed", !.told[i] = "gone"]

\* The holder of a request's token cancels it without telling the actor.
TokenCancelled(i) ==
    /\ i \in FickleIds /\ i \in Live(co) /\ i \notin co.token
    /\ co' = [co EXCEPT !.token = @ \cup {i}]

\* The last listening query of i goes away.
QueryLeaves(i) ==
    /\ i \in co.waiting
    /\ co' = [co EXCEPT !.waiting = @ \ {i}]

\* What a run yields, as far as the actor tells results apart.
Results == {"done", "cancelled"}

Next ==
    \/ \E i \in Ids :
        \/ Spawn(i) \/ Cancel(i) \/ CallerLeaves(i) \/ TokenCancelled(i) \/ QueryLeaves(i)
        \/ i \in QueryIds /\ Query(i)
        \/ Started(i)
        \/ \E result \in Results, busy \in BOOLEAN : RunEnds(i, result, busy)
        \/ \E result \in Results : AdmissionSettles(i, result)
    \/ \E scope \in PromptCancels : CancelParentPrompt(scope)
    \/ \E scope \in Scopes : WaitPromptDrained(scope)
    \/ \E s \in StopSessions : CancelParentSession(s) \/ OpenSpawnAdmission(s)
    \/ \E s \in TeardownSessions :
        \/ Completions(s)
        \/ \E delete \in BOOLEAN : TeardownSession(s, delete)
    \/ \E r \in Runs : CancelWorkflow(r)
    \/ CallerAbandoned
    \/ DeadlineElapses

vars == co

Spec == Init /\ [][Next]_vars

(***************************************************************************)
(* Fairness.  The actor polls its timers and its callers' channels: a      *)
(* foreground deadline does not stay armed for ever, an abandoned caller   *)
(* does not stay unnoticed, and the queue is swept every                   *)
(* QUEUED_REAP_INTERVAL.  (Each arm is enabled exactly while armed and its *)
(* step disarms it, so this is weak fairness of the select arms, in a form *)
(* that needs no ENABLED.)  RunsEnd is about the runner: every run future  *)
(* resolves and every message admission settles.                           *)
(***************************************************************************)
TimersFire ==
    /\ []<>(Abandoned(co) = {})
    /\ []<>(\A i \in Queued(co) : co.reply[i] # "closed" /\ i \notin co.token)
    /\ \A i \in Ids : []<>(i \notin co.deadline)

RunsEnd == \A i \in Ids : []<>(i \notin co.runs) /\ []<>(i \notin co.terminal)

TimerSpec == Spec /\ TimersFire

----------------------------------------------------------------------------
(* Safety *)

\* A session never executes more Task children than max_concurrent, however
\* starts, dequeues, cancels and completions interleave.
SlotBoundIn(c) == \A s \in Sessions : Cardinality(SessionRunning(c, s)) <= MaxConcurrent
SlotBound == SlotBoundIn(co)

\* A spawn waits in the queue only while its session has no free slot: no
\* completion or cancellation leaves a slot idle with a spawn parked behind it.
NoIdleSlotIn(c) ==
    \A i \in Queued(c) : Cardinality(SessionRunning(c, c.req[i].session)) >= MaxConcurrent
NoIdleSlot == NoIdleSlotIn(co)

\* Whoever is parked has something to wait for: a drained turn, a cancelled
\* workflow run, a torn-down session and a blocking query are answered in the
\* iteration in which the last child they wait on goes away; a teardown hold keeps
\* the session's spawn admission closed.
NobodyForgotten ==
    /\ \A scope \in co.drains : TurnBlocking(co, scope) # {}
    /\ \A r \in co.cancelWaiters : WorkflowOutstanding(co, r) # {}
    /\ \A s \in co.teardown : SessionChildren(co, s) # {} /\ s \in co.blocked
    /\ co.waiting \subseteq Live(co)

\* A spawn caller that still listens has its reply held by a live record: no path
\* (queueing, dequeueing, handing off, cancelling, finishing) drops it unanswered.
CallerNotStranded ==
    \A i \in Ids : co.told[i] = "waiting" => co.reply[i] = "open" /\ i \in Live(co)

\* A completion is delivered once: a foreground caller that received the result is
\* not also notified of it, however late it was handed off, left or was dequeued.
DeliveredOnce ==
    \A i \in co.notified : co.req[i].mode = "background" \/ co.told[i] # "result"

\* A child alive when its session was torn down never leaves a completion behind
\* for a later resume of the same session.
TornDownStaysSilent == \A i \in co.torn : <<co.req[i].session, i>> \notin co.buffer

\* The runs in flight are exactly the children that execute and whose output is
\* not buffered yet: no run is orphaned, no child waits for a run that is gone.
RunsMatchChildren ==
    /\ co.runs \cup co.terminal = Executing(co)
    /\ co.runs \cap co.terminal = {}

----------------------------------------------------------------------------
(* Action properties *)

\* After Stop, and until admission is reopened, the session gains no Task child:
\* neither by a late spawn nor out of the queue.
StopBarrier ==
    [][\A s \in co.blocked \cap co'.blocked :
          {i \in SessionChildren(co', s) : ~IsWorkflow(co', i)} \subseteq SessionChildren(co, s)]_vars

\* A queued spawn is never overtaken by a later one of its session.
QueueIsFifo ==
    [][\A i, j \in Ids :
          /\ co.phase[i] = "queued" /\ co.phase[j] = "queued"
          /\ co.req[i].session = co.req[j].session /\ i \in co.ahead[j]
          /\ co'.phase[j] = "pending"
          => co'.phase[i] # "queued"]_vars

----------------------------------------------------------------------------
(* Liveness *)

\* A turn waiting for its subagents is released even if they never finish: a
\* foreground child is handed off at its deadline or when its caller leaves.  Only
\* a caller that awaits completion and still listens can hold the turn.
TurnReleased ==
    \A scope \in Scopes :
        scope \in co.drains ~>
            \/ scope \notin co.drains
            \/ \E i \in TurnBlocking(co, scope) :
                  co.req[i].mode = "completion" /\ co.reply[i] = "open"

\* If runs end, a queued spawn leaves the queue.
QueueDrains == RunsEnd => \A i \in Ids : co.phase[i] = "queued" ~> co.phase[i] # "queued"

=============================================================================
