-------------------------- MODULE SchedulerProofs --------------------------
(***************************************************************************)
(* For every value of the constants of Scheduler: the type invariant, that *)
(* an acknowledged removal is final, and that the assertions of the        *)
(* versions never fail.                                                    *)
(***************************************************************************)
EXTENDS Scheduler, TLAPS, FiniteSetTheorems, SequenceTheorems

Barrier == {"persist", "flush", "publish"}
Firing == {"query", "unit", "spawn", "restore"}
Removals == [task : Ids, res : Reservation]

\* What a handler carries with it, by where it waits.
JobOK ==
    /\ job.pc \in {"idle", "stopped"} => job.res = None
    /\ job.pc \in Barrier =>
        /\ job.task \in Ids
        /\ \/ /\ job.why = "delete" /\ job.res = None
              /\ pending \in Removals /\ pending.task = job.task
           \/ job.why \in {"expire", "lapse"} /\ pending = None /\ job.res \in Reservation
    /\ job.pc \in Barrier /\ job.why = "expire" => job.old \in Task
    /\ job.pc \in Firing =>
        /\ job.task \in DOMAIN tasks /\ pending = None
        /\ job.old \in Task /\ job.res \in Reservation
    /\ job.pc \in {"query", "unit"} => job.old.anchor # None
    /\ job.usable => job.pc \in Firing /\ job.old.anchor # None

\* The removal a handler carries out has left the list in memory.  The flush it waits for
\* is the only awaited entry of the channel, and from there on the task is absent; once it
\* succeeded, the task is absent everywhere.
AbsentOK ==
    /\ \A f \in Snapshots : DOMAIN f \subseteq born /\ acked \cap DOMAIN f = {}
    /\ acked \subseteq born /\ job.task \in born \cup {None}
    /\ pending # None => pending.task \in born /\ pending.task \notin DOMAIN tasks
    /\ job.pc \in Barrier =>
        job.task \notin DOMAIN tasks /\ (job.why = "expire" => job.task \notin acked)
    /\ job.pc = "persist" => job.answer = "none"
    /\ job.pc = "publish" => job.answer = "ok"
    /\ job.pc \in {"flush", "publish"} /\ job.answer = "ok" =>
        \A f \in Snapshots : job.task \notin DOMAIN f

AwaitedOK ==
    /\ \A i \in DOMAIN chan : chan[i].awaited =>
        /\ chan[i].kind = "flush" /\ job.pc = "flush" /\ job.answer = "none"
        /\ \A j \in DOMAIN chan : j >= i => job.task \notin DOMAIN chan[j].snap
    /\ \A i, j \in DOMAIN chan : chan[i].awaited /\ chan[j].awaited => i = j

\* A reservation that is held is for the version that follows the clock.
FreshOK ==
    /\ pending # None => pending.res.source = clock
    /\ job.res # None => job.res.source = clock

\* No list in memory, in the channel or in the file is over the limit, and there is room
\* for an expired task that may have to be put back.
SizeOK ==
    /\ \A f \in Snapshots : Cardinality(DOMAIN f) <= MaxTasks
    /\ job.pc \in Barrier /\ job.why = "expire" =>
        Cardinality(DOMAIN tasks \cup {job.task}) <= MaxTasks

----------------------------------------------------------------------------
(* Task lists *)

\* Lists is the set of the functions from ids to tasks.
LEMMA ListsAre == \A f : f \in Lists <=> DOMAIN f \subseteq Ids /\ f \in [DOMAIN f -> Task]
<1>1. ASSUME NEW f, f \in Lists PROVE DOMAIN f \subseteq Ids /\ f \in [DOMAIN f -> Task]
  <2>1. PICK S \in SUBSET Ids : f \in [S -> Task]
    BY <1>1 DEF Lists
  <2>. QED
    BY <2>1
<1>2. ASSUME NEW f, DOMAIN f \subseteq Ids, f \in [DOMAIN f -> Task] PROVE f \in Lists
  BY <1>2 DEF Lists
<1>. QED
  BY <1>1, <1>2

\* With adds a task to a list or replaces it.
LEMMA WithList ==
    ASSUME NEW f \in Lists, NEW t \in Ids, NEW r \in Task
    PROVE  With(f, t, r) \in Lists /\ DOMAIN With(f, t, r) = DOMAIN f \cup {t}
BY ListsAre DEF With

\* Without removes a task from a list.
LEMMA WithoutList ==
    ASSUME NEW f \in Lists, NEW t
    PROVE  Without(f, t) \in Lists /\ DOMAIN Without(f, t) = DOMAIN f \ {t}
BY ListsAre DEF Without, Restrict

\* EXCEPT keeps a list's domain.
LEMMA ExceptList ==
    ASSUME NEW f \in Lists, NEW t \in DOMAIN f, NEW r \in Task
    PROVE  [f EXCEPT ![t] = r] \in Lists /\ DOMAIN [f EXCEPT ![t] = r] = DOMAIN f
BY ListsAre

\* A task of a list.
LEMMA TaskOfList == ASSUME NEW f \in Lists, NEW t \in DOMAIN f PROVE f[t] \in Task /\ t \in Ids
BY ListsAre

\* A task as Create makes it.
LEMMA NewTask == ASSUME NEW p \in Prompts PROVE New(p) \in Task
BY SchedulerAssumption DEF New, Task

\* The fields that an edit or a refused spawn sets.
LEMMA EditTask ==
    ASSUME NEW r \in Task, NEW p \in Prompts, NEW n \in 0 .. FreshEvery, NEW b \in BOOLEAN
    PROVE  [r EXCEPT !.prompt = p, !.reset = b, !.iters = n] \in Task
BY DEF Task

\* The fields that the choice of a chain, and the undoing of it, set.
LEMMA ChainTask ==
    ASSUME NEW r \in Task, NEW s \in Subs \cup {None}, NEW n \in 0 .. FreshEvery, NEW b \in BOOLEAN
    PROVE  /\ [r EXCEPT !.anchor = s, !.iters = n, !.reset = b] \in Task
           /\ [r EXCEPT !.anchor = s, !.iters = n] \in Task
BY DEF Task

\* A patched task is a task.
LEMMA PatchedTask == ASSUME NEW r \in Task, NEW p \in Prompts PROVE Patched(r, p) \in Task
<1>1. 0 \in 0 .. FreshEvery /\ TRUE \in BOOLEAN
  BY SchedulerAssumption
<1>2. [r EXCEPT !.prompt = p, !.reset = TRUE, !.iters = 0] \in Task
  BY <1>1, EditTask, Zenon
<1>. QED
  BY <1>2 DEF Patched

\* There is a prompt for the tasks of an earlier process.
LEMMA AnyPromptIn == AnyPrompt \in Prompts
BY SchedulerAssumption DEF AnyPrompt

\* There is a generation other than the clock's.
LEMMA FreshGenIn == ASSUME clock \in Version PROVE FreshGen \in Gens
BY SchedulerAssumption DEF FreshGen, Version

\* A reservation of n versions is for the clock it was made at, and committing its n
\* versions gives a version, if n versions fit a generation.
LEMMA ReserveFits ==
    ASSUME clock \in Version, NEW n \in Nat, n > 0, n <= MaxRev
    PROVE  /\ Reserve(n) \in Reservation /\ Reserve(n).source = clock
           /\ [gen |-> Reserve(n).gen, rev |-> Reserve(n).next + n - 1] \in Version
<1>1. FreshGen \in Gens
  BY FreshGenIn
<1>2. clock.gen \in Gens /\ clock.rev \in 0 .. MaxRev
  BY DEF Version
<1>. QED
  BY <1>1, <1>2, SchedulerAssumption DEF Reserve, Reservation, Version

\* One version, reserved and committed at once or later.
LEMMA ReserveSmall ==
    ASSUME clock \in Version
    PROVE  /\ Reserve(1) \in Reservation /\ Reserve(1).source = clock
           /\ Commit(Reserve(1), 1) => clock' \in Version
           /\ Commit(Reserve(2), 2) => clock' \in Version
<1>1. 1 \in Nat /\ 1 > 0 /\ 1 <= MaxRev /\ 2 \in Nat /\ 2 > 0 /\ 2 <= MaxRev
  BY SchedulerAssumption
<1>2. /\ Reserve(1) \in Reservation /\ Reserve(1).source = clock
      /\ [gen |-> Reserve(1).gen, rev |-> Reserve(1).next + 1 - 1] \in Version
  BY <1>1, ReserveFits, Zenon
<1>3. [gen |-> Reserve(2).gen, rev |-> Reserve(2).next + 2 - 1] \in Version
  BY <1>1, ReserveFits, Zenon
<1>. QED
  BY <1>2, <1>3 DEF Commit

\* Committing a reservation of one version.
LEMMA CommitOne ==
    ASSUME NEW res \in Reservation, Commit(res, 1) PROVE clock' \in Version
BY SchedulerAssumption DEF Commit, Reservation, Version

----------------------------------------------------------------------------
(* Handlers and the channel *)

\* A handler's record is well typed.
LEMMA JobIn ==
    ASSUME NEW pc \in Pcs, NEW why \in {"none", "delete", "expire", "lapse", "loop"},
           NEW t \in Ids \cup {None}, NEW old \in Task \cup {None}, NEW res \in Reservation \cup {None}
    PROVE  Job(pc, why, t, old, res) \in Jobs
BY DEF Job, Jobs

\* So is the one of an idle actor.
LEMMA IdleIn == Idle \in Jobs
BY JobIn DEF Idle, Pcs

\* What is sent to the writer keeps the channel well typed.
LEMMA EnqueueType ==
    ASSUME chan \in Seq(Entries), NEW kind \in {"save", "flush"}, NEW snap \in Lists,
           NEW awaited \in BOOLEAN, Enqueue(kind, snap, awaited)
    PROVE  chan' \in Seq(Entries)
BY DEF Enqueue, Entries

\* The oldest entry of the channel, and the others one place further ahead.
LEMMA HeadTail ==
    ASSUME chan \in Seq(Entries), chan # <<>>
    PROVE  /\ Head(chan) \in Entries /\ Head(chan) = chan[1] /\ Head(chan).snap \in Lists
           /\ Tail(chan) \in Seq(Entries) /\ Len(Tail(chan)) = Len(chan) - 1
           /\ \A i \in 1 .. Len(Tail(chan)) : Tail(chan)[i] = chan[i + 1] /\ i + 1 \in 1 .. Len(chan)
<1>1. Len(chan) \in Nat \ {0} /\ chan[1] \in Entries /\ Head(chan) = chan[1]
  OBVIOUS
<1>2. Tail(chan) \in Seq(Entries) /\ Len(Tail(chan)) = Len(chan) - 1
  OBVIOUS
<1>3. \A i \in 1 .. Len(Tail(chan)) : Tail(chan)[i] = chan[i + 1] /\ i + 1 \in 1 .. Len(chan)
  BY <1>1, <1>2
<1>. QED
  BY <1>1, <1>2, <1>3 DEF Entries

\* A handler that stops waiting leaves the entries and only nobody waits for them.
LEMMA GivenUp ==
    ASSUME chan \in Seq(Entries), chan' = [i \in DOMAIN chan |-> [chan[i] EXCEPT !.awaited = FALSE]]
    PROVE  /\ chan' \in Seq(Entries) /\ DOMAIN chan' = DOMAIN chan
           /\ \A i \in DOMAIN chan : ~chan'[i].awaited /\ chan'[i].snap = chan[i].snap
<1>1. ASSUME NEW e \in Entries
      PROVE  LET d == [e EXCEPT !.awaited = FALSE] IN d \in Entries /\ ~d.awaited /\ d.snap = e.snap
  BY DEF Entries
<1>2. Len(chan) \in Nat /\ DOMAIN chan = 1 .. Len(chan) /\ \A i \in 1 .. Len(chan) : chan[i] \in Entries
  OBVIOUS
<1>3. chan' \in [1 .. Len(chan) -> Entries]
  BY <1>1, <1>2
<1>4. chan' \in Seq(Entries)
  BY <1>2, <1>3, SeqDef
<1>. QED
  BY <1>1, <1>2, <1>3, <1>4


----------------------------------------------------------------------------
(* Type correctness *)

\* Every step keeps the types.
LEMMA TypeStep == ASSUME TypeOK, JobOK, SizeOK, [Next]_vars PROVE TypeOK'
<1>1. ASSUME NEW t \in Ids, NEW p \in Prompts, Create(t, p) PROVE TypeOK'
  <2>1. tasks' \in Lists /\ clock' \in Version
    BY <1>1, WithList, NewTask, ReserveSmall DEF Create, TypeOK
  <2>. QED
    BY <1>1, <2>1 DEF Create, TypeOK, writer, loops
<1>2. ASSUME NEW t \in Ids, NEW p \in Prompts, NEW interval \in BOOLEAN, Update(t, p, interval) PROVE TypeOK'
  <2>1. tasks[t] \in Task
    BY <1>2, TaskOfList DEF Update, TypeOK
  <2>2. tasks' \in Lists
    BY <1>2, <2>1, ExceptList, PatchedTask DEF Update, TypeOK
  <2>3. clock' \in Version
    BY <1>2, ReserveSmall DEF Update, TypeOK
  <2>. QED
    BY <1>2, <2>2, <2>3 DEF Update, TypeOK, writer, loops
<1>3. ASSUME NEW t \in Ids, Delete(t) PROVE TypeOK'
  <2>1. tasks' \in Lists /\ pending' \in Removals /\ job' \in Jobs
    BY <1>3, WithoutList, ReserveSmall, JobIn DEF Delete, TypeOK, Removals, Pcs
  <2>. QED
    BY <1>3, <2>1 DEF Delete, TypeOK, Removals, writer, loops
<1>4. ASSUME NEW t \in Ids, RetryDelete(t) PROVE TypeOK'
  <2>1. job' \in Jobs
    BY <1>4, JobIn DEF RetryDelete, TypeOK, Pcs
  <2>2. pending' = None \/ pending' \in [task : Ids, res : Reservation]
    BY <1>4 DEF RetryDelete, TypeOK
  <2>. QED
    BY <1>4, <2>1, <2>2 DEF RetryDelete, TypeOK, writer, loops
<1>5. ASSUME NEW t \in Ids, ExpireDurable(t) PROVE TypeOK'
  <2>1. CASE ~targets
    BY <1>5, <2>1 DEF ExpireDurable, TypeOK, loops
  <2>2. CASE targets
    <3>1. t \in DOMAIN tasks /\ tasks[t] \in Task
      BY <1>5, TaskOfList DEF ExpireDurable, Waking, TypeOK
    <3>2. tasks' \in Lists
      BY <1>5, <2>2, WithoutList DEF ExpireDurable, TypeOK
    <3>3. job' \in Jobs
      BY <1>5, <2>2, <3>1, ReserveSmall, JobIn DEF ExpireDurable, TypeOK, Pcs
    <3>4. chan' \in Seq(Entries)
      BY <1>5, <2>2, <3>2, EnqueueType DEF ExpireDurable, TypeOK
    <3>. QED
      BY <1>5, <2>2, <3>2, <3>3, <3>4 DEF ExpireDurable, TypeOK, loops
  <2>. QED
    BY <2>1, <2>2 DEF TypeOK
<1>6. ASSUME NEW t \in Ids, ExpirePlain(t) PROVE TypeOK'
  <2>1. tasks' \in Lists /\ job' \in Jobs
    BY <1>6, WithoutList, ReserveSmall, JobIn DEF ExpirePlain, TypeOK, Pcs
  <2>. QED
    BY <1>6, <2>1 DEF ExpirePlain, TypeOK, writer, loops
<1>7. ASSUME NEW t \in Ids, FireForeground(t) PROVE TypeOK'
  <2>1. tasks' \in Lists
    BY <1>7, WithoutList DEF FireForeground, TypeOK
  <2>2. clock' \in Version
    BY <1>7, ReserveSmall DEF FireForeground, TypeOK
  <2>. QED
    BY <1>7, <2>1, <2>2 DEF FireForeground, TypeOK, writer, loops
<1>8. ASSUME NEW t \in Ids, FireLoop(t) PROVE TypeOK'
  <2>1. tasks[t] \in Task
    BY <1>8, TaskOfList DEF FireLoop, Waking, TypeOK
  <2>2. Reserve(1) \in Reservation
    BY ReserveSmall DEF TypeOK
  <2>3. job' \in Jobs
    <3>1. Idle \in Jobs
      BY IdleIn
    <3>2. Job("spawn", "loop", t, tasks[t], Reserve(1)) \in Jobs
      BY <2>1, <2>2, JobIn DEF Pcs
    <3>3. Job("query", "loop", t, tasks[t], Reserve(1)) \in Jobs
      BY <2>1, <2>2, JobIn DEF Pcs
    <3>. QED
      BY <1>8, <3>1, <3>2, <3>3 DEF FireLoop
  <2>. QED
    BY <1>8, <2>3 DEF FireLoop, TypeOK, writer, loops
<1>9. ASSUME NEW t \in Ids, BecomesDue(t) PROVE TypeOK'
  BY <1>9, IdleIn DEF BecomesDue, TypeOK, writer, loops
<1>10. ASSUME NEW t \in Ids, Expires(t) PROVE TypeOK'
  BY <1>10, IdleIn DEF Expires, TypeOK, writer, loops
<1>11. CASE Persist
  <2>1. chan' \in Seq(Entries)
    BY <1>11, EnqueueType DEF Persist, TypeOK
  <2>2. job' \in Jobs
    BY <1>11 DEF Persist, TypeOK, Jobs, Pcs
  <2>. QED
    BY <1>11, <2>1, <2>2 DEF Persist, TypeOK, loops
<1>12. CASE Flushed
  <2>1. job' \in Jobs
    BY <1>12, IdleIn DEF Flushed, Lapse, TypeOK, Jobs, Pcs
  <2>2. tasks' \in Lists
    <3>1. CASE job.why = "expire" /\ job.answer = "error"
      <4>1. job.task \in Ids /\ job.old \in Task
        BY <1>12, <3>1 DEF Flushed, JobOK, Barrier
      <4>2. tasks' = With(tasks, job.task, job.old)
        BY <1>12, <3>1 DEF Flushed
      <4>. QED
        BY <4>1, <4>2, WithList DEF TypeOK
    <3>2. CASE ~(job.why = "expire" /\ job.answer = "error")
      BY <1>12, <3>2 DEF Flushed, Lapse, TypeOK
    <3>. QED
      BY <3>1, <3>2
  <2>3. clock' \in Version
    <3>1. job.why = "lapse" => job.res \in Reservation
      BY <1>12 DEF Flushed, JobOK, Barrier
    <3>. QED
      BY <1>12, <3>1, CommitOne DEF Flushed, Lapse, TypeOK
  <2>4. acked' \subseteq Ids /\ blocked' \subseteq Ids
    <3>1. job.task \in Ids
      BY <1>12 DEF Flushed, JobOK, Barrier
    <3>. QED
      BY <1>12, <3>1 DEF Flushed, Lapse, TypeOK
  <2>. QED
    BY <1>12, <2>1, <2>2, <2>3, <2>4 DEF Flushed, TypeOK, writer, loops
<1>13. CASE FlushGivenUp
  <2>1. chan' \in Seq(Entries)
    BY <1>13, GivenUp DEF FlushGivenUp, TypeOK
  <2>2. clock' \in Version
    <3>1. job.why = "lapse" => job.res \in Reservation
      BY <1>13 DEF FlushGivenUp, JobOK, Barrier
    <3>. QED
      BY <1>13, <3>1, CommitOne DEF FlushGivenUp, Lapse, TypeOK
  <2>. QED
    BY <1>13, <2>1, <2>2, IdleIn DEF FlushGivenUp, Lapse, TypeOK, loops
<1>14. CASE NotAcknowledged
  BY <1>14, IdleIn DEF NotAcknowledged, TypeOK, writer, loops
<1>15. CASE LoopSkipped
  BY <1>15, IdleIn DEF LoopSkipped, TypeOK, writer, loops
<1>16. CASE SpawnLoop
  <2>. DEFINE s == CHOOSE s \in NewSubs : TRUE
              n == IF Resumes THEN job.old.iters + 1 ELSE 1
  <2>1. s \in Subs
    BY <1>16 DEF SpawnLoop, NewSubs
  <2>2. job.task \in DOMAIN tasks /\ job.old \in Task /\ job.res \in Reservation
    BY <1>16 DEF SpawnLoop, JobOK, Firing
  <2>3. n \in 0 .. FreshEvery /\ job.old.prompt \in Prompts
    BY <2>2, SchedulerAssumption DEF Resumes, Task
  <2>4. tasks' \in Lists
    <3>1. tasks[job.task] \in Task
      BY <2>2, TaskOfList DEF TypeOK
    <3>2. [tasks[job.task] EXCEPT !.anchor = s, !.iters = n, !.reset = FALSE] \in Task
      <4>. HIDE DEF s, n
      <4>1. FALSE \in BOOLEAN /\ s \in Subs \cup {None}
        BY <2>1
      <4>. QED
        BY <2>3, <3>1, <4>1, ChainTask, Zenon
    <3>3. tasks' = [tasks EXCEPT ![job.task] = [tasks[job.task] EXCEPT !.anchor = s, !.iters = n, !.reset = FALSE]]
      BY <1>16 DEF SpawnLoop
    <3>. HIDE DEF s, n
    <3>. QED
      BY <2>2, <3>2, <3>3, ExceptList DEF TypeOK
  <2>5. Resumes => sub[job.old.anchor] \in Iterations
    BY <1>16, <2>2 DEF Resumes, JobOK, Task, TypeOK
  <2>6. sub' \in [Subs -> Iterations]
    <3>1. CASE coord
      <4>. DEFINE new == [state |-> "sent", task |-> job.task, prompt |-> job.old.prompt,
                          first |-> IF Resumes THEN sub[job.old.anchor].first ELSE job.old.prompt,
                          len |-> IF Resumes THEN sub[job.old.anchor].len + 1 ELSE 1, brood |-> FALSE]
      <4>1. new \in Iterations
        BY <2>2, <2>3, <2>5, TaskOfList DEF Iterations, States, TypeOK
      <4>2. Unused \in Iterations
        BY AnyPromptIn DEF Unused, Iterations, States
      <4>3. sub' = [x \in Subs |-> IF x # s THEN IF x \in NewSubs THEN Unused ELSE sub[x] ELSE new]
        BY <1>16, <3>1 DEF SpawnLoop
      <4>. HIDE DEF new, s
      <4>. QED
        BY <4>1, <4>2, <4>3 DEF TypeOK
    <3>2. CASE ~coord
      BY <1>16, <3>2 DEF SpawnLoop, TypeOK
    <3>. QED
      BY <3>1, <3>2
  <2>7. clock' \in Version
    BY <1>16, <2>2, CommitOne DEF SpawnLoop, TypeOK
  <2>8. job' \in Jobs
    BY <1>16, IdleIn DEF SpawnLoop, TypeOK, Jobs, Pcs
  <2>. HIDE DEF s, n
  <2>. QED
    BY <1>16, <2>4, <2>6, <2>7, <2>8 DEF SpawnLoop, TypeOK, writer
<1>17. CASE Restore
  <2>1. job.task \in DOMAIN tasks /\ job.old \in Task /\ job.res \in Reservation
    BY <1>17 DEF Restore, JobOK, Firing
  <2>2. tasks[job.task] \in Task
    BY <2>1, TaskOfList DEF TypeOK
  <2>3. /\ job.old.anchor \in Subs \cup {None} /\ job.old.iters \in 0 .. FreshEvery
        /\ job.old.reset \in BOOLEAN
    BY <2>1 DEF Task
  <2>4. Rollback(tasks[job.task], job.old) \in Task
    BY <2>2, <2>3, ChainTask, Zenon DEF Rollback
  <2>5. tasks' \in Lists
    BY <1>17, <2>1, <2>4, ExceptList DEF Restore, TypeOK
  <2>. QED
    BY <1>17, <2>1, <2>5, CommitOne, IdleIn DEF Restore, TypeOK, writer, loops
<1>18. CASE Acknowledged
  <2>1. job.task \in Ids
    BY <1>18 DEF Acknowledged, JobOK, Barrier
  <2>2. clock' \in Version
    BY <1>18, CommitOne DEF Acknowledged, JobOK, Barrier, Removals, TypeOK
  <2>3. pending' = None \/ pending' \in [task : Ids, res : Reservation]
    BY <1>18 DEF Acknowledged, TypeOK
  <2>. QED
    BY <1>18, <2>1, <2>2, <2>3, IdleIn DEF Acknowledged, TypeOK, writer, loops
<1>19. CASE QueryAnswered
  <2>1. job' \in Jobs
    BY <1>19, IdleIn DEF QueryAnswered, TypeOK, Jobs, Pcs
  <2>. QED
    BY <1>19, <2>1 DEF QueryAnswered, TypeOK, writer, loops
<1>20. CASE UnitAnswered
  <2>1. job' \in Jobs
    BY <1>20, IdleIn DEF UnitAnswered, TypeOK, Jobs, Pcs
  <2>. QED
    BY <1>20, <2>1 DEF UnitAnswered, TypeOK, writer, loops
<1>21. ASSUME NEW s \in Subs, SubStarts(s) PROVE TypeOK'
  <2>1. sub' \in [Subs -> Iterations]
    BY ZenonT(60), <1>21 DEF SubStarts, TypeOK, Iterations, States
  <2>. QED
    BY <1>21, <2>1 DEF SubStarts, TypeOK, writer
<1>22. ASSUME NEW s \in Subs, NEW how \in {"completed", "failed"}, SubEnds(s, how) PROVE TypeOK'
  <2>1. sub' \in [Subs -> Iterations]
    BY <1>22 DEF SubEnds, TypeOK, Iterations, States
  <2>. QED
    BY <1>22, <2>1 DEF SubEnds, TypeOK, writer
<1>23. ASSUME NEW s \in Subs, BroodChanges(s) PROVE TypeOK'
  <2>1. sub' \in [Subs -> Iterations]
    <3>1. [sub[s] EXCEPT !.brood = ~sub[s].brood] \in Iterations
      <4>1. sub[s] \in Iterations /\ (~sub[s].brood) \in BOOLEAN
        BY DEF TypeOK
      <4>2. ASSUME NEW r \in Iterations, NEW b \in BOOLEAN PROVE [r EXCEPT !.brood = b] \in Iterations
        BY DEF Iterations
      <4>. QED
        BY <4>1, <4>2, Zenon
    <3>2. sub' = [sub EXCEPT ![s] = [sub[s] EXCEPT !.brood = ~sub[s].brood]]
      BY <1>23 DEF BroodChanges
    <3>. QED
      BY <3>1, <3>2 DEF TypeOK
  <2>. QED
    BY <1>23, <2>1 DEF BroodChanges, TypeOK, writer
<1>24. ASSUME NEW s \in Subs, Guard(s) PROVE TypeOK'
  <2>1. tasks' \in Lists
    <3>1. ASSUME NEW t \in DOMAIN tasks PROVE [tasks[t] EXCEPT !.anchor = None, !.iters = 0] \in Task
      <4>1. tasks[t] \in Task /\ 0 \in 0 .. FreshEvery /\ None \in Subs \cup {None} /\ TRUE \in BOOLEAN
        BY TaskOfList, SchedulerAssumption DEF TypeOK
      <4>. QED
        BY <4>1, ChainTask, Zenon
    <3>2. tasks' \in [DOMAIN tasks -> Task]
      BY <1>24, <3>1, TaskOfList DEF Guard, TypeOK
    <3>. QED
      BY <3>2, ListsAre DEF TypeOK
  <2>. QED
    BY <1>24, <2>1 DEF Guard, TypeOK, writer
<1>25. CASE CoordinatorCloses
  <2>1. sub' \in [Subs -> Iterations]
    BY ZenonT(60), <1>25 DEF CoordinatorCloses, TypeOK, Iterations, States
  <2>. QED
    BY <1>25, <2>1 DEF CoordinatorCloses, TypeOK, writer
<1>26. CASE ConsumerCloses
  BY <1>26, IdleIn DEF ConsumerCloses, TypeOK, writer, loops
<1>27. CASE ToolSave
  <2>1. chan' \in Seq(Entries)
    BY <1>27, EnqueueType DEF ToolSave, TypeOK
  <2>. QED
    BY <1>27, <2>1 DEF ToolSave, TypeOK, loops
<1>28. CASE WriterSaves
  <2>1. chan' \in Seq(Entries) /\ buffer' \in Lists
    BY <1>28, HeadTail DEF WriterSaves, TypeOK
  <2>. QED
    BY <1>28, <2>1 DEF WriterSaves, TypeOK, loops
<1>29. CASE WriterFlushes
  <2>1. chan' \in Seq(Entries) /\ disk' \in Lists
    BY <1>29, HeadTail DEF WriterFlushes, TypeOK
  <2>2. job' \in Jobs
    BY <1>29 DEF WriterFlushes, TypeOK, Jobs
  <2>. QED
    BY <1>29, <2>1, <2>2 DEF WriterFlushes, TypeOK, loops
<1>30. CASE WriterTicks
  BY <1>30, IdleIn DEF WriterTicks, TypeOK, writer, loops
<1>31. CASE Stop
  <2>1. clock' \in Version
    <3>1. CASE DOMAIN tasks = {}
      BY <1>31, <3>1 DEF Stop, TypeOK
    <3>2. CASE DOMAIN tasks # {}
      <4>1. tasks \in Snapshots
        BY DEF Snapshots
      <4>2. Cardinality(DOMAIN tasks) \in Nat /\ Cardinality(DOMAIN tasks) > 0
        BY <3>2, ListsAre, SchedulerAssumption, FS_Subset, FS_CardinalityType, FS_EmptySet DEF TypeOK
      <4>3. Cardinality(DOMAIN tasks) <= MaxRev
        BY <4>1, <4>2, SchedulerAssumption DEF SizeOK
      <4>4. Commit(Reserve(Cardinality(DOMAIN tasks)), Cardinality(DOMAIN tasks))
        BY <1>31, <3>2 DEF Stop
      <4>. QED
        BY <4>2, <4>3, <4>4, ReserveFits DEF Commit, TypeOK
    <3>. QED
      BY <3>1, <3>2
  <2>2. job' \in Jobs
    BY <1>31, JobIn DEF Stop, Pcs
  <2>. QED
    BY <1>31, <2>1, <2>2 DEF Stop, TypeOK, writer, loops
<1>32. CASE Crash
  <2>1. clock' \in Version
    <3>1. FreshGen \in Gens /\ 0 \in 0 .. MaxRev
      BY FreshGenIn, SchedulerAssumption DEF TypeOK
    <3>. QED
      BY <1>32, <3>1 DEF Crash, Version
  <2>2. sub' \in [Subs -> Iterations]
    BY ZenonT(60), <1>32 DEF Crash, TypeOK, Iterations, States
  <2>3. chan' \in Seq(Entries)
    BY <1>32, EmptySeq DEF Crash
  <2>. QED
    BY <1>32, <2>1, <2>2, <2>3, IdleIn, SchedulerAssumption DEF Crash, TypeOK
<1>33. CASE UNCHANGED vars
  BY <1>33 DEF TypeOK, vars, writer, loops
<1>. QED
  BY <1>1, <1>2, <1>3, <1>4, <1>5, <1>6, <1>7, <1>8, <1>9, <1>10, <1>11, <1>12, <1>13, <1>14,
     <1>15, <1>16, <1>17, <1>18, <1>19, <1>20, <1>21, <1>22, <1>23, <1>24, <1>25, <1>26, <1>27,
     <1>28, <1>29, <1>30, <1>31, <1>32, <1>33
  DEF Next, Proceeds, Answered

----------------------------------------------------------------------------
(* Handlers carry what they need *)

\* An idle actor carries nothing.
LEMMA IdleFields ==
    ASSUME NEW j, j = Idle
    PROVE  j.pc = "idle" /\ j.why = "none" /\ j.res = None /\ j.task = None /\ j.answer = "none" /\ ~j.usable
BY DEF Idle, Job

\* What a handler carries when it starts to wait.
LEMMA JobFields ==
    ASSUME NEW pc, NEW why, NEW t, NEW old, NEW res
    PROVE  LET j == Job(pc, why, t, old, res)
           IN  /\ j.pc = pc /\ j.why = why /\ j.task = t /\ j.old = old /\ j.res = res
               /\ j.answer = "none" /\ ~j.usable
BY DEF Job

\* A handler that has ended carries nothing.
LEMMA JobIdle == ASSUME job' = Idle PROVE JobOK'
BY IdleFields DEF JobOK, Barrier, Firing

\* A handler that waits is not disturbed by a step that leaves it, the pending removal and
\* the task it fires.
LEMMA JobKept ==
    ASSUME JobOK, job' = job, pending' = pending, job.pc \in Firing => job.task \in DOMAIN tasks'
    PROVE  JobOK'
BY DEF JobOK, Barrier, Firing, Removals, Reservation, Version, Task

\* Every step leaves a handler with what the place where it waits calls for.
LEMMA JobStep == ASSUME TypeOK, JobOK, [Next]_vars PROVE JobOK'
<1>1. ASSUME NEW t \in Ids, NEW p \in Prompts, Create(t, p) PROVE JobOK'
  <2>1. job' = job /\ pending' = pending /\ job.pc \notin Firing
    BY <1>1 DEF Create, Selecting, Waking, Firing
  <2>. QED
    BY <2>1, JobKept
<1>2. ASSUME NEW t \in Ids, NEW p \in Prompts, NEW interval \in BOOLEAN, Update(t, p, interval) PROVE JobOK'
  <2>1. job' = job /\ pending' = pending /\ job.pc \notin Firing
    BY <1>2 DEF Update, Selecting, Waking, Firing
  <2>. QED
    BY <2>1, JobKept
<1>3. ASSUME NEW t \in Ids, Delete(t) PROVE JobOK'
  <2>1. Reserve(1) \in Reservation
    BY ReserveSmall DEF TypeOK
  <2>2. pending' \in Removals /\ pending'.task = t
    BY <1>3, <2>1 DEF Delete, Removals
  <2>3. job' = Job("persist", "delete", t, None, None)
    BY <1>3 DEF Delete
  <2>. QED
    BY <2>2, <2>3, JobFields DEF JobOK, Barrier, Firing, Removals
<1>4. ASSUME NEW t \in Ids, RetryDelete(t) PROVE JobOK'
  <2>1. CASE targets
    <3>1. job' = Job("persist", "delete", t, None, None) /\ pending' \in Removals /\ pending'.task = t
      BY <1>4, <2>1 DEF RetryDelete, TypeOK, Removals
    <3>. QED
      BY <3>1, JobFields DEF JobOK, Barrier, Firing, Removals
  <2>2. CASE ~targets
    BY <1>4, <2>2 DEF RetryDelete, Selecting, JobOK, Barrier, Firing
  <2>. QED
    BY <2>1, <2>2
<1>5. ASSUME NEW t \in Ids, ExpireDurable(t) PROVE JobOK'
  <2>1. CASE ~targets
    BY <1>5, <2>1, JobKept DEF ExpireDurable, Waking, Selecting, Firing
  <2>2. CASE targets
    <3>1. /\ job' = Job("flush", "expire", t, tasks[t], Reserve(1)) /\ pending' = None
          /\ tasks[t] \in Task
      BY <1>5, <2>2, TaskOfList DEF ExpireDurable, Waking, TypeOK
    <3>2. Reserve(1) \in Reservation
      BY ReserveSmall DEF TypeOK
    <3>. QED
      BY <3>1, <3>2, JobFields DEF JobOK, Barrier, Firing
  <2>. QED
    BY <2>1, <2>2
<1>6. ASSUME NEW t \in Ids, ExpirePlain(t) PROVE JobOK'
  <2>1. job' = Job("persist", "lapse", t, None, Reserve(1)) /\ pending' = None
    BY <1>6 DEF ExpirePlain, Waking
  <2>2. Reserve(1) \in Reservation
    BY ReserveSmall DEF TypeOK
  <2>. QED
    BY <2>1, <2>2, JobFields DEF JobOK, Barrier, Firing
<1>7. ASSUME NEW t \in Ids, FireForeground(t) PROVE JobOK'
  <2>1. job' = job /\ pending' = pending /\ job.pc \notin Firing
    BY <1>7 DEF FireForeground, Selecting, Waking, Firing
  <2>. QED
    BY <2>1, JobKept
<1>8. ASSUME NEW t \in Ids, FireLoop(t) PROVE JobOK'
  <2>1. Reserve(1) \in Reservation /\ pending' = None /\ tasks' = tasks /\ t \in DOMAIN tasks
    BY <1>8, ReserveSmall DEF FireLoop, Waking, TypeOK
  <2>2. tasks[t] \in Task
    BY <2>1, TaskOfList DEF TypeOK
  <2>3. CASE tasks[t].anchor # None /\ ~coord
    BY <1>8, <2>3, JobIdle DEF FireLoop
  <2>4. CASE tasks[t].anchor = None
    <3>1. job' = Job("spawn", "loop", t, tasks[t], Reserve(1))
      BY <1>8, <2>4 DEF FireLoop
    <3>. QED
      BY <2>1, <2>2, <3>1, JobFields DEF JobOK, Barrier, Firing
  <2>5. CASE tasks[t].anchor # None /\ coord
    <3>1. job' = Job("query", "loop", t, tasks[t], Reserve(1))
      BY <1>8, <2>5 DEF FireLoop
    <3>. QED
      BY <2>1, <2>2, <2>5, <3>1, JobFields DEF JobOK, Barrier, Firing
  <2>. QED
    BY <2>3, <2>4, <2>5
<1>9. ASSUME NEW t \in Ids, BecomesDue(t) PROVE JobOK'
  <2>1. job' = job /\ pending' = pending /\ tasks' = tasks
    BY <1>9 DEF BecomesDue
  <2>. QED
    BY <2>1, JobKept DEF JobOK
<1>10. ASSUME NEW t \in Ids, Expires(t) PROVE JobOK'
  <2>1. job' = job /\ pending' = pending /\ tasks' = tasks
    BY <1>10 DEF Expires
  <2>. QED
    BY <2>1, JobKept DEF JobOK
<1>11. CASE Persist
  BY <1>11 DEF Persist, JobOK, Barrier, Firing, TypeOK, Jobs
<1>12. CASE Flushed
  <2>1. CASE job' = Idle
    BY <2>1, JobIdle
  <2>2. CASE job' = [job EXCEPT !.pc = "publish"]
    <3>1. job.pc = "flush" /\ pending' = pending
      BY <1>12 DEF Flushed
    <3>. QED
      BY <2>2, <3>1 DEF JobOK, Barrier, Firing, TypeOK, Jobs
  <2>. QED
    BY <1>12, <2>1, <2>2 DEF Flushed, Lapse
<1>13. CASE FlushGivenUp
  BY <1>13, JobIdle DEF FlushGivenUp, Lapse
<1>14. CASE NotAcknowledged
  BY <1>14, JobIdle DEF NotAcknowledged
<1>15. CASE LoopSkipped
  BY <1>15, JobIdle DEF LoopSkipped
<1>16. CASE SpawnLoop
  <2>1. CASE coord
    BY <1>16, <2>1, JobIdle DEF SpawnLoop
  <2>2. CASE ~coord
    <3>1. job' = [job EXCEPT !.pc = "restore"] /\ job.pc = "spawn" /\ pending' = pending
      BY <1>16, <2>2 DEF SpawnLoop
    <3>2. DOMAIN tasks' = DOMAIN tasks
      BY <1>16 DEF SpawnLoop
    <3>. QED
      BY <3>1, <3>2 DEF JobOK, Barrier, Firing, TypeOK, Jobs
  <2>. QED
    BY <2>1, <2>2
<1>17. CASE Restore
  BY <1>17, JobIdle DEF Restore
<1>18. CASE Acknowledged
  BY <1>18, JobIdle DEF Acknowledged
<1>19. CASE QueryAnswered
  <2>1. CASE job' = Idle
    BY <2>1, JobIdle
  <2>2. CASE \E b \in BOOLEAN : job' = [job EXCEPT !.pc = "unit", !.usable = b]
    <3>1. job.pc = "query" /\ pending' = pending /\ tasks' = tasks
      BY <1>19 DEF QueryAnswered
    <3>2. PICK b \in BOOLEAN : job' = [job EXCEPT !.pc = "unit", !.usable = b]
      BY <2>2
    <3>3. /\ job'.pc = "unit" /\ job'.task = job.task /\ job'.old = job.old /\ job'.res = job.res
      BY <3>2 DEF TypeOK, Jobs
    <3>. QED
      BY <3>1, <3>3 DEF JobOK, Barrier, Firing
  <2>3. job' = Idle \/ \E known \in BOOLEAN : job' = [job EXCEPT !.pc = "unit",
              !.usable = known /\ sub[job.old.anchor].state = "completed"]
    BY <1>19 DEF QueryAnswered
  <2>4. \A known \in BOOLEAN : (known /\ sub[job.old.anchor].state = "completed") \in BOOLEAN
    OBVIOUS
  <2>. QED
    BY <2>1, <2>2, <2>3, <2>4, Zenon
<1>20. CASE UnitAnswered
  <2>1. CASE job' = Idle
    BY <2>1, JobIdle
  <2>2. CASE job' = [job EXCEPT !.pc = "spawn"]
    BY <1>20, <2>2 DEF UnitAnswered, JobOK, Barrier, Firing, TypeOK, Jobs
  <2>. QED
    BY <1>20, <2>1, <2>2 DEF UnitAnswered
<1>21. ASSUME NEW s \in Subs, SubStarts(s) PROVE JobOK'
  <2>1. job' = job /\ pending' = pending /\ tasks' = tasks
    BY <1>21 DEF SubStarts
  <2>. QED
    BY <2>1, JobKept DEF JobOK
<1>22. ASSUME NEW s \in Subs, NEW how \in {"completed", "failed"}, SubEnds(s, how) PROVE JobOK'
  <2>1. job' = job /\ pending' = pending /\ tasks' = tasks
    BY <1>22 DEF SubEnds
  <2>. QED
    BY <2>1, JobKept DEF JobOK
<1>23. ASSUME NEW s \in Subs, BroodChanges(s) PROVE JobOK'
  <2>1. job' = job /\ pending' = pending /\ tasks' = tasks
    BY <1>23 DEF BroodChanges
  <2>. QED
    BY <2>1, JobKept DEF JobOK
<1>24. ASSUME NEW s \in Subs, Guard(s) PROVE JobOK'
  <2>1. job' = job /\ pending' = pending /\ DOMAIN tasks' = DOMAIN tasks
    BY <1>24 DEF Guard
  <2>. QED
    BY <2>1, JobKept DEF JobOK
<1>25. CASE CoordinatorCloses
  <2>1. job' = job /\ pending' = pending /\ tasks' = tasks
    BY <1>25 DEF CoordinatorCloses
  <2>. QED
    BY <2>1, JobKept DEF JobOK
<1>26. CASE ConsumerCloses
  <2>1. job' = job /\ pending' = pending /\ tasks' = tasks
    BY <1>26 DEF ConsumerCloses
  <2>. QED
    BY <2>1, JobKept DEF JobOK
<1>27. CASE ToolSave
  <2>1. job' = job /\ pending' = pending /\ tasks' = tasks
    BY <1>27 DEF ToolSave
  <2>. QED
    BY <2>1, JobKept DEF JobOK
<1>28. CASE WriterSaves
  <2>1. job' = job /\ pending' = pending /\ tasks' = tasks
    BY <1>28 DEF WriterSaves
  <2>. QED
    BY <2>1, JobKept DEF JobOK
<1>29. CASE WriterFlushes
  <2>1. pending' = pending /\ tasks' = tasks
    BY <1>29 DEF WriterFlushes
  <2>2. \/ job' = job
        \/ \E answer \in {"ok", "error"} : job' = [job EXCEPT !.answer = answer]
    BY <1>29 DEF WriterFlushes
  <2>. QED
    BY <2>1, <2>2, JobKept DEF JobOK, Barrier, Firing, TypeOK, Jobs
<1>30. CASE WriterTicks
  <2>1. job' = job /\ pending' = pending /\ tasks' = tasks
    BY <1>30 DEF WriterTicks
  <2>. QED
    BY <2>1, JobKept DEF JobOK
<1>31. CASE Stop
  <2>1. job' = Job("stopped", "none", None, None, None)
    BY <1>31 DEF Stop
  <2>. QED
    BY <2>1, JobFields DEF JobOK, Barrier, Firing
<1>32. CASE Crash
  BY <1>32, JobIdle DEF Crash
<1>33. CASE UNCHANGED vars
  BY <1>33, JobKept DEF vars, JobOK
<1>. QED
  BY <1>1, <1>2, <1>3, <1>4, <1>5, <1>6, <1>7, <1>8, <1>9, <1>10, <1>11, <1>12, <1>13, <1>14,
     <1>15, <1>16, <1>17, <1>18, <1>19, <1>20, <1>21, <1>22, <1>23, <1>24, <1>25, <1>26, <1>27,
     <1>28, <1>29, <1>30, <1>31, <1>32, <1>33
  DEF Next, Proceeds, Answered

----------------------------------------------------------------------------
(* Where lists are kept *)

\* The empty channel has no entry.
LEMMA EmptyDomain == DOMAIN <<>> = {}
<1>1. <<>> \in Seq(Entries) /\ Len(<<>>) = 0
  BY EmptySeq
<1>2. DOMAIN <<>> = 1 .. Len(<<>>)
  BY <1>1
<1>. QED
  BY <1>1, <1>2

\* Appending keeps the entries and adds the last one.
LEMMA Appended ==
    ASSUME chan \in Seq(Entries), NEW e \in Entries, chan' = Append(chan, e)
    PROVE  /\ DOMAIN chan' = DOMAIN chan \cup {Len(chan) + 1} /\ Len(chan) \in Nat
           /\ DOMAIN chan = 1 .. Len(chan)
           /\ \A i \in DOMAIN chan : chan'[i] = chan[i]
           /\ chan'[Len(chan) + 1] = e
OBVIOUS

\* An entry of the channel is well typed.
LEMMA EntryIn ==
    ASSUME NEW kind \in {"save", "flush"}, NEW snap \in Lists, NEW awaited \in BOOLEAN
    PROVE  [kind |-> kind, snap |-> snap, awaited |-> awaited] \in Entries
BY DEF Entries

\* A list that is enqueued is the only one to join the snapshots.
LEMMA SnapshotsEnqueue ==
    ASSUME chan \in Seq(Entries), NEW kind \in {"save", "flush"}, NEW awaited \in BOOLEAN,
           NEW snap \in Lists, Enqueue(kind, snap, awaited), UNCHANGED <<buffer, disk>>
    PROVE  \A f \in Snapshots' : f = tasks' \/ f = snap \/ f \in Snapshots
<1>1. PICK e \in Entries : e.snap = snap /\ chan' = Append(chan, e)
  BY EntryIn DEF Enqueue
<1>2. /\ DOMAIN chan' = DOMAIN chan \cup {Len(chan) + 1}
      /\ \A i \in DOMAIN chan : chan'[i] = chan[i]
      /\ chan'[Len(chan) + 1] = e
  BY <1>1, Appended
<1>3. \A i \in DOMAIN chan' : chan'[i].snap = snap \/ \E j \in DOMAIN chan : chan'[i].snap = chan[j].snap
  BY <1>1, <1>2
<1>4. ASSUME NEW f \in Snapshots' PROVE f = tasks' \/ f = snap \/ f \in Snapshots
  <2>1. f \in {tasks', disk'} \/ (\E i \in DOMAIN chan' : f = chan'[i].snap) \/ (buffer' # None /\ f = buffer')
    BY <1>4 DEF Snapshots
  <2>. QED
    BY <1>3, <2>1 DEF Snapshots
<1>. QED
  BY <1>4

\* A list is in memory before it is anywhere else.
LEMMA ListStep ==
    ASSUME TypeOK, JobOK, [Next]_vars
    PROVE  \A f \in Snapshots' : f = tasks' \/ f \in Snapshots
<1>. DEFINE Goal == \A f \in Snapshots' : f = tasks' \/ f \in Snapshots
<1>. SUFFICES Goal
  OBVIOUS
<1>quiet. ASSUME UNCHANGED writer PROVE Goal
  BY <1>quiet DEF Snapshots, writer
<1>1. ASSUME NEW t \in Ids, NEW p \in Prompts, Create(t, p) PROVE Goal
  BY <1>1, <1>quiet DEF Create, writer
<1>2. ASSUME NEW t \in Ids, NEW p \in Prompts, NEW interval \in BOOLEAN, Update(t, p, interval) PROVE Goal
  BY <1>2, <1>quiet DEF Update, writer
<1>3. ASSUME NEW t \in Ids, Delete(t) PROVE Goal
  BY <1>3, <1>quiet DEF Delete, writer
<1>4. ASSUME NEW t \in Ids, RetryDelete(t) PROVE Goal
  BY <1>4, <1>quiet DEF RetryDelete, writer
<1>5. ASSUME NEW t \in Ids, ExpireDurable(t) PROVE Goal
  <2>1. CASE targets
    <3>1. tasks' \in Lists
      BY <1>5, <2>1, WithoutList DEF ExpireDurable, TypeOK
    <3>2. Enqueue("flush", tasks', TRUE) /\ UNCHANGED <<buffer, disk>>
      BY <1>5, <2>1 DEF ExpireDurable
    <3>3. PICK snap : snap = tasks'
      OBVIOUS
    <3>4. Enqueue("flush", snap, TRUE) /\ snap \in Lists
      BY <3>1, <3>2, <3>3
    <3>. QED
      BY <3>2, <3>3, <3>4, SnapshotsEnqueue DEF TypeOK
  <2>2. CASE ~targets
    BY <1>5, <2>2, <1>quiet DEF ExpireDurable, writer
  <2>. QED
    BY <2>1, <2>2
<1>6. ASSUME NEW t \in Ids, ExpirePlain(t) PROVE Goal
  BY <1>6, <1>quiet DEF ExpirePlain, writer
<1>7. ASSUME NEW t \in Ids, FireForeground(t) PROVE Goal
  BY <1>7, <1>quiet DEF FireForeground, writer
<1>8. ASSUME NEW t \in Ids, FireLoop(t) PROVE Goal
  BY <1>8, <1>quiet DEF FireLoop, writer
<1>9. ASSUME NEW t \in Ids, BecomesDue(t) PROVE Goal
  BY <1>9, <1>quiet DEF BecomesDue, writer
<1>10. ASSUME NEW t \in Ids, Expires(t) PROVE Goal
  BY <1>10, <1>quiet DEF Expires, writer
<1>11. CASE Persist
  <2>1. Enqueue("flush", tasks, TRUE) /\ UNCHANGED <<buffer, disk>> /\ tasks \in Lists
    BY <1>11, WithoutList DEF Persist, TypeOK
  <2>. QED
    BY <2>1, SnapshotsEnqueue DEF Snapshots, TypeOK
<1>12. CASE Flushed
  BY <1>12, <1>quiet DEF Flushed
<1>13. CASE FlushGivenUp
  <2>1. /\ DOMAIN chan' = DOMAIN chan /\ UNCHANGED <<buffer, disk>>
        /\ \A i \in DOMAIN chan : chan'[i].snap = chan[i].snap
    BY <1>13, GivenUp DEF FlushGivenUp, TypeOK
  <2>. QED
    BY <2>1 DEF Snapshots
<1>14. CASE NotAcknowledged
  BY <1>14, <1>quiet DEF NotAcknowledged, writer
<1>15. CASE LoopSkipped
  BY <1>15, <1>quiet DEF LoopSkipped, writer
<1>16. CASE SpawnLoop
  BY <1>16, <1>quiet DEF SpawnLoop, writer
<1>17. CASE Restore
  BY <1>17, <1>quiet DEF Restore, writer
<1>18. CASE Acknowledged
  BY <1>18, <1>quiet DEF Acknowledged, writer
<1>19. CASE QueryAnswered
  BY <1>19, <1>quiet DEF QueryAnswered, writer
<1>20. CASE UnitAnswered
  BY <1>20, <1>quiet DEF UnitAnswered, writer
<1>21. ASSUME NEW s \in Subs, SubStarts(s) PROVE Goal
  BY <1>21, <1>quiet DEF SubStarts, writer
<1>22. ASSUME NEW s \in Subs, NEW how \in {"completed", "failed"}, SubEnds(s, how) PROVE Goal
  BY <1>22, <1>quiet DEF SubEnds, writer
<1>23. ASSUME NEW s \in Subs, BroodChanges(s) PROVE Goal
  BY <1>23, <1>quiet DEF BroodChanges, writer
<1>24. ASSUME NEW s \in Subs, Guard(s) PROVE Goal
  BY <1>24, <1>quiet DEF Guard, writer
<1>25. CASE CoordinatorCloses
  BY <1>25, <1>quiet DEF CoordinatorCloses, writer
<1>26. CASE ConsumerCloses
  BY <1>26, <1>quiet DEF ConsumerCloses, writer
<1>27. CASE ToolSave
  <2>1. Enqueue("save", tasks, FALSE) /\ UNCHANGED <<buffer, disk>> /\ tasks \in Lists
    BY <1>27, WithoutList DEF ToolSave, TypeOK
  <2>. QED
    BY <2>1, SnapshotsEnqueue DEF Snapshots, TypeOK
<1>28. CASE WriterSaves
  <2>1. /\ Head(chan) = chan[1] /\ 1 \in DOMAIN chan /\ DOMAIN chan' = 1 .. Len(Tail(chan))
        /\ \A i \in DOMAIN chan' : chan'[i] = chan[i + 1] /\ i + 1 \in DOMAIN chan
    BY <1>28, HeadTail DEF WriterSaves, TypeOK
  <2>. QED
    BY <1>28, <2>1 DEF WriterSaves, Snapshots
<1>29. CASE WriterFlushes
  <2>1. /\ Head(chan) = chan[1] /\ 1 \in DOMAIN chan /\ DOMAIN chan' = 1 .. Len(Tail(chan))
        /\ \A i \in DOMAIN chan' : chan'[i] = chan[i + 1] /\ i + 1 \in DOMAIN chan
    BY <1>29, HeadTail DEF WriterFlushes, TypeOK
  <2>. QED
    BY <1>29, <2>1 DEF WriterFlushes, Snapshots
<1>30. CASE WriterTicks
  BY <1>30 DEF WriterTicks, Snapshots
<1>31. CASE Stop
  BY <1>31, <1>quiet DEF Stop, writer
<1>32. CASE Crash
  <2>1. DOMAIN chan' = {} /\ buffer' = None /\ disk' = disk
    BY <1>32, EmptyDomain DEF Crash
  <2>. QED
    BY <2>1 DEF Snapshots
<1>33. CASE UNCHANGED vars
  BY <1>33, <1>quiet DEF vars
<1>. QED
  BY <1>1, <1>2, <1>3, <1>4, <1>5, <1>6, <1>7, <1>8, <1>9, <1>10, <1>11, <1>12, <1>13, <1>14,
     <1>15, <1>16, <1>17, <1>18, <1>19, <1>20, <1>21, <1>22, <1>23, <1>24, <1>25, <1>26, <1>27,
     <1>28, <1>29, <1>30, <1>31, <1>32, <1>33
  DEF Next, Proceeds, Answered

----------------------------------------------------------------------------
(* What a step does to the list, the removals and the handler *)

\* A list grows by a creation, by an expiry that is taken back, or by a restart.
ListEffect ==
    \/ DOMAIN tasks' \subseteq DOMAIN tasks
    \/ \E t \in Ids, p \in Prompts : Create(t, p)
    \/ Flushed /\ job.why = "expire" /\ job.answer = "error" /\ tasks' = With(tasks, job.task, job.old)
    \/ Crash

\* A removal is reported by a handler whose flush has succeeded.
AckEffect ==
    \/ acked' = acked
    \/ /\ acked' = acked \cup {job.task} /\ job.task \in Ids
       /\ job.pc = "publish" \/ (job.pc = "flush" /\ job.answer = "ok")
       /\ tasks' = tasks /\ born' = born

PendingEffect == pending' \in {pending, None} \/ \E t \in Ids : Delete(t)

JobEffect ==
    \/ job'.pc \notin Barrier /\ job'.task \in {None, job.task} \cup DOMAIN tasks
    \/ \E t \in Ids : Delete(t) \/ (RetryDelete(t) /\ targets) \/ (ExpireDurable(t) /\ targets) \/ ExpirePlain(t)
    \/ /\ job.pc \in Barrier /\ job'.task = job.task /\ job'.why = job.why
       /\ DOMAIN tasks' = DOMAIN tasks /\ acked' = acked
       /\ \/ job'.pc = job.pc /\ job'.answer = job.answer
          \/ job.pc = "persist" /\ job'.pc = "flush" /\ job'.answer = job.answer
          \/ job.pc = "flush" /\ job'.pc = "publish" /\ job.answer = "ok" /\ job'.answer = "ok"
          \/ WriterFlushes /\ chan[1].awaited /\ job'.pc = job.pc

Effect == ListEffect /\ AckEffect /\ PendingEffect /\ JobEffect /\ born \subseteq born'

\* A step that only touches what is around the actor.
LEMMA EffectAround ==
    ASSUME job' = job, DOMAIN tasks' = DOMAIN tasks, acked' = acked, pending' = pending, born' = born
    PROVE  Effect
BY DEF Effect, ListEffect, AckEffect, PendingEffect, JobEffect

\* A step of the actor in its loop that does not begin to wait.
LEMMA EffectSelecting ==
    ASSUME job' = job, job.pc = "idle", acked' = acked, pending' \in {pending, None}, born \subseteq born', ListEffect
    PROVE  Effect
BY DEF Effect, AckEffect, PendingEffect, JobEffect, Barrier

\* The end of a handler.
LEMMA EffectEnd ==
    ASSUME job' = Idle, acked' = acked, pending' \in {pending, None}, born' = born, ListEffect
    PROVE  Effect
BY IdleFields DEF Effect, AckEffect, PendingEffect, JobEffect, Barrier

\* Every step changes list, acknowledgements, pending removal and handler as Effect says.
LEMMA EffectStep == ASSUME TypeOK, JobOK, [Next]_vars PROVE Effect
<1>1. ASSUME NEW t \in Ids, NEW p \in Prompts, Create(t, p) PROVE Effect
  BY <1>1, EffectSelecting DEF Create, Selecting, ListEffect
<1>2. ASSUME NEW t \in Ids, NEW p \in Prompts, NEW interval \in BOOLEAN, Update(t, p, interval) PROVE Effect
  <2>1. DOMAIN tasks' = DOMAIN tasks
    BY <1>2 DEF Update
  <2>. QED
    BY <1>2, <2>1, EffectSelecting DEF Update, Selecting, ListEffect
<1>3. ASSUME NEW t \in Ids, Delete(t) PROVE Effect
  <2>1. DOMAIN tasks' \subseteq DOMAIN tasks
    <3>1. tasks' = Without(tasks, t) /\ tasks \in Lists
      BY <1>3 DEF Delete, TypeOK
    <3>. QED
      BY <3>1, WithoutList
  <2>2. acked' = acked /\ born' = born
    BY <1>3 DEF Delete
  <2>3. PendingEffect /\ JobEffect
    BY <1>3 DEF Delete, PendingEffect, JobEffect
  <2>. QED
    BY <2>1, <2>2, <2>3 DEF Effect, ListEffect, AckEffect
<1>4. ASSUME NEW t \in Ids, RetryDelete(t) PROVE Effect
  <2>1. tasks' = tasks /\ acked' = acked /\ born' = born /\ pending' \in {pending, None} /\ job.pc = "idle"
    BY <1>4 DEF RetryDelete, Selecting
  <2>2. CASE targets
    BY <1>4, <2>1, <2>2 DEF Effect, ListEffect, AckEffect, PendingEffect, JobEffect
  <2>3. CASE ~targets
    BY <1>4, <2>1, <2>3, EffectSelecting DEF RetryDelete, ListEffect
  <2>. QED
    BY <2>2, <2>3
<1>5. ASSUME NEW t \in Ids, ExpireDurable(t) PROVE Effect
  <2>1. DOMAIN tasks' \subseteq DOMAIN tasks
    BY <1>5, WithoutList DEF ExpireDurable, TypeOK
  <2>2. acked' = acked /\ born' = born /\ pending' = pending /\ job.pc = "idle"
    BY <1>5 DEF ExpireDurable, Waking, Selecting
  <2>3. CASE targets
    BY <1>5, <2>1, <2>2, <2>3 DEF Effect, ListEffect, AckEffect, PendingEffect, JobEffect
  <2>4. CASE ~targets
    BY <1>5, <2>1, <2>2, <2>4, EffectSelecting DEF ExpireDurable, ListEffect
  <2>. QED
    BY <2>3, <2>4
<1>6. ASSUME NEW t \in Ids, ExpirePlain(t) PROVE Effect
  <2>1. DOMAIN tasks' \subseteq DOMAIN tasks
    <3>1. tasks' = Without(tasks, t) /\ tasks \in Lists
      BY <1>6 DEF ExpirePlain, TypeOK
    <3>. QED
      BY <3>1, WithoutList
  <2>2. acked' = acked /\ born' = born
    BY <1>6 DEF ExpirePlain
  <2>3. PendingEffect /\ JobEffect
    BY <1>6 DEF ExpirePlain, PendingEffect, JobEffect
  <2>. QED
    BY <2>1, <2>2, <2>3 DEF Effect, ListEffect, AckEffect
<1>7. ASSUME NEW t \in Ids, FireForeground(t) PROVE Effect
  <2>1. DOMAIN tasks' \subseteq DOMAIN tasks
    <3>1. tasks' \in {tasks, Without(tasks, t)} /\ tasks \in Lists
      BY <1>7 DEF FireForeground, TypeOK
    <3>. QED
      BY <3>1, WithoutList
  <2>. QED
    BY <1>7, <2>1, EffectSelecting DEF FireForeground, Waking, Selecting, ListEffect
<1>8. ASSUME NEW t \in Ids, FireLoop(t) PROVE Effect
  <2>1. tasks' = tasks /\ acked' = acked /\ born' = born /\ pending' = pending /\ t \in DOMAIN tasks
    BY <1>8 DEF FireLoop, Waking
  <2>2. job'.pc \notin Barrier /\ job'.task \in {None, t}
    BY <1>8, IdleFields, JobFields DEF FireLoop, Barrier
  <2>. QED
    BY <2>1, <2>2 DEF Effect, ListEffect, AckEffect, PendingEffect, JobEffect
<1>9. ASSUME NEW t \in Ids, BecomesDue(t) PROVE Effect
  BY <1>9, EffectAround DEF BecomesDue
<1>10. ASSUME NEW t \in Ids, Expires(t) PROVE Effect
  BY <1>10, EffectAround DEF Expires
<1>11. CASE Persist
  <2>1. /\ job.pc = "persist" /\ job'.pc = "flush" /\ job'.answer = job.answer
        /\ job'.task = job.task /\ job'.why = job.why
    BY <1>11 DEF Persist, TypeOK, Jobs
  <2>2. tasks' = tasks /\ acked' = acked /\ born' = born /\ pending' = pending
    BY <1>11 DEF Persist
  <2>. QED
    BY <2>1, <2>2 DEF Effect, ListEffect, AckEffect, PendingEffect, JobEffect, Barrier
<1>12. CASE Flushed
  <2>1. job.pc = "flush" /\ born' = born /\ pending' = pending /\ job.task \in Ids
    BY <1>12 DEF Flushed, JobOK, Barrier
  <2>2. CASE job' = [job EXCEPT !.pc = "publish"] /\ job.answer = "ok" /\ UNCHANGED <<tasks, acked>>
    <3>1. /\ job'.pc = "publish" /\ job'.answer = "ok" /\ job'.task = job.task /\ job'.why = job.why
      BY <2>2 DEF TypeOK, Jobs
    <3>. QED
      BY <2>1, <2>2, <3>1 DEF Effect, ListEffect, AckEffect, PendingEffect, JobEffect, Barrier
  <2>3. CASE job' = Idle /\ job.why \in {"delete", "expire"} /\ acked' = acked
    <3>1. ListEffect
      BY <1>12, <2>3 DEF Flushed, ListEffect
    <3>. QED
      BY <2>1, <2>3, <3>1, EffectEnd
  <2>4. CASE job.why = "lapse" /\ Lapse(job.answer = "ok")
    <3>1. job' = Idle /\ tasks' = tasks /\ AckEffect
      BY <2>1, <2>4 DEF Lapse, AckEffect
    <3>. QED
      BY <2>1, <3>1, IdleFields DEF Effect, ListEffect, PendingEffect, JobEffect, Barrier
  <2>. QED
    BY <1>12, <2>2, <2>3, <2>4 DEF Flushed
<1>13. CASE FlushGivenUp
  <2>1. job' = Idle /\ tasks' = tasks /\ acked' = acked /\ pending' = pending /\ born' = born
    BY <1>13 DEF FlushGivenUp, Lapse
  <2>. QED
    BY <2>1, EffectEnd DEF ListEffect
<1>14. CASE NotAcknowledged
  BY <1>14, EffectEnd DEF NotAcknowledged, ListEffect
<1>15. CASE LoopSkipped
  BY <1>15, EffectEnd DEF LoopSkipped, ListEffect
<1>16. CASE SpawnLoop
  <2>1. DOMAIN tasks' = DOMAIN tasks /\ acked' = acked /\ born' = born /\ pending' = pending
    BY <1>16 DEF SpawnLoop
  <2>2. job'.pc \notin Barrier /\ job'.task \in {None, job.task}
    BY <1>16, IdleFields DEF SpawnLoop, Barrier, TypeOK, Jobs
  <2>. QED
    BY <2>1, <2>2 DEF Effect, ListEffect, AckEffect, PendingEffect, JobEffect
<1>17. CASE Restore
  <2>1. DOMAIN tasks' = DOMAIN tasks
    BY <1>17 DEF Restore
  <2>. QED
    BY <1>17, <2>1, EffectEnd DEF Restore, ListEffect
<1>18. CASE Acknowledged
  <2>1. job' = Idle /\ tasks' = tasks /\ born' = born /\ pending' \in {pending, None}
    BY <1>18 DEF Acknowledged
  <2>2. AckEffect
    BY <1>18 DEF Acknowledged, AckEffect, JobOK, Barrier
  <2>. QED
    BY <2>1, <2>2, IdleFields DEF Effect, ListEffect, PendingEffect, JobEffect, Barrier
<1>19. CASE QueryAnswered
  <2>1. tasks' = tasks /\ acked' = acked /\ born' = born /\ pending' = pending
    BY <1>19 DEF QueryAnswered
  <2>2. job'.pc \notin Barrier /\ job'.task \in {None, job.task}
    BY <1>19, IdleFields DEF QueryAnswered, Barrier, TypeOK, Jobs
  <2>. QED
    BY <2>1, <2>2 DEF Effect, ListEffect, AckEffect, PendingEffect, JobEffect
<1>20. CASE UnitAnswered
  <2>1. tasks' = tasks /\ acked' = acked /\ born' = born /\ pending' = pending
    BY <1>20 DEF UnitAnswered
  <2>2. job'.pc \notin Barrier /\ job'.task \in {None, job.task}
    BY <1>20, IdleFields DEF UnitAnswered, Barrier, TypeOK, Jobs
  <2>. QED
    BY <2>1, <2>2 DEF Effect, ListEffect, AckEffect, PendingEffect, JobEffect
<1>21. ASSUME NEW s \in Subs, SubStarts(s) PROVE Effect
  BY <1>21, EffectAround DEF SubStarts
<1>22. ASSUME NEW s \in Subs, NEW how \in {"completed", "failed"}, SubEnds(s, how) PROVE Effect
  BY <1>22, EffectAround DEF SubEnds
<1>23. ASSUME NEW s \in Subs, BroodChanges(s) PROVE Effect
  BY <1>23, EffectAround DEF BroodChanges
<1>24. ASSUME NEW s \in Subs, Guard(s) PROVE Effect
  <2>1. DOMAIN tasks' = DOMAIN tasks
    BY <1>24 DEF Guard
  <2>. QED
    BY <1>24, <2>1, EffectAround DEF Guard
<1>25. CASE CoordinatorCloses
  BY <1>25, EffectAround DEF CoordinatorCloses
<1>26. CASE ConsumerCloses
  BY <1>26, EffectAround DEF ConsumerCloses
<1>27. CASE ToolSave
  BY <1>27, EffectAround DEF ToolSave
<1>28. CASE WriterSaves
  BY <1>28, EffectAround DEF WriterSaves
<1>29. CASE WriterFlushes
  <2>1. tasks' = tasks /\ acked' = acked /\ born' = born /\ pending' = pending
    BY <1>29 DEF WriterFlushes
  <2>2. CASE job' = job
    BY <2>1, <2>2, EffectAround
  <2>3. CASE chan[1].awaited /\ \E answer \in {"ok", "error"} : job' = [job EXCEPT !.answer = answer]
    <3>1. job'.pc = job.pc /\ job'.task = job.task /\ job'.why = job.why
      BY <2>3 DEF TypeOK, Jobs
    <3>. QED
      BY <1>29, <2>1, <2>3, <3>1 DEF Effect, ListEffect, AckEffect, PendingEffect, JobEffect
  <2>4. Head(chan) = chan[1]
    BY <1>29, HeadTail DEF WriterFlushes, TypeOK
  <2>. QED
    BY <1>29, <2>2, <2>3, <2>4 DEF WriterFlushes
<1>30. CASE WriterTicks
  BY <1>30, EffectAround DEF WriterTicks
<1>31. CASE Stop
  <2>1. job'.pc = "stopped" /\ job'.task = None
    BY <1>31, JobFields DEF Stop
  <2>. QED
    BY <1>31, <2>1 DEF Stop, Effect, ListEffect, AckEffect, PendingEffect, JobEffect, Barrier
<1>32. CASE Crash
  BY <1>32, EffectEnd DEF Crash, ListEffect
<1>33. CASE UNCHANGED vars
  BY <1>33, EffectAround DEF vars
<1>. QED
  BY <1>1, <1>2, <1>3, <1>4, <1>5, <1>6, <1>7, <1>8, <1>9, <1>10, <1>11, <1>12, <1>13, <1>14,
     <1>15, <1>16, <1>17, <1>18, <1>19, <1>20, <1>21, <1>22, <1>23, <1>24, <1>25, <1>26, <1>27,
     <1>28, <1>29, <1>30, <1>31, <1>32, <1>33
  DEF Next, Proceeds, Answered

----------------------------------------------------------------------------
(* Reservations and sizes *)

\* Reservations stay fresh while the clock stands.
LEMMA FreshKept ==
    ASSUME FreshOK, job'.res \in {job.res, None}, pending' \in {pending, None}, clock' = clock
    PROVE  FreshOK'
BY DEF FreshOK

\* Without a reservation nothing can be stale.
LEMMA FreshNone == ASSUME job'.res = None, pending' = None PROVE FreshOK'
BY DEF FreshOK

\* A version is committed only by who holds the only reservation, or while there is none.
LEMMA FreshStep == ASSUME TypeOK, JobOK, FreshOK, [Next]_vars PROVE FreshOK'
<1>1. ASSUME NEW t \in Ids, NEW p \in Prompts, Create(t, p) PROVE FreshOK'
  <2>1. job' = job /\ job.res = None /\ pending' = None
    BY <1>1 DEF Create, Waking, Selecting, JobOK
  <2>. QED
    BY <2>1, FreshNone
<1>2. ASSUME NEW t \in Ids, NEW p \in Prompts, NEW interval \in BOOLEAN, Update(t, p, interval) PROVE FreshOK'
  <2>1. job' = job /\ job.res = None /\ pending' = None
    BY <1>2 DEF Update, Waking, Selecting, JobOK
  <2>. QED
    BY <2>1, FreshNone
<1>3. ASSUME NEW t \in Ids, Delete(t) PROVE FreshOK'
  <2>1. pending'.res = Reserve(1) /\ job'.res = None /\ clock' = clock
    BY <1>3, JobFields DEF Delete
  <2>. QED
    BY <2>1, ReserveSmall DEF FreshOK, TypeOK
<1>4. ASSUME NEW t \in Ids, RetryDelete(t) PROVE FreshOK'
  <2>1. job'.res \in {job.res, None} /\ pending' \in {pending, None} /\ clock' = clock
    BY <1>4, JobFields DEF RetryDelete
  <2>. QED
    BY <2>1, FreshKept
<1>5. ASSUME NEW t \in Ids, ExpireDurable(t) PROVE FreshOK'
  <2>1. job' = job \/ job'.res = Reserve(1)
    <3>1. job' = job \/ job' = Job("flush", "expire", t, tasks[t], Reserve(1))
      BY <1>5 DEF ExpireDurable
    <3>. QED
      BY <3>1, JobFields
  <2>2. pending' = None /\ clock' = clock
    BY <1>5 DEF ExpireDurable, Waking
  <2>. QED
    BY <2>1, <2>2, ReserveSmall DEF FreshOK, TypeOK
<1>6. ASSUME NEW t \in Ids, ExpirePlain(t) PROVE FreshOK'
  <2>1. job'.res = Reserve(1) /\ pending' = None /\ clock' = clock
    BY <1>6, JobFields DEF ExpirePlain, Waking
  <2>. QED
    BY <2>1, ReserveSmall DEF FreshOK, TypeOK
<1>7. ASSUME NEW t \in Ids, FireForeground(t) PROVE FreshOK'
  <2>1. job' = job /\ job.res = None /\ pending' = None
    BY <1>7 DEF FireForeground, Waking, Selecting, JobOK
  <2>. QED
    BY <2>1, FreshNone
<1>8. ASSUME NEW t \in Ids, FireLoop(t) PROVE FreshOK'
  <2>1. job'.res \in {None, Reserve(1)} /\ pending' = None /\ clock' = clock
    BY <1>8, JobFields, IdleFields DEF FireLoop, Waking
  <2>. QED
    BY <2>1, ReserveSmall DEF FreshOK, TypeOK
<1>9. ASSUME NEW t \in Ids, BecomesDue(t) PROVE FreshOK'
  BY <1>9, FreshKept DEF BecomesDue
<1>10. ASSUME NEW t \in Ids, Expires(t) PROVE FreshOK'
  BY <1>10, FreshKept DEF Expires
<1>11. CASE Persist
  <2>1. job'.res \in {job.res, None} /\ pending' = pending /\ clock' = clock
    BY <1>11, IdleFields DEF Persist, TypeOK, Jobs
  <2>. QED
    BY <2>1, FreshKept
<1>12. CASE Flushed
  <2>1. CASE job.why = "lapse"
    <3>1. job' = Idle /\ pending' = None
      BY <1>12, <2>1 DEF Flushed, Lapse, JobOK, Barrier
    <3>. QED
      BY <3>1, IdleFields, FreshNone
  <2>2. CASE job.why # "lapse"
    <3>1. job'.res \in {job.res, None} /\ pending' = pending /\ clock' = clock
      BY <1>12, <2>2, IdleFields DEF Flushed, TypeOK, Jobs
    <3>. QED
      BY <3>1, FreshKept
  <2>. QED
    BY <2>1, <2>2
<1>13. CASE FlushGivenUp
  <2>1. CASE job.why = "lapse"
    <3>1. job' = Idle /\ pending' = None
      BY <1>13, <2>1 DEF FlushGivenUp, Lapse, JobOK, Barrier
    <3>. QED
      BY <3>1, IdleFields, FreshNone
  <2>2. CASE job.why # "lapse"
    <3>1. job'.res \in {job.res, None} /\ pending' = pending /\ clock' = clock
      BY <1>13, <2>2, IdleFields DEF FlushGivenUp, TypeOK, Jobs
    <3>. QED
      BY <3>1, FreshKept
  <2>. QED
    BY <2>1, <2>2
<1>14. CASE NotAcknowledged
  <2>1. job'.res \in {job.res, None} /\ pending' = pending /\ clock' = clock
    BY <1>14, IdleFields DEF NotAcknowledged, TypeOK, Jobs
  <2>. QED
    BY <2>1, FreshKept
<1>15. CASE LoopSkipped
  <2>1. job'.res \in {job.res, None} /\ pending' = pending /\ clock' = clock
    BY <1>15, IdleFields DEF LoopSkipped, TypeOK, Jobs
  <2>. QED
    BY <2>1, FreshKept
<1>16. CASE SpawnLoop
  <2>1. pending' = None
    BY <1>16 DEF SpawnLoop, JobOK, Firing
  <2>2. CASE coord
    <3>1. job' = Idle
      BY <1>16, <2>2 DEF SpawnLoop
    <3>. QED
      BY <2>1, <3>1, IdleFields, FreshNone
  <2>3. CASE ~coord
    <3>1. job'.res = job.res /\ clock' = clock
      BY <1>16, <2>3 DEF SpawnLoop, TypeOK, Jobs
    <3>. QED
      BY <2>1, <3>1, FreshKept
  <2>. QED
    BY <2>2, <2>3
<1>17. CASE Restore
  <2>1. job' = Idle /\ pending' = None
    BY <1>17 DEF Restore, JobOK, Firing
  <2>. QED
    BY <2>1, IdleFields, FreshNone
<1>18. CASE Acknowledged
  <2>1. job' = Idle /\ pending' = None
    BY <1>18 DEF Acknowledged, JobOK, Barrier
  <2>. QED
    BY <2>1, IdleFields, FreshNone
<1>19. CASE QueryAnswered
  <2>1. job'.res \in {job.res, None} /\ pending' = pending /\ clock' = clock
    BY <1>19, IdleFields DEF QueryAnswered, TypeOK, Jobs
  <2>. QED
    BY <2>1, FreshKept
<1>20. CASE UnitAnswered
  <2>1. job'.res \in {job.res, None} /\ pending' = pending /\ clock' = clock
    BY <1>20, IdleFields DEF UnitAnswered, TypeOK, Jobs
  <2>. QED
    BY <2>1, FreshKept
<1>21. ASSUME NEW s \in Subs, SubStarts(s) PROVE FreshOK'
  BY <1>21, FreshKept DEF SubStarts
<1>22. ASSUME NEW s \in Subs, NEW how \in {"completed", "failed"}, SubEnds(s, how) PROVE FreshOK'
  BY <1>22, FreshKept DEF SubEnds
<1>23. ASSUME NEW s \in Subs, BroodChanges(s) PROVE FreshOK'
  BY <1>23, FreshKept DEF BroodChanges
<1>24. ASSUME NEW s \in Subs, Guard(s) PROVE FreshOK'
  BY <1>24, FreshKept DEF Guard
<1>25. CASE CoordinatorCloses
  BY <1>25, FreshKept DEF CoordinatorCloses
<1>26. CASE ConsumerCloses
  BY <1>26, FreshKept DEF ConsumerCloses
<1>27. CASE ToolSave
  BY <1>27, FreshKept DEF ToolSave
<1>28. CASE WriterSaves
  BY <1>28, FreshKept DEF WriterSaves
<1>29. CASE WriterFlushes
  <2>1. job'.res \in {job.res, None} /\ pending' = pending /\ clock' = clock
    BY <1>29, IdleFields DEF WriterFlushes, TypeOK, Jobs
  <2>. QED
    BY <2>1, FreshKept
<1>30. CASE WriterTicks
  BY <1>30, FreshKept DEF WriterTicks
<1>31. CASE Stop
  BY <1>31, JobFields, FreshNone DEF Stop
<1>32. CASE Crash
  BY <1>32, IdleFields, FreshNone DEF Crash
<1>33. CASE UNCHANGED vars
  BY <1>33, FreshKept DEF vars
<1>. QED
  BY <1>1, <1>2, <1>3, <1>4, <1>5, <1>6, <1>7, <1>8, <1>9, <1>10, <1>11, <1>12, <1>13, <1>14,
     <1>15, <1>16, <1>17, <1>18, <1>19, <1>20, <1>21, <1>22, <1>23, <1>24, <1>25, <1>26, <1>27,
     <1>28, <1>29, <1>30, <1>31, <1>32, <1>33
  DEF Next, Proceeds, Answered

\* The domain of a list is a finite set.
LEMMA ListFinite ==
    ASSUME NEW f \in Lists
    PROVE  IsFiniteSet(DOMAIN f) /\ Cardinality(DOMAIN f) \in Nat
BY ListsAre, SchedulerAssumption, FS_Subset, FS_CardinalityType

\* No step makes a list longer than the limit.
LEMMA SizeStep == ASSUME TypeOK, JobOK, SizeOK, [Next]_vars PROVE SizeOK'
<1>. USE SchedulerAssumption
<1>1. Effect /\ TypeOK' /\ \A f \in Snapshots' : f = tasks' \/ f \in Snapshots
  BY EffectStep, TypeStep, ListStep
<1>2. tasks \in Snapshots /\ disk \in Snapshots /\ tasks \in Lists /\ tasks' \in Lists
  BY <1>1 DEF Snapshots, TypeOK
<1>3. IsFiniteSet(DOMAIN tasks) /\ Cardinality(DOMAIN tasks) \in Nat
  BY <1>2, ListFinite
<1>4. Cardinality(DOMAIN tasks') <= MaxTasks
  <2>1. CASE DOMAIN tasks' \subseteq DOMAIN tasks
    <3>1. Cardinality(DOMAIN tasks') \in Nat /\ Cardinality(DOMAIN tasks') <= Cardinality(DOMAIN tasks)
      BY <1>2, <1>3, <2>1, FS_Subset, FS_CardinalityType
    <3>. QED
      BY <1>2, <1>3, <3>1 DEF SizeOK
  <2>2. ASSUME NEW t \in Ids, NEW p \in Prompts, Create(t, p) PROVE Cardinality(DOMAIN tasks') <= MaxTasks
    <3>1. DOMAIN tasks' = DOMAIN tasks \cup {t} /\ Cardinality(DOMAIN tasks) < MaxTasks
      BY <1>2, <2>2, WithList, NewTask DEF Create
    <3>2. Cardinality(DOMAIN tasks \cup {t}) \in {Cardinality(DOMAIN tasks), Cardinality(DOMAIN tasks) + 1}
      BY <1>3, FS_AddElement
    <3>. QED
      BY <1>3, <3>1, <3>2
  <2>3. CASE Flushed /\ job.why = "expire" /\ tasks' = With(tasks, job.task, job.old)
    <3>1. job.pc \in Barrier /\ job.task \in Ids /\ job.old \in Task
      BY <2>3 DEF Flushed, JobOK, Barrier
    <3>2. DOMAIN tasks' = DOMAIN tasks \cup {job.task}
      BY <1>2, <2>3, <3>1, WithList
    <3>. QED
      BY <2>3, <3>1, <3>2 DEF SizeOK
  <2>4. CASE Crash
    BY <1>2, <2>4 DEF Crash, SizeOK
  <2>. QED
    BY <1>1, <2>1, <2>2, <2>3, <2>4 DEF Effect, ListEffect
<1>5. \A f \in Snapshots' : Cardinality(DOMAIN f) <= MaxTasks
  BY <1>1, <1>4 DEF SizeOK
<1>6. ASSUME job'.pc \in Barrier, job'.why = "expire"
      PROVE  Cardinality(DOMAIN tasks' \cup {job'.task}) <= MaxTasks
  <2>1. CASE job.pc \in Barrier /\ job'.task = job.task /\ job'.why = job.why /\ DOMAIN tasks' = DOMAIN tasks
    BY <1>6, <2>1 DEF SizeOK
  <2>2. ASSUME NEW t \in Ids, ExpireDurable(t), targets
        PROVE  Cardinality(DOMAIN tasks' \cup {job'.task}) <= MaxTasks
    <3>1. job'.task = t /\ DOMAIN tasks' = DOMAIN tasks \ {t} /\ t \in DOMAIN tasks
      <4>1. /\ job' = Job("flush", "expire", t, tasks[t], Reserve(1))
            /\ tasks' = Without(tasks, t) /\ t \in DOMAIN tasks
        BY <2>2 DEF ExpireDurable, Waking
      <4>. QED
        BY <1>2, <4>1, WithoutList, JobFields
    <3>2. DOMAIN tasks' \cup {job'.task} = DOMAIN tasks
      BY <3>1
    <3>. QED
      BY <1>2, <3>2 DEF SizeOK
  <2>3. ASSUME NEW t \in Ids, Delete(t) \/ (RetryDelete(t) /\ targets) \/ ExpirePlain(t) PROVE job'.why # "expire"
    BY <2>3, JobFields DEF Delete, RetryDelete, ExpirePlain
  <2>. QED
    BY <1>1, <1>6, <2>1, <2>2, <2>3 DEF Effect, JobEffect
<1>. QED
  BY <1>5, <1>6 DEF SizeOK

----------------------------------------------------------------------------
(* The awaited flush *)

\* A step that touches neither channel nor handler keeps what is awaited.
LEMMA AwaitedKept == ASSUME AwaitedOK, chan' = chan, job' = job PROVE AwaitedOK'
BY DEF AwaitedOK

\* Only a handler that waits for a flush has an awaited entry.
LEMMA AwaitedBy ==
    ASSUME AwaitedOK, job.pc # "flush" \/ job.answer # "none"
    PROVE  \A i \in DOMAIN chan : ~chan[i].awaited
BY DEF AwaitedOK

\* A channel in which nothing is awaited is in order.
LEMMA AwaitedNone ==
    ASSUME \A i \in DOMAIN chan' : ~chan'[i].awaited
    PROVE  AwaitedOK'
BY DEF AwaitedOK

\* A new flush of a list without the task.
LEMMA AwaitedAppend ==
    ASSUME chan \in Seq(Entries), \A i \in DOMAIN chan : ~chan[i].awaited,
           NEW snap \in Lists, Enqueue("flush", snap, TRUE),
           job'.pc = "flush", job'.answer = "none", job'.task \notin DOMAIN snap
    PROVE  AwaitedOK'
<1>1. PICK e \in Entries : e.kind = "flush" /\ e.snap = snap /\ chan' = Append(chan, e)
  BY EntryIn DEF Enqueue
<1>2. /\ DOMAIN chan' = DOMAIN chan \cup {Len(chan) + 1} /\ Len(chan) \in Nat
      /\ DOMAIN chan = 1 .. Len(chan)
      /\ \A i \in DOMAIN chan : chan'[i] = chan[i]
      /\ chan'[Len(chan) + 1] = e
  BY <1>1, Appended
<1>3. \A i \in DOMAIN chan' : chan'[i].awaited => i = Len(chan) + 1
  BY <1>2
<1>4. \A j \in DOMAIN chan' : j >= Len(chan) + 1 => j = Len(chan) + 1
  BY <1>2
<1>. QED
  BY <1>1, <1>2, <1>3, <1>4 DEF AwaitedOK

\* Every step keeps at most one awaited flush, sent after its task had left the list.
LEMMA AwaitedStep == ASSUME TypeOK, JobOK, AbsentOK, AwaitedOK, [Next]_vars PROVE AwaitedOK'
<1>1. ASSUME NEW t \in Ids, NEW p \in Prompts, Create(t, p) PROVE AwaitedOK'
  BY <1>1, AwaitedKept DEF Create, writer
<1>2. ASSUME NEW t \in Ids, NEW p \in Prompts, NEW interval \in BOOLEAN, Update(t, p, interval) PROVE AwaitedOK'
  BY <1>2, AwaitedKept DEF Update, writer
<1>3. ASSUME NEW t \in Ids, Delete(t) PROVE AwaitedOK'
  <2>1. chan' = chan /\ (job.pc # "flush" \/ job.answer # "none")
    BY <1>3 DEF Delete, Selecting, writer
  <2>. QED
    BY <2>1, AwaitedBy, AwaitedNone
<1>4. ASSUME NEW t \in Ids, RetryDelete(t) PROVE AwaitedOK'
  <2>1. chan' = chan /\ (job.pc # "flush" \/ job.answer # "none")
    BY <1>4 DEF RetryDelete, Selecting, writer
  <2>. QED
    BY <2>1, AwaitedBy, AwaitedNone
<1>5. ASSUME NEW t \in Ids, ExpireDurable(t) PROVE AwaitedOK'
  <2>1. \A i \in DOMAIN chan : ~chan[i].awaited
    BY <1>5, AwaitedBy DEF ExpireDurable, Waking, Selecting
  <2>2. CASE ~targets
    BY <1>5, <2>1, <2>2, AwaitedNone DEF ExpireDurable
  <2>3. CASE targets
    <3>1. /\ job' = Job("flush", "expire", t, tasks[t], Reserve(1))
          /\ tasks' = Without(tasks, t) /\ Enqueue("flush", tasks', TRUE)
      BY <1>5, <2>3 DEF ExpireDurable
    <3>2. tasks' \in Lists /\ t \notin DOMAIN tasks'
      BY <3>1, WithoutList DEF TypeOK
    <3>3. PICK snap : snap = tasks'
      OBVIOUS
    <3>4. snap \in Lists /\ Enqueue("flush", snap, TRUE) /\ t \notin DOMAIN snap
      BY <3>1, <3>2, <3>3
    <3>5. job'.pc = "flush" /\ job'.answer = "none" /\ job'.task = t
      BY <3>1, JobFields
    <3>. QED
      BY <2>1, <3>4, <3>5, AwaitedAppend DEF TypeOK
  <2>. QED
    BY <2>2, <2>3
<1>6. ASSUME NEW t \in Ids, ExpirePlain(t) PROVE AwaitedOK'
  <2>1. chan' = chan /\ (job.pc # "flush" \/ job.answer # "none")
    BY <1>6 DEF ExpirePlain, Waking, Selecting, writer
  <2>. QED
    BY <2>1, AwaitedBy, AwaitedNone
<1>7. ASSUME NEW t \in Ids, FireForeground(t) PROVE AwaitedOK'
  BY <1>7, AwaitedKept DEF FireForeground, writer
<1>8. ASSUME NEW t \in Ids, FireLoop(t) PROVE AwaitedOK'
  <2>1. chan' = chan /\ (job.pc # "flush" \/ job.answer # "none")
    BY <1>8 DEF FireLoop, Waking, Selecting, writer
  <2>. QED
    BY <2>1, AwaitedBy, AwaitedNone
<1>9. ASSUME NEW t \in Ids, BecomesDue(t) PROVE AwaitedOK'
  BY <1>9, AwaitedKept DEF BecomesDue, writer
<1>10. ASSUME NEW t \in Ids, Expires(t) PROVE AwaitedOK'
  BY <1>10, AwaitedKept DEF Expires, writer
<1>11. CASE Persist
  <2>1. job.pc = "persist" /\ Enqueue("flush", tasks, TRUE) /\ tasks \in Lists
    BY <1>11 DEF Persist, TypeOK
  <2>2. job'.pc = "flush" /\ job'.answer = job.answer /\ job'.task = job.task
    BY <1>11 DEF Persist, TypeOK, Jobs
  <2>3. job.answer = "none" /\ job.task \notin DOMAIN tasks
    BY <2>1 DEF AbsentOK, Barrier
  <2>4. \A i \in DOMAIN chan : ~chan[i].awaited
    BY <2>1, AwaitedBy
  <2>. QED
    BY <2>1, <2>2, <2>3, <2>4, AwaitedAppend DEF TypeOK
<1>12. CASE Flushed
  <2>1. chan' = chan /\ (job.pc # "flush" \/ job.answer # "none")
    BY <1>12 DEF Flushed, writer
  <2>. QED
    BY <2>1, AwaitedBy, AwaitedNone
<1>13. CASE FlushGivenUp
  <2>1. \A i \in DOMAIN chan' : ~chan'[i].awaited
    BY <1>13, GivenUp DEF FlushGivenUp, TypeOK
  <2>. QED
    BY <2>1, AwaitedNone
<1>14. CASE NotAcknowledged
  <2>1. chan' = chan /\ (job.pc # "flush" \/ job.answer # "none")
    BY <1>14 DEF NotAcknowledged, writer
  <2>. QED
    BY <2>1, AwaitedBy, AwaitedNone
<1>15. CASE LoopSkipped
  <2>1. chan' = chan /\ (job.pc # "flush" \/ job.answer # "none")
    BY <1>15 DEF LoopSkipped, writer
  <2>. QED
    BY <2>1, AwaitedBy, AwaitedNone
<1>16. CASE SpawnLoop
  <2>1. chan' = chan /\ (job.pc # "flush" \/ job.answer # "none")
    BY <1>16 DEF SpawnLoop, writer
  <2>. QED
    BY <2>1, AwaitedBy, AwaitedNone
<1>17. CASE Restore
  <2>1. chan' = chan /\ (job.pc # "flush" \/ job.answer # "none")
    BY <1>17 DEF Restore, writer
  <2>. QED
    BY <2>1, AwaitedBy, AwaitedNone
<1>18. CASE Acknowledged
  <2>1. chan' = chan /\ (job.pc # "flush" \/ job.answer # "none")
    BY <1>18 DEF Acknowledged, writer
  <2>. QED
    BY <2>1, AwaitedBy, AwaitedNone
<1>19. CASE QueryAnswered
  <2>1. chan' = chan /\ (job.pc # "flush" \/ job.answer # "none")
    BY <1>19 DEF QueryAnswered, writer
  <2>. QED
    BY <2>1, AwaitedBy, AwaitedNone
<1>20. CASE UnitAnswered
  <2>1. chan' = chan /\ (job.pc # "flush" \/ job.answer # "none")
    BY <1>20 DEF UnitAnswered, writer
  <2>. QED
    BY <2>1, AwaitedBy, AwaitedNone
<1>21. ASSUME NEW s \in Subs, SubStarts(s) PROVE AwaitedOK'
  BY <1>21, AwaitedKept DEF SubStarts, writer
<1>22. ASSUME NEW s \in Subs, NEW how \in {"completed", "failed"}, SubEnds(s, how) PROVE AwaitedOK'
  BY <1>22, AwaitedKept DEF SubEnds, writer
<1>23. ASSUME NEW s \in Subs, BroodChanges(s) PROVE AwaitedOK'
  BY <1>23, AwaitedKept DEF BroodChanges, writer
<1>24. ASSUME NEW s \in Subs, Guard(s) PROVE AwaitedOK'
  BY <1>24, AwaitedKept DEF Guard, writer
<1>25. CASE CoordinatorCloses
  BY <1>25, AwaitedKept DEF CoordinatorCloses, writer
<1>26. CASE ConsumerCloses
  BY <1>26, AwaitedKept DEF ConsumerCloses, writer
<1>27. CASE ToolSave
  <2>1. Enqueue("save", tasks, FALSE) /\ tasks \in Lists /\ job' = job
    BY <1>27 DEF ToolSave, TypeOK
  <2>2. PICK e \in Entries : ~e.awaited /\ e.snap = tasks /\ chan' = Append(chan, e)
    BY <2>1, EntryIn DEF Enqueue
  <2>3. /\ DOMAIN chan' = DOMAIN chan \cup {Len(chan) + 1}
        /\ \A i \in DOMAIN chan : chan'[i] = chan[i]
        /\ chan'[Len(chan) + 1] = e
    BY <2>2, Appended DEF TypeOK
  <2>4. \A i \in DOMAIN chan' : chan'[i].awaited => i \in DOMAIN chan /\ chan[i].awaited
    BY <2>2, <2>3
  <2>5. job.pc = "flush" => job.task \notin DOMAIN tasks
    BY DEF AbsentOK, Barrier
  <2>. QED
    BY <2>1, <2>2, <2>3, <2>4, <2>5 DEF AwaitedOK
<1>28. CASE WriterSaves
  <2>1. /\ DOMAIN chan' = 1 .. Len(Tail(chan)) /\ Head(chan) = chan[1] /\ 1 \in DOMAIN chan
        /\ \A i \in DOMAIN chan' : chan'[i] = chan[i + 1] /\ i + 1 \in DOMAIN chan
    BY <1>28, HeadTail DEF WriterSaves, TypeOK
  <2>2. Len(Tail(chan)) \in Nat
    BY <1>28, HeadTail DEF WriterSaves, TypeOK
  <2>3. job' = job
    BY <1>28 DEF WriterSaves
  <2>. QED
    BY <2>1, <2>2, <2>3 DEF AwaitedOK
<1>29. CASE WriterFlushes
  <2>1. /\ DOMAIN chan' = 1 .. Len(Tail(chan)) /\ Head(chan) = chan[1] /\ 1 \in DOMAIN chan
        /\ \A i \in DOMAIN chan' : chan'[i] = chan[i + 1] /\ i + 1 \in DOMAIN chan
    BY <1>29, HeadTail DEF WriterFlushes, TypeOK
  <2>2. Len(Tail(chan)) \in Nat
    BY <1>29, HeadTail DEF WriterFlushes, TypeOK
  <2>3. CASE chan[1].awaited
    <3>1. \A i \in DOMAIN chan' : ~chan'[i].awaited
      BY <2>1, <2>2, <2>3 DEF AwaitedOK
    <3>. QED
      BY <3>1, AwaitedNone
  <2>4. CASE ~chan[1].awaited
    <3>1. job' = job
      BY <1>29, <2>1, <2>4 DEF WriterFlushes
    <3>. QED
      BY <2>1, <2>2, <3>1 DEF AwaitedOK
  <2>. QED
    BY <2>3, <2>4
<1>30. CASE WriterTicks
  BY <1>30, AwaitedKept DEF WriterTicks, writer
<1>31. CASE Stop
  <2>1. chan' = chan /\ (job.pc # "flush" \/ job.answer # "none")
    BY <1>31 DEF Stop, Selecting, writer
  <2>. QED
    BY <2>1, AwaitedBy, AwaitedNone
<1>32. CASE Crash
  BY <1>32, EmptyDomain, AwaitedNone DEF Crash
<1>33. CASE UNCHANGED vars
  BY <1>33, AwaitedKept DEF vars, writer
<1>. QED
  BY <1>1, <1>2, <1>3, <1>4, <1>5, <1>6, <1>7, <1>8, <1>9, <1>10, <1>11, <1>12, <1>13, <1>14,
     <1>15, <1>16, <1>17, <1>18, <1>19, <1>20, <1>21, <1>22, <1>23, <1>24, <1>25, <1>26, <1>27,
     <1>28, <1>29, <1>30, <1>31, <1>32, <1>33
  DEF Next, Proceeds, Answered

----------------------------------------------------------------------------
(* Removals are final *)

\* The writer's answer is about the only awaited entry.  After a success the task is in
\* no snapshot: the entry and the ones behind it do not have it, and the older pending
\* snapshot is dropped.
LEMMA FlushMakesAbsent ==
    ASSUME TypeOK, AbsentOK, AwaitedOK, WriterFlushes, chan[1].awaited, job'.answer = "ok"
    PROVE  \A f \in Snapshots' : job.task \notin DOMAIN f
<1>1. /\ DOMAIN chan' = 1 .. Len(Tail(chan)) /\ Head(chan) = chan[1] /\ 1 \in DOMAIN chan
      /\ Len(Tail(chan)) \in Nat
      /\ \A i \in DOMAIN chan' : chan'[i] = chan[i + 1] /\ i + 1 \in DOMAIN chan
  BY HeadTail DEF WriterFlushes, TypeOK
<1>2. job.pc = "flush" /\ \A j \in DOMAIN chan : j >= 1 => job.task \notin DOMAIN chan[j].snap
  BY <1>1 DEF AwaitedOK
<1>3. job.task \notin DOMAIN tasks
  BY <1>2 DEF AbsentOK, Barrier
<1>4. disk' = chan[1].snap /\ buffer' = None /\ tasks' = tasks
  <2>1. PICK renamed \in BOOLEAN, answer \in {"ok", "error"} :
            /\ answer = "ok" => renamed
            /\ disk' = IF renamed THEN chan[1].snap ELSE disk
            /\ job' = [job EXCEPT !.answer = answer]
    BY <1>1 DEF WriterFlushes
  <2>2. job'.answer = answer
    BY <2>1 DEF TypeOK, Jobs
  <2>. QED
    BY <2>1, <2>2 DEF WriterFlushes
<1>5. \A i \in DOMAIN chan' : job.task \notin DOMAIN chan'[i].snap
  BY <1>1, <1>2
<1>. QED
  BY <1>1, <1>2, <1>3, <1>4, <1>5 DEF Snapshots

\* Every step keeps removed tasks away.
LEMMA AbsentStep == ASSUME TypeOK, JobOK, AbsentOK, AwaitedOK, [Next]_vars PROVE AbsentOK'
<1>1. Effect /\ \A f \in Snapshots' : f = tasks' \/ f \in Snapshots
  BY EffectStep, ListStep
<1>2. tasks \in Snapshots /\ disk \in Snapshots /\ tasks \in Lists /\ DOMAIN tasks \subseteq born
  BY DEF Snapshots, TypeOK, AbsentOK
<1>3. acked' \cap DOMAIN tasks' = {} /\ DOMAIN tasks' \subseteq born'
  <2>1. CASE DOMAIN tasks' \subseteq DOMAIN tasks /\ acked' = acked
    BY <1>1, <1>2, <2>1 DEF AbsentOK, Effect
  <2>2. CASE acked' # acked
    <3>1. acked' = acked \cup {job.task} /\ job.pc \in Barrier /\ tasks' = tasks /\ born' = born
      BY <1>1, <2>2 DEF Effect, AckEffect, Barrier
    <3>. QED
      BY <1>2, <3>1 DEF AbsentOK
  <2>3. ASSUME NEW t \in Ids, NEW p \in Prompts, Create(t, p)
        PROVE  acked' \cap DOMAIN tasks' = {} /\ DOMAIN tasks' \subseteq born'
    <3>1. DOMAIN tasks' = DOMAIN tasks \cup {t} /\ t \notin born /\ born' = born \cup {t} /\ acked' = acked
      BY <1>2, <2>3, WithList, NewTask DEF Create
    <3>. QED
      BY <1>2, <3>1 DEF AbsentOK
  <2>4. CASE Flushed /\ job.why = "expire" /\ tasks' = With(tasks, job.task, job.old) /\ acked' = acked
    <3>1. job.pc \in Barrier /\ job.task \in Ids /\ job.old \in Task /\ born' = born
      BY <2>4 DEF Flushed, JobOK, Barrier
    <3>2. DOMAIN tasks' = DOMAIN tasks \cup {job.task}
      BY <1>2, <2>4, <3>1, WithList
    <3>3. job.task \in born /\ job.task \notin acked
      BY <2>4, <3>1, SchedulerAssumption DEF AbsentOK
    <3>. QED
      BY <1>2, <2>4, <3>1, <3>2, <3>3 DEF AbsentOK
  <2>5. CASE Crash
    BY <1>2, <2>5 DEF Crash, AbsentOK
  <2>. QED
    BY <1>1, <2>1, <2>2, <2>3, <2>4, <2>5 DEF Effect, ListEffect
<1>4. \A f \in Snapshots' : DOMAIN f \subseteq born' /\ acked' \cap DOMAIN f = {}
  <2>1. ASSUME NEW f \in Snapshots PROVE DOMAIN f \subseteq born' /\ acked' \cap DOMAIN f = {}
    <3>1. DOMAIN f \subseteq born /\ acked \cap DOMAIN f = {} /\ born \subseteq born'
      BY <1>1 DEF AbsentOK, Effect
    <3>2. CASE acked' # acked
      <4>1. acked' = acked \cup {job.task} /\ job.pc \in {"flush", "publish"} /\ job.answer = "ok"
        BY <1>1, <3>2 DEF Effect, AckEffect, AbsentOK
      <4>. QED
        BY <3>1, <4>1 DEF AbsentOK
    <3>. QED
      BY <3>1, <3>2
  <2>. QED
    BY <1>1, <1>3, <2>1
<1>5. acked' \subseteq born'
  BY <1>1, SchedulerAssumption DEF Effect, AckEffect, AbsentOK
<1>6. job'.task \in born' \cup {None}
  <2>1. ASSUME NEW t \in Ids, Delete(t) \/ (ExpireDurable(t) /\ targets) \/ ExpirePlain(t)
        PROVE  job'.task = t /\ t \in DOMAIN tasks
    <3>1. t \in DOMAIN tasks
      BY <2>1 DEF Delete, ExpireDurable, ExpirePlain, Waking
    <3>2. \/ job' = Job("persist", "delete", t, None, None)
          \/ job' = Job("flush", "expire", t, tasks[t], Reserve(1))
          \/ job' = Job("persist", "lapse", t, None, Reserve(1))
      BY <2>1 DEF Delete, ExpireDurable, ExpirePlain
    <3>. QED
      BY <3>1, <3>2, JobFields
  <2>2. ASSUME NEW t \in Ids, RetryDelete(t), targets PROVE job'.task \in born
    <3>1. job' = Job("persist", "delete", t, None, None) /\ pending # None /\ pending.task = t
      BY <2>2 DEF RetryDelete
    <3>. QED
      BY <3>1, JobFields DEF AbsentOK
  <2>3. job.task \in born \cup {None} /\ born \subseteq born'
    BY <1>1 DEF AbsentOK, Effect
  <2>4. ASSUME NEW t \in Ids, Delete(t) \/ (RetryDelete(t) /\ targets) \/ (ExpireDurable(t) /\ targets) \/ ExpirePlain(t)
        PROVE  job'.task \in born
    BY <1>2, <2>1, <2>2, <2>4
  <2>5. job'.task \in {None, job.task} \cup DOMAIN tasks
        \/ \E t \in Ids : Delete(t) \/ (RetryDelete(t) /\ targets) \/ (ExpireDurable(t) /\ targets) \/ ExpirePlain(t)
    BY <1>1 DEF Effect, JobEffect
  <2>. QED
    BY <1>2, <2>3, <2>4, <2>5
<1>7. pending' # None => pending'.task \in born' /\ pending'.task \notin DOMAIN tasks'
  <2>1. ASSUME NEW t \in Ids, Delete(t) PROVE pending'.task = t /\ t \in born' /\ t \notin DOMAIN tasks'
    <3>1. tasks' = Without(tasks, t) /\ pending'.task = t /\ t \in DOMAIN tasks /\ born' = born
      BY <2>1 DEF Delete
    <3>. QED
      BY <1>2, <3>1, WithoutList
  <2>2. ASSUME pending' = pending, pending # None PROVE pending.task \in born' /\ pending.task \notin DOMAIN tasks'
    <3>1. pending.task \in born /\ pending.task \notin DOMAIN tasks /\ born \subseteq born'
      BY <1>1, <2>2 DEF AbsentOK, Effect
    <3>2. \A t \in Ids, p \in Prompts : ~Create(t, p)
      BY <2>2 DEF Create
    <3>3. ~(Flushed /\ job.why = "expire") /\ ~Crash
      BY <2>2 DEF Flushed, Crash, JobOK, Barrier
    <3>. QED
      BY <1>1, <3>1, <3>2, <3>3 DEF Effect, ListEffect
  <2>. QED
    BY <1>1, <2>1, <2>2 DEF Effect, PendingEffect
<1>8. CASE job'.pc \notin Barrier
  <2>1. job'.pc \notin {"persist", "flush", "publish"}
    BY <1>8 DEF Barrier
  <2>. QED
    BY <1>4, <1>5, <1>6, <1>7, <2>1 DEF AbsentOK, Barrier
<1>9. CASE \E t \in Ids : Delete(t) \/ (RetryDelete(t) /\ targets) \/ (ExpireDurable(t) /\ targets) \/ ExpirePlain(t)
  <2>1. PICK t \in Ids : Delete(t) \/ (RetryDelete(t) /\ targets) \/ (ExpireDurable(t) /\ targets) \/ ExpirePlain(t)
    BY <1>9
  <2>2. \/ job' = Job("persist", "delete", t, None, None)
        \/ job' = Job("flush", "expire", t, tasks[t], Reserve(1)) /\ t \in DOMAIN tasks
        \/ job' = Job("persist", "lapse", t, None, Reserve(1))
    BY <2>1 DEF Delete, RetryDelete, ExpireDurable, ExpirePlain, Waking
  <2>3. /\ job'.task = t /\ job'.answer = "none" /\ job'.pc \in {"persist", "flush"}
        /\ job'.why = "expire" => t \in DOMAIN tasks
    BY <2>2, JobFields
  <2>4. t \notin DOMAIN tasks' /\ acked' = acked
    <3>1. CASE RetryDelete(t)
      BY <3>1 DEF RetryDelete, AbsentOK
    <3>2. CASE ~RetryDelete(t)
      <4>1. tasks' = Without(tasks, t) /\ acked' = acked
        BY <2>1, <3>2 DEF Delete, ExpireDurable, ExpirePlain
      <4>. QED
        BY <1>2, <4>1, WithoutList
    <3>. QED
      BY <3>1, <3>2
  <2>5. job'.why = "expire" => t \notin acked
    BY <1>2, <2>3 DEF AbsentOK
  <2>. QED
    BY <1>4, <1>5, <1>6, <1>7, <2>3, <2>4, <2>5 DEF AbsentOK
<1>10. CASE /\ job.pc \in Barrier /\ job'.task = job.task /\ job'.why = job.why
            /\ DOMAIN tasks' = DOMAIN tasks /\ acked' = acked
            /\ \/ job'.pc = job.pc /\ job'.answer = job.answer
               \/ job.pc = "persist" /\ job'.pc = "flush" /\ job'.answer = job.answer
               \/ job.pc = "flush" /\ job'.pc = "publish" /\ job.answer = "ok" /\ job'.answer = "ok"
               \/ WriterFlushes /\ chan[1].awaited /\ job'.pc = job.pc
  <2>1. job.task \notin DOMAIN tasks' /\ (job.why = "expire" => job.task \notin acked')
    BY <1>10 DEF AbsentOK
  <2>2. ASSUME job.pc \in {"flush", "publish"}, job.answer = "ok" PROVE \A f \in Snapshots' : job.task \notin DOMAIN f
    BY <1>1, <2>1, <2>2 DEF AbsentOK
  <2>3. CASE WriterFlushes /\ chan[1].awaited /\ job'.pc = job.pc
    <3>1. job.pc = "flush"
      <4>1. 1 \in DOMAIN chan
        BY <2>3, HeadTail DEF WriterFlushes, TypeOK
      <4>. QED
        BY <2>3, <4>1 DEF AwaitedOK
    <3>2. job'.answer = "ok" => \A f \in Snapshots' : job.task \notin DOMAIN f
      BY <2>3, FlushMakesAbsent
    <3>. QED
      BY <1>4, <1>5, <1>6, <1>7, <1>10, <2>1, <2>3, <3>1, <3>2 DEF AbsentOK
  <2>4. CASE job'.pc = job.pc /\ job'.answer = job.answer
    BY <1>4, <1>5, <1>6, <1>7, <1>10, <2>1, <2>2, <2>4 DEF AbsentOK
  <2>5. CASE job.pc = "persist" /\ job'.pc = "flush" /\ job'.answer = job.answer
    BY <1>4, <1>5, <1>6, <1>7, <1>10, <2>1, <2>5 DEF AbsentOK
  <2>6. CASE job.pc = "flush" /\ job'.pc = "publish" /\ job.answer = "ok" /\ job'.answer = "ok"
    BY <1>4, <1>5, <1>6, <1>7, <1>10, <2>1, <2>2, <2>6 DEF AbsentOK
  <2>. QED
    BY <1>10, <2>3, <2>4, <2>5, <2>6
<1>. QED
  BY <1>1, <1>8, <1>9, <1>10 DEF Effect, JobEffect

----------------------------------------------------------------------------
(* The theorems *)

Inv == TypeOK /\ JobOK /\ AbsentOK /\ AwaitedOK /\ SizeOK /\ FreshOK

\* The inductive invariant holds in the initial states: a list read from the file, an idle actor.
LEMMA InitInv == Init => Inv
<1>. SUFFICES ASSUME Init PROVE Inv
  OBVIOUS
<1>1. disk \in Lists /\ tasks = disk /\ DOMAIN disk = Restored
  <2>1. New(AnyPrompt) \in Task
    BY AnyPromptIn, NewTask
  <2>. QED
    BY <2>1, ListsAre, SchedulerAssumption DEF Init
<1>2. job = Idle /\ pending = None /\ buffer = None /\ chan = <<>> /\ DOMAIN chan = {} /\ acked = {} /\ born = Restored
  BY EmptyDomain DEF Init
<1>3. Snapshots = {disk}
  BY <1>1, <1>2 DEF Snapshots
<1>4. sub \in [Subs -> Iterations]
  BY AnyPromptIn DEF Init, Unused, Iterations, States
<1>5. clock \in Version
  <2>1. (CHOOSE g \in Gens : TRUE) \in Gens /\ 0 \in 0 .. MaxRev
    BY SchedulerAssumption
  <2>. QED
    BY <2>1 DEF Init, Version
<1>6. TypeOK
  BY <1>1, <1>2, <1>4, <1>5, IdleIn, EmptySeq, SchedulerAssumption DEF Init, TypeOK
<1>7. JobOK /\ FreshOK
  BY <1>2, IdleFields DEF JobOK, FreshOK, Barrier, Firing
<1>8. AbsentOK /\ AwaitedOK
  BY <1>1, <1>2, <1>3, IdleFields DEF AbsentOK, AwaitedOK, Barrier
<1>9. SizeOK
  BY <1>1, <1>2, <1>3, IdleFields, SchedulerAssumption DEF SizeOK, Barrier
<1>. QED
  BY <1>6, <1>7, <1>8, <1>9 DEF Inv

\* Every step preserves it.
LEMMA NextInv == Inv /\ [Next]_vars => Inv'
BY TypeStep, JobStep, AbsentStep, AwaitedStep, SizeStep, FreshStep DEF Inv

\* It is an invariant of the specification.
LEMMA Invariance == Spec => []Inv
<1>1. Init => Inv
  BY InitInv
<1>2. Inv /\ [Next]_vars => Inv'
  BY NextInv
<1>. QED
  BY <1>1, <1>2, PTL DEF Spec

\* Type correctness, in particular that a reservation and its commits never leave the
\* range of revisions.
THEOREM TypeCorrect == Spec => []TypeOK
<1>1. Inv => TypeOK
  BY DEF Inv
<1>. QED
  BY <1>1, Invariance, PTL

\* A removal that was acknowledged, or whose absence was flushed before it was announced,
\* is final: neither a retry, a timed out flush, an older snapshot of a tool nor a crash
\* brings the task back.
THEOREM RemovalsFinal == Spec => []RemovedForGood
<1>1. Inv => RemovedForGood
  BY DEF Inv, AbsentOK, RemovedForGood
<1>. QED
  BY <1>1, Invariance, PTL

\* The assertions of prepare_transition and commit_next hold whenever they are evaluated.
THEOREM AssertionsHold == Spec => []ReservationsFresh
<1>1. Inv => ReservationsFresh
  <2>1. tasks \in Snapshots
    BY DEF Snapshots
  <2>. QED
    BY <2>1 DEF Inv, FreshOK, SizeOK, ReservationsFresh
<1>. QED
  BY <1>1, Invariance, PTL

=============================================================================
