------------------------ MODULE SchedulerLoopProofs ------------------------
(***************************************************************************)
(* The loops of Scheduler, for every value of its constants: iterations of *)
(* a loop overlap only when one has failed, and a transcript is resumed    *)
(* only for the prompt it was written for, and not too often.              *)
(***************************************************************************)
EXTENDS SchedulerProofs

\* The coordinator counts the iteration: it runs, or something that descends from it does.
\* Here and below f stands for the iterations, sub or those after a step.
Busy(f, s) == f[s].state \in {"sent", "running"} \/ f[s].brood

\* What is left of the iterations of t, but for the iteration last, has failed.
FailedBut(f, t, last) ==
    \A s \in Subs : Busy(f, s) /\ f[s].task = t /\ s # last => f[s].state = "failed"

\* The transcript that the task r could resume is of its prompt, and no longer than the
\* task says.
Fits(f, r) ==
    /\ r.anchor # None /\ ~r.reset
    /\ f[r.anchor].state \in {"sent", "running", "completed"}
    => f[r.anchor].first = r.prompt /\ f[r.anchor].len <= r.iters

\* Two busy iterations of a task: one has failed.
Apart ==
    \A s1, s2 \in Subs : Busy(sub, s1) /\ Busy(sub, s2) /\ s1 # s2 /\ sub[s1].task = sub[s2].task
        => sub[s1].state = "failed" \/ sub[s2].state = "failed"

\* The anchor of a task is its only iteration that may be busy without having failed.  A
\* handler that has asked about the unit knows that there is none.
AnchorsOK ==
    /\ \A t \in DOMAIN tasks : FailedBut(sub, t, tasks[t].anchor)
    /\ job.pc \in Barrier /\ job.why = "expire" => FailedBut(sub, job.task, job.old.anchor)
    /\ job.pc = "spawn" => FailedBut(sub, job.task, None)

\* Nothing runs without the coordinator; who has sent an error has failed; an iteration is
\* one of a task that was created.
BusyOK ==
    /\ ~coord => \A s \in Subs : ~Busy(sub, s)
    /\ \A s \in guards : Busy(sub, s) => sub[s].state = "failed"
    /\ \A s \in Subs : Busy(sub, s) => sub[s].state # "free" /\ sub[s].task \in born

\* While the coordinator lives, the tasks fit their transcripts, and so does the task that
\* a handler works on or may put back; nobody patches it meanwhile.
ChainsOK ==
    /\ coord => /\ \A t \in DOMAIN tasks : Fits(sub, tasks[t])
                /\ job.pc \in Firing => Fits(sub, job.old)
                /\ job.pc \in Barrier /\ job.why = "expire" => Fits(sub, job.old)
                /\ job.usable => sub[job.old.anchor].state = "completed"
    /\ job.pc \in Firing => tasks[job.task].prompt = job.old.prompt
    /\ job.pc = "restore" => ~coord

LoopInv == Apart /\ AnchorsOK /\ BusyOK /\ ChainsOK /\ ChainsKeepPrompt

----------------------------------------------------------------------------
(* Steps that leave the coordinator and the iterations alone *)

\* A listed task keeps its anchor and, unless it asks for a fresh chain, everything; a new
\* one has no anchor; one that is put back is as it was.
TasksEdited ==
    \A t \in DOMAIN tasks' :
        \/ /\ t \in DOMAIN tasks /\ tasks'[t].anchor = tasks[t].anchor
           /\ tasks'[t] = tasks[t] \/ tasks'[t].reset
        \/ t \notin born /\ tasks'[t].anchor = None
        \/ /\ job.pc \in Barrier /\ job.why = "expire"
           /\ t = job.task /\ tasks'[t] = job.old

\* A handler ends or begins to remove a task, with the task as it is.
JobBreaks ==
    \/ job'.pc \in {"idle", "stopped"}
    \/ /\ job'.pc \in Barrier
       /\ \/ job'.why # "expire"
          \/ job'.task \in DOMAIN tasks /\ job'.old = tasks[job'.task]
          \/ /\ job.pc \in Barrier /\ job.why = "expire"
             /\ job'.task = job.task /\ job'.old = job.old

\* A handler begins to fire a loop, or goes on with what it was told.
JobFires ==
    /\ tasks' = tasks /\ job'.pc \in {"query", "unit", "spawn"}
    /\ \/ /\ job'.task \in DOMAIN tasks /\ job'.old = tasks[job'.task] /\ ~job'.usable
          /\ job'.pc = "query" \/ (job'.pc = "spawn" /\ job'.old.anchor = None)
       \/ /\ job.pc \in Firing /\ job'.task = job.task /\ job'.old = job.old
          /\ job'.usable => job.usable \/ sub[job.old.anchor].state = "completed"
          /\ job'.pc = "spawn" => \A s \in Subs : Busy(sub, s) => sub[s].task # job.task

\* What a handler that waits carries, while others move.
JobWaits ==
    /\ tasks' = tasks
    /\ job'.pc = job.pc /\ job'.why = job.why /\ job'.task = job.task /\ job'.old = job.old
    /\ job'.usable = job.usable

\* Editing the list keeps the anchors and the transcripts of the tasks.
LEMMA EditedLists ==
    ASSUME LoopInv, UNCHANGED loops, TasksEdited
    PROVE  /\ \A t \in DOMAIN tasks' : FailedBut(sub, t, tasks'[t].anchor)
           /\ coord => \A t \in DOMAIN tasks' : Fits(sub, tasks'[t])
<1>1. ASSUME NEW t \in DOMAIN tasks'
      PROVE  FailedBut(sub, t, tasks'[t].anchor) /\ (coord => Fits(sub, tasks'[t]))
  <2>1. CASE /\ t \in DOMAIN tasks /\ tasks'[t].anchor = tasks[t].anchor
             /\ tasks'[t] = tasks[t] \/ tasks'[t].reset
    <3>1. FailedBut(sub, t, tasks'[t].anchor)
      BY <2>1 DEF LoopInv, AnchorsOK
    <3>2. coord => Fits(sub, tasks'[t])
      <4>1. CASE tasks'[t] = tasks[t]
        BY <2>1, <4>1 DEF LoopInv, ChainsOK
      <4>2. CASE tasks'[t].reset
        BY <4>2 DEF Fits
      <4> QED BY <2>1, <4>1, <4>2
    <3> QED BY <3>1, <3>2
  <2>2. CASE t \notin born /\ tasks'[t].anchor = None
    <3>1. \A s \in Subs : Busy(sub, s) => sub[s].task # t
      BY <2>2 DEF LoopInv, BusyOK
    <3> QED BY <2>2, <3>1 DEF FailedBut, Fits
  <2>3. CASE job.pc \in Barrier /\ job.why = "expire" /\ t = job.task /\ tasks'[t] = job.old
    BY <2>3 DEF LoopInv, AnchorsOK, ChainsOK
  <2> QED BY <2>1, <2>2, <2>3 DEF TasksEdited
<1> QED BY <1>1

\* What is about iterations only, when the list may have grown by created tasks.
LEMMA EditedIterations ==
    ASSUME LoopInv, UNCHANGED loops, born \subseteq born'
    PROVE  Apart' /\ BusyOK' /\ ChainsKeepPrompt' /\ sub' = sub /\ coord' = coord
BY DEF LoopInv, Apart, BusyOK, ChainsKeepPrompt, loops

\* A handler ends, begins a removal or goes on with it.
LEMMA BreaksInv ==
    ASSUME LoopInv, JobOK', UNCHANGED loops, born \subseteq born', TasksEdited, JobBreaks
    PROVE  LoopInv'
<1>1. Apart' /\ BusyOK' /\ ChainsKeepPrompt' /\ sub' = sub /\ coord' = coord
  BY EditedIterations
<1>2. /\ \A t \in DOMAIN tasks' : FailedBut(sub, t, tasks'[t].anchor)
      /\ coord => \A t \in DOMAIN tasks' : Fits(sub, tasks'[t])
  BY EditedLists
<1>3. job'.pc \notin Firing /\ job'.pc # "spawn" /\ job'.pc # "restore" /\ ~job'.usable
  BY DEF JobBreaks, Barrier, Firing, JobOK
<1>4. job'.pc \in Barrier /\ job'.why = "expire" =>
        FailedBut(sub, job'.task, job'.old.anchor) /\ (coord => Fits(sub, job'.old))
  BY DEF JobBreaks, LoopInv, AnchorsOK, ChainsOK, Barrier
<1>5. AnchorsOK'
  BY <1>1, <1>2, <1>3, <1>4 DEF AnchorsOK
<1>6. ChainsOK'
  BY <1>1, <1>2, <1>3, <1>4 DEF ChainsOK
<1> QED BY <1>1, <1>5, <1>6 DEF LoopInv

\* A handler begins to fire a loop, or is told about it.
LEMMA FiresInv ==
    ASSUME LoopInv, JobOK, UNCHANGED <<loops, born>>, JobFires
    PROVE  LoopInv'
<1>1. Apart' /\ BusyOK' /\ ChainsKeepPrompt' /\ sub' = sub /\ coord' = coord
  BY EditedIterations
<1>2. /\ \A t \in DOMAIN tasks' : FailedBut(sub, t, tasks'[t].anchor)
      /\ coord => \A t \in DOMAIN tasks' : Fits(sub, tasks'[t])
  BY DEF LoopInv, AnchorsOK, ChainsOK, JobFires
<1>3. job'.pc \notin Barrier /\ job'.pc # "restore" /\ job'.pc \in Firing
  BY DEF JobFires, Barrier, Firing
<1>4. /\ job'.pc = "spawn" => FailedBut(sub, job'.task, None)
      /\ coord => Fits(sub, job'.old)
      /\ coord /\ job'.usable => sub[job'.old.anchor].state = "completed"
      /\ tasks'[job'.task].prompt = job'.old.prompt
  <2>1. CASE /\ job'.task \in DOMAIN tasks /\ job'.old = tasks[job'.task] /\ ~job'.usable
             /\ job'.pc = "query" \/ (job'.pc = "spawn" /\ job'.old.anchor = None)
    BY <2>1 DEF JobFires, LoopInv, AnchorsOK, ChainsOK
  <2>2. CASE /\ job.pc \in Firing /\ job'.task = job.task /\ job'.old = job.old
             /\ job'.usable => job.usable \/ sub[job.old.anchor].state = "completed"
             /\ job'.pc = "spawn" => \A s \in Subs : Busy(sub, s) => sub[s].task # job.task
    BY <2>2 DEF JobFires, LoopInv, ChainsOK, FailedBut
  <2> QED BY <2>1, <2>2 DEF JobFires
<1>5. AnchorsOK'
  BY <1>1, <1>2, <1>3, <1>4 DEF AnchorsOK
<1>6. ChainsOK'
  BY <1>1, <1>2, <1>3, <1>4 DEF ChainsOK
<1> QED BY <1>1, <1>5, <1>6 DEF LoopInv

\* Others move while the handler waits.
LEMMA WaitsInv ==
    ASSUME LoopInv, UNCHANGED <<loops, born>>, JobWaits
    PROVE  LoopInv'
<1>1. Apart' /\ BusyOK' /\ ChainsKeepPrompt' /\ sub' = sub /\ coord' = coord
  BY EditedIterations
<1>2. AnchorsOK'
  BY <1>1 DEF AnchorsOK, LoopInv, JobWaits
<1>3. ChainsOK'
  BY <1>1 DEF ChainsOK, LoopInv, JobWaits
<1> QED BY <1>1, <1>2, <1>3 DEF LoopInv

----------------------------------------------------------------------------
(* Steps of the iterations *)

\* Iterations go on, end or are lost: they stay what they are iterations of, nobody
\* becomes busy who was not, and who has failed stays failed for as long as it matters.
Fades(f, g) ==
    \A s \in Subs :
        /\ g[s].task = f[s].task /\ g[s].prompt = f[s].prompt
        /\ g[s].first = f[s].first /\ g[s].len = f[s].len
        /\ Busy(g, s) => Busy(f, s)
        /\ Busy(g, s) /\ f[s].state = "failed" => g[s].state = "failed"
        /\ g[s].state # "free" <=> f[s].state # "free"
        /\ g[s].state \in {"sent", "running", "completed"}
               => f[s].state \in {"sent", "running", "completed"}

\* What is about iterations only.
LEMMA FadesIterations ==
    ASSUME LoopInv, Fades(sub, sub')
    PROVE  /\ Apart' /\ ChainsKeepPrompt'
           /\ \A t, last : FailedBut(sub, t, last) => FailedBut(sub', t, last)
           /\ \A r \in Task : Fits(sub, r) => Fits(sub', r)
<1>1. Apart'
  BY DEF LoopInv, Apart, Fades
<1>2. ChainsKeepPrompt'
  BY DEF LoopInv, ChainsKeepPrompt, Fades
<1>3. \A t, last : FailedBut(sub, t, last) => FailedBut(sub', t, last)
  BY DEF FailedBut, Fades
<1>4. \A r \in Task : Fits(sub, r) => Fits(sub', r)
  <2> SUFFICES ASSUME NEW r \in Task, Fits(sub, r), r.anchor # None, ~r.reset,
                      sub'[r.anchor].state \in {"sent", "running", "completed"}
               PROVE  sub'[r.anchor].first = r.prompt /\ sub'[r.anchor].len <= r.iters
    BY DEF Fits
  <2>1. r.anchor \in Subs
    BY DEF Task
  <2> QED BY <2>1 DEF Fades, Fits
<1> QED BY <1>1, <1>2, <1>3, <1>4

\* An iteration goes on or ends, or the coordinator is gone: the actor is not involved.
LEMMA FadesInv ==
    ASSUME LoopInv, TypeOK, JobOK, UNCHANGED <<tasks, job, born>>, Fades(sub, sub'),
           coord' => coord /\ \A s \in Subs : sub[s].state = "completed" => sub'[s].state = "completed",
           ~coord' => \A s \in Subs : ~Busy(sub', s),
           \A s \in guards' : s \in Subs /\ (s \in guards \/ sub'[s].state = "failed")
    PROVE  LoopInv'
<1>1. /\ Apart' /\ ChainsKeepPrompt'
      /\ \A t, last : FailedBut(sub, t, last) => FailedBut(sub', t, last)
      /\ \A r \in Task : Fits(sub, r) => Fits(sub', r)
  BY FadesIterations
<1>2. AnchorsOK'
  BY <1>1 DEF LoopInv, AnchorsOK
<1>3. BusyOK'
  BY DEF LoopInv, BusyOK, Fades
<1>4. /\ \A t \in DOMAIN tasks : tasks[t] \in Task
      /\ job.pc \in Firing => job.old \in Task
      /\ job.pc \in Barrier /\ job.why = "expire" => job.old \in Task
      /\ job.usable => job.old.anchor \in Subs
  <2>1. \A t \in DOMAIN tasks : tasks[t] \in Task
    BY TaskOfList DEF TypeOK
  <2>2. /\ job.pc \in Firing => job.old \in Task
        /\ job.pc \in Barrier /\ job.why = "expire" => job.old \in Task
        /\ job.usable => job.pc \in Firing /\ job.old.anchor # None
    BY DEF JobOK
  <2>3. job.usable => job.old.anchor \in Subs
    BY <2>2 DEF Task
  <2> QED BY <2>1, <2>2, <2>3
<1>5. ChainsOK'
  <2>1. ASSUME coord'
        PROVE  /\ \A t \in DOMAIN tasks' : Fits(sub', tasks'[t])
               /\ job'.pc \in Firing => Fits(sub', job'.old)
               /\ job'.pc \in Barrier /\ job'.why = "expire" => Fits(sub', job'.old)
               /\ job'.usable => sub'[job'.old.anchor].state = "completed"
    BY <1>1, <1>4, <2>1 DEF LoopInv, ChainsOK
  <2>2. /\ job'.pc \in Firing => tasks'[job'.task].prompt = job'.old.prompt
        /\ job'.pc = "restore" => ~coord'
    BY DEF LoopInv, ChainsOK
  <2> QED BY <2>1, <2>2 DEF ChainsOK
<1> QED BY <1>1, <1>2, <1>3, <1>5 DEF LoopInv

\* An iteration starts, ends, or its descendants come and go.
LEMMA IterationsInv ==
    ASSUME LoopInv, TypeOK, JobOK, NEW s \in Subs,
           \/ SubStarts(s) \/ BroodChanges(s)
           \/ \E how \in {"completed", "failed"} : SubEnds(s, how)
    PROVE  LoopInv'
<1>0. sub \in [Subs -> Iterations] /\ guards \subseteq Subs /\ UNCHANGED <<tasks, job, born, coord>>
  BY DEF TypeOK, SubStarts, BroodChanges, SubEnds
<1>1. /\ \A x \in Subs : x # s => sub'[x] = sub[x]
      /\ sub'[s].task = sub[s].task /\ sub'[s].prompt = sub[s].prompt
      /\ sub'[s].first = sub[s].first /\ sub'[s].len = sub[s].len
  BY <1>0 DEF SubStarts, BroodChanges, SubEnds, Iterations
<1>2. \/ /\ sub[s].state = "sent" /\ sub'[s].state = "running" /\ sub'[s].brood = sub[s].brood
         /\ guards' = guards
      \/ /\ sub[s].brood \/ sub[s].state = "running"
         /\ sub'[s].state = sub[s].state /\ guards' = guards
      \/ /\ sub[s].state \in {"sent", "running"} /\ sub'[s].brood = sub[s].brood
         /\ \/ sub[s].state = "running" /\ sub'[s].state = "completed" /\ guards' = guards
            \/ sub'[s].state = "failed" /\ guards' = guards \cup {s}
  BY <1>0 DEF SubStarts, BroodChanges, SubEnds, Iterations
<1>3. Busy(sub, s)
  BY <1>2 DEF Busy
<1>4. coord
  BY <1>3 DEF LoopInv, BusyOK
<1>5. Fades(sub, sub')
  <2>1. \A x \in Subs : x # s => (Busy(sub', x) <=> Busy(sub, x))
    BY <1>1 DEF Busy
  <2>2. /\ sub[s].state = "failed" => sub'[s].state = "failed"
        /\ sub'[s].state # "free" <=> sub[s].state # "free"
        /\ sub'[s].state \in {"sent", "running", "completed"}
               => sub[s].state \in {"sent", "running", "completed"}
    BY <1>2
  <2> QED BY <1>1, <1>3, <2>1, <2>2 DEF Fades
<1>6. \A x \in Subs : sub[x].state = "completed" => sub'[x].state = "completed"
  BY <1>1, <1>2
<1>7. \A x \in guards' : x \in Subs /\ (x \in guards \/ sub'[x].state = "failed")
  BY <1>0, <1>2
<1> QED BY <1>0, <1>4, <1>5, <1>6, <1>7, FadesInv

\* The coordinator is gone.
LEMMA ClosesInv ==
    ASSUME LoopInv, TypeOK, JobOK, CoordinatorCloses
    PROVE  LoopInv'
<1>0. /\ sub \in [Subs -> Iterations] /\ guards \subseteq Subs /\ guards' = guards
      /\ UNCHANGED <<tasks, job, born>> /\ ~coord'
  BY DEF TypeOK, CoordinatorCloses
<1>1. \A s \in Subs :
        /\ Busy(sub, s) => /\ sub'[s].state = "gone" /\ ~sub'[s].brood
                           /\ sub'[s].task = sub[s].task /\ sub'[s].prompt = sub[s].prompt
                           /\ sub'[s].first = sub[s].first /\ sub'[s].len = sub[s].len
        /\ ~Busy(sub, s) => sub'[s] = sub[s]
  BY <1>0 DEF CoordinatorCloses, Iterations, Busy
<1>2. \A s \in Subs : ~Busy(sub', s)
  BY <1>1 DEF Busy
<1>3. Fades(sub, sub')
  <2>1. \A s \in Subs : sub'[s].state # "free" <=> sub[s].state # "free"
    <3>1. \A s \in Subs : Busy(sub, s) => sub[s].state # "free"
      BY <1>0 DEF LoopInv, BusyOK
    <3> QED BY <1>1, <3>1
  <2> QED BY <1>1, <1>2, <2>1 DEF Fades
<1> QED BY <1>0, <1>2, <1>3, FadesInv

----------------------------------------------------------------------------
(* Steps that choose an anchor, take it back or clear it *)

\* Without the coordinator anchors mean nothing.
LEMMA QuietInv ==
    ASSUME LoopInv, UNCHANGED <<loops, born>>, ~coord,
           job'.pc \in Firing => tasks'[job'.task].prompt = job'.old.prompt
    PROVE  LoopInv'
<1>1. Apart' /\ BusyOK' /\ ChainsKeepPrompt' /\ sub' = sub /\ coord' = coord
  BY EditedIterations
<1>2. \A s \in Subs : ~Busy(sub, s)
  BY DEF LoopInv, BusyOK
<1>3. AnchorsOK'
  BY <1>1, <1>2 DEF AnchorsOK, FailedBut
<1>4. ChainsOK'
  BY <1>1 DEF ChainsOK
<1> QED BY <1>1, <1>3, <1>4 DEF LoopInv

\* A chain is cleared because its iteration has failed.
LEMMA GuardInv ==
    ASSUME LoopInv, TypeOK, JobOK, NEW s \in Subs, Guard(s)
    PROVE  LoopInv'
<1>0. /\ UNCHANGED <<job, born, sub, coord>> /\ guards' \subseteq guards /\ s \in guards
      /\ DOMAIN tasks' = DOMAIN tasks
  BY DEF Guard
<1>1. ASSUME NEW t \in DOMAIN tasks
      PROVE  /\ tasks'[t].prompt = tasks[t].prompt
             /\ \/ tasks'[t] = tasks[t]
                \/ tasks[t].anchor = s /\ tasks'[t].anchor = None
  <2>1. tasks[t] \in Task
    BY TaskOfList DEF TypeOK
  <2> QED BY <2>1 DEF Guard, Task
<1>2. Apart' /\ ChainsKeepPrompt' /\ BusyOK'
  BY <1>0 DEF LoopInv, Apart, ChainsKeepPrompt, BusyOK
<1>3. \A t \in DOMAIN tasks : FailedBut(sub, t, tasks'[t].anchor)
  <2> SUFFICES ASSUME NEW t \in DOMAIN tasks, tasks'[t] # tasks[t]
               PROVE  FailedBut(sub, t, None)
    BY <1>1 DEF LoopInv, AnchorsOK
  <2>1. FailedBut(sub, t, s)
    BY <1>1 DEF LoopInv, AnchorsOK
  <2>2. Busy(sub, s) => sub[s].state = "failed"
    BY <1>0 DEF LoopInv, BusyOK
  <2> QED BY <2>1, <2>2 DEF FailedBut
<1>4. AnchorsOK'
  BY <1>0, <1>3 DEF LoopInv, AnchorsOK
<1>5. coord => \A t \in DOMAIN tasks : Fits(sub, tasks'[t])
  BY <1>1 DEF LoopInv, ChainsOK, Fits
<1>6. job.pc \in Firing => tasks'[job.task].prompt = tasks[job.task].prompt
  BY <1>1 DEF JobOK
<1>7. ChainsOK'
  BY <1>0, <1>5, <1>6 DEF LoopInv, ChainsOK
<1> QED BY <1>2, <1>4, <1>7 DEF LoopInv

\* The request could not be sent: the task is as it was, and the coordinator is gone.
LEMMA RestoreInv ==
    ASSUME LoopInv, Restore
    PROVE  LoopInv'
<1>1. job' = Idle /\ UNCHANGED <<loops, born>> /\ ~coord
  BY DEF Restore, LoopInv, ChainsOK
<1> QED BY <1>1, IdleFields, QuietInv DEF Firing

\* An iteration is sent: the only one of its task that has not failed.  It resumes a
\* transcript of the task's prompt, with room for one more, or begins a new one.
LEMMA SpawnInv ==
    ASSUME LoopInv, TypeOK, JobOK, AbsentOK, SpawnLoop
    PROVE  LoopInv'
<1> DEFINE s == CHOOSE s \in NewSubs : TRUE
           t == job.task
           n == IF Resumes THEN job.old.iters + 1 ELSE 1
           from == sub[job.old.anchor]
           r == [tasks[t] EXCEPT !.anchor = s, !.iters = n, !.reset = FALSE]
           new == [state |-> "sent", task |-> t, prompt |-> job.old.prompt,
                   first |-> IF Resumes THEN from.first ELSE job.old.prompt,
                   len |-> IF Resumes THEN from.len + 1 ELSE 1, brood |-> FALSE]
<1>0. /\ job.pc = "spawn" /\ UNCHANGED <<born, guards, coord>>
      /\ tasks' = [tasks EXCEPT ![t] = r]
  BY DEF SpawnLoop
<1>1. s \in NewSubs
  BY DEF SpawnLoop
<1>2. /\ s \in Subs /\ s \notin Mentioned /\ s \notin guards /\ ~Busy(sub, s)
      /\ NewSubs \subseteq Subs
      /\ \A x \in NewSubs : x \notin Mentioned /\ x \notin guards /\ ~Busy(sub, x)
  BY <1>1 DEF NewSubs, Busy
<1> HIDE DEF s
<1>3. /\ t \in DOMAIN tasks /\ tasks \in Lists /\ tasks[t] \in Task /\ job.old \in Task
      /\ tasks[t].prompt = job.old.prompt /\ t \in Ids
  <2>1. t \in DOMAIN tasks /\ job.old \in Task
    BY <1>0 DEF JobOK, Firing
  <2>2. tasks[t].prompt = job.old.prompt
    BY <1>0 DEF LoopInv, ChainsOK, Firing
  <2> QED BY <2>1, <2>2, TaskOfList DEF TypeOK
<1>4. /\ r.prompt = job.old.prompt /\ r.anchor = s /\ r.iters = n /\ r.reset = FALSE
  BY <1>3 DEF Task
<1>5. /\ DOMAIN tasks' = DOMAIN tasks /\ tasks'[t] = r
      /\ \A x \in DOMAIN tasks : x # t => tasks'[x] = tasks[x]
  BY <1>0, <1>3
<1> HIDE DEF r
<1>6. CASE ~coord
  <2>1. /\ sub' = sub /\ job' = [job EXCEPT !.pc = "restore"]
    BY <1>6 DEF SpawnLoop
  <2>2. job'.task = t /\ job'.old = job.old
    BY <2>1 DEF TypeOK, Jobs
  <2> QED BY <1>0, <1>4, <1>5, <1>6, <2>1, <2>2, QuietInv DEF loops
<1>7. CASE coord
  <2>1. /\ job' = Idle
        /\ sub' = [x \in Subs |-> IF x # s THEN IF x \in NewSubs THEN Unused ELSE sub[x]
                                  ELSE new]
    BY <1>7 DEF SpawnLoop, s
  <2>2. /\ sub'[s] = new
        /\ \A x \in Subs : x # s => sub'[x] = IF x \in NewSubs THEN Unused ELSE sub[x]
    BY <1>2, <2>1
  <2>3. new.state = "sent" /\ new.task = t /\ new.prompt = job.old.prompt /\ ~new.brood
    OBVIOUS
  <2>4. new.first = job.old.prompt /\ new.len <= n /\ n <= FreshEvery
    <3>1. CASE Resumes
      <4>1. ~job.old.reset /\ job.old.iters < FreshEvery /\ job.usable
        BY <3>1 DEF Resumes
      <4>2. job.old.anchor # None /\ from.state = "completed" /\ Fits(sub, job.old)
        BY <1>0, <1>7, <4>1 DEF JobOK, LoopInv, ChainsOK, Firing
      <4>3. from.first = job.old.prompt /\ from.len <= job.old.iters
        BY <4>1, <4>2 DEF Fits
      <4>4. from.len \in Nat /\ job.old.iters \in 0 .. FreshEvery
        <5>1. job.old.anchor \in Subs
          BY <1>3, <4>2 DEF Task
        <5> QED BY <1>3, <5>1 DEF TypeOK, Iterations, Task
      <4> QED BY <3>1, <4>1, <4>3, <4>4, SchedulerAssumption
    <3>2. CASE ~Resumes
      BY <3>2, SchedulerAssumption
    <3> QED BY <3>1, <3>2
  <2>5. new.len \in Nat /\ n \in Nat
    <3>1. CASE Resumes
      <4>1. job.old.anchor # None
        BY <3>1 DEF Resumes, JobOK
      <4>2. job.old.anchor \in Subs
        BY <1>3, <4>1 DEF Task
      <4> QED BY <1>3, <3>1, <4>2 DEF TypeOK, Iterations, Task
    <3>2. CASE ~Resumes
      BY <3>2
    <3> QED BY <3>1, <3>2
  <2> HIDE DEF new, n
  <2>6. Unused.state = "free" /\ ~Unused.brood
    BY DEF Unused
  <2>7. \A x \in Subs : x # s => /\ Busy(sub', x) <=> Busy(sub, x)
                                 /\ Busy(sub', x) => sub'[x] = sub[x]
    BY <1>2, <2>2, <2>6 DEF Busy
  <2>8. FailedBut(sub, t, None)
    BY <1>0 DEF LoopInv, AnchorsOK
  <2>9. None \notin Subs
    BY SchedulerAssumption
  <2>10. \A x \in Subs : Busy(sub, x) /\ sub[x].task = t => sub[x].state = "failed"
    BY <2>8, <2>9 DEF FailedBut
  <2>11. Apart'
    <3> SUFFICES ASSUME NEW s1 \in Subs, NEW s2 \in Subs, Busy(sub', s1), Busy(sub', s2),
                        s1 # s2, sub'[s1].task = sub'[s2].task
                 PROVE  sub'[s1].state = "failed" \/ sub'[s2].state = "failed"
      BY DEF Apart
    <3>1. CASE s1 = s
      BY <2>2, <2>3, <2>7, <2>10, <3>1
    <3>2. CASE s2 = s
      BY <2>2, <2>3, <2>7, <2>10, <3>2
    <3>3. CASE s1 # s /\ s2 # s
      BY <2>7, <3>3 DEF LoopInv, Apart
    <3> QED BY <3>1, <3>2, <3>3
  <2>12. ChainsKeepPrompt'
    <3> SUFFICES ASSUME NEW x \in Subs, sub'[x].state # "free"
                 PROVE  sub'[x].first = sub'[x].prompt /\ sub'[x].len <= FreshEvery
      BY DEF ChainsKeepPrompt
    <3>1. CASE x = s
      BY <2>2, <2>3, <2>4, <2>5, <3>1, SchedulerAssumption
    <3>2. CASE x # s
      BY <2>2, <2>6, <3>2 DEF LoopInv, ChainsKeepPrompt
    <3> QED BY <3>1, <3>2
  <2>13. \A x \in DOMAIN tasks : tasks[x].anchor \in Mentioned
    BY DEF Mentioned, Anchors
  <2>14. ASSUME NEW x \in DOMAIN tasks, x # t
         PROVE  FailedBut(sub', x, tasks[x].anchor) /\ Fits(sub', tasks[x])
    <3>1. FailedBut(sub', x, tasks[x].anchor)
      <4> SUFFICES ASSUME NEW y \in Subs, Busy(sub', y), sub'[y].task = x, y # tasks[x].anchor
                   PROVE  sub'[y].state = "failed"
        BY DEF FailedBut
      <4>1. y # s
        BY <2>2, <2>3, <2>14
      <4>2. Busy(sub, y) /\ sub[y].task = x /\ sub'[y] = sub[y]
        BY <2>7, <4>1
      <4> QED BY <4>2 DEF LoopInv, AnchorsOK, FailedBut
    <3>2. Fits(sub', tasks[x])
      <4>1. CASE tasks[x].anchor = None
        BY <4>1 DEF Fits
      <4>2. CASE tasks[x].anchor # None
        <5>1. tasks[x].anchor \in Subs
          BY <1>3, <4>2, TaskOfList DEF Task
        <5>2. tasks[x].anchor # s /\ tasks[x].anchor \notin NewSubs
          BY <1>2, <2>13
        <5>3. sub'[tasks[x].anchor] = sub[tasks[x].anchor]
          BY <2>2, <5>1, <5>2
        <5> QED BY <1>7, <5>3 DEF LoopInv, ChainsOK, Fits
      <4> QED BY <4>1, <4>2
    <3> QED BY <3>1, <3>2
  <2>15. FailedBut(sub', t, s)
    BY <2>7, <2>10 DEF FailedBut
  <2>16. Fits(sub', r)
    BY <1>4, <2>2, <2>4 DEF Fits
  <2>17. job'.pc = "idle" /\ ~job'.usable
    BY <2>1, IdleFields
  <2>18. AnchorsOK'
    BY <1>4, <1>5, <2>14, <2>15, <2>17 DEF AnchorsOK, Barrier
  <2>19. ChainsOK'
    BY <1>5, <2>14, <2>16, <2>17 DEF ChainsOK, Barrier, Firing
  <2>20. t \in born
    <3>1. tasks \in Snapshots
      BY DEF Snapshots
    <3> QED BY <1>3, <3>1 DEF AbsentOK
  <2>21. BusyOK'
    BY <1>0, <1>2, <1>7, <2>2, <2>3, <2>7, <2>20 DEF BusyOK, LoopInv, TypeOK
  <2> QED BY <2>11, <2>12, <2>18, <2>19, <2>21 DEF LoopInv
<1> QED BY <1>6, <1>7

\* A restart: nothing of the earlier process runs any more.
LEMMA CrashInv ==
    ASSUME LoopInv, TypeOK, Crash
    PROVE  LoopInv'
<1>0. sub \in [Subs -> Iterations] /\ guards' = {} /\ born' = born /\ job' = Idle
  BY DEF TypeOK, Crash
<1>1. \A s \in Subs :
        /\ sub[s].state = "free" => sub'[s] = sub[s]
        /\ sub[s].state # "free" =>
              /\ sub'[s].state = "gone" /\ ~sub'[s].brood
              /\ sub'[s].task = sub[s].task /\ sub'[s].prompt = sub[s].prompt
              /\ sub'[s].first = sub[s].first /\ sub'[s].len = sub[s].len
  BY <1>0 DEF Crash, Iterations
<1>2. \A s \in Subs : ~Busy(sub', s) /\ sub'[s].state \notin {"sent", "running", "completed"}
  BY <1>1 DEF Busy, LoopInv, BusyOK
<1>3. Fades(sub, sub')
  BY <1>1, <1>2 DEF Fades
<1>4. Apart' /\ ChainsKeepPrompt'
  BY <1>3, FadesIterations
<1>5. AnchorsOK' /\ BusyOK'
  BY <1>0, <1>2 DEF AnchorsOK, BusyOK, FailedBut
<1>6. ChainsOK'
  <2>1. \A t \in DOMAIN tasks' : Fits(sub', tasks'[t])
    <3>1. tasks' = disk /\ disk \in Lists
      BY DEF Crash, TypeOK
    <3> SUFFICES ASSUME NEW t \in DOMAIN disk, disk[t].anchor # None
                 PROVE  sub'[disk[t].anchor].state \notin {"sent", "running", "completed"}
      BY <3>1 DEF Fits
    <3>2. disk[t].anchor \in Subs
      BY <3>1, TaskOfList DEF Task
    <3> QED BY <1>2, <3>2
  <2> QED BY <1>0, <2>1, IdleFields DEF ChainsOK, Firing, Barrier
<1> QED BY <1>4, <1>5, <1>6 DEF LoopInv

----------------------------------------------------------------------------
(* The invariant *)

\* Removing a task leaves the others alone.
LEMMA WithoutEdits == ASSUME TypeOK, NEW t, tasks' \in {tasks, Without(tasks, t)} PROVE TasksEdited
<1>1. \A x \in DOMAIN Without(tasks, t) : x \in DOMAIN tasks /\ Without(tasks, t)[x] = tasks[x]
  BY DEF Without, Restrict
<1> QED BY <1>1 DEF TasksEdited

\* A handler that has ended.
LEMMA IdleBreaks == ASSUME job' = Idle PROVE JobBreaks
BY IdleFields DEF JobBreaks

\* Every step preserves the invariant of the loops.
LEMMA LoopStep == ASSUME Inv, LoopInv, [Next]_vars PROVE LoopInv'
<1>0. TypeOK /\ JobOK /\ AbsentOK /\ JobOK'
  BY JobStep DEF Inv
<1>t. tasks' = tasks => TasksEdited
  BY DEF TasksEdited
<1>1. ASSUME NEW t \in Ids, NEW p \in Prompts, Create(t, p) PROVE LoopInv'
  <2>1. /\ t \notin born /\ tasks' = With(tasks, t, New(p)) /\ born \subseteq born'
        /\ job' = job /\ job.pc = "idle" /\ UNCHANGED loops
    BY <1>1 DEF Create, Selecting
  <2>2. TasksEdited
    BY <2>1 DEF TasksEdited, With, New
  <2> QED BY <1>0, <2>1, <2>2, BreaksInv DEF JobBreaks
<1>2. ASSUME NEW t \in Ids, NEW p \in Prompts, NEW interval \in BOOLEAN, Update(t, p, interval)
      PROVE  LoopInv'
  <2>1. /\ t \in DOMAIN tasks /\ tasks' = [tasks EXCEPT ![t] = Patched(tasks[t], p)]
        /\ job' = job /\ job.pc = "idle" /\ UNCHANGED <<born, loops>>
    BY <1>2 DEF Update, Selecting
  <2>2. tasks[t] \in Task
    BY <1>0, <2>1, TaskOfList DEF TypeOK
  <2>3. LET q == Patched(tasks[t], p)
        IN  q.anchor = tasks[t].anchor /\ (q = tasks[t] \/ q.reset)
    BY <2>2 DEF Patched, Task
  <2>4. TasksEdited
    BY <2>1, <2>3 DEF TasksEdited
  <2> QED BY <1>0, <2>1, <2>4, BreaksInv DEF JobBreaks
<1>3. ASSUME NEW t \in Ids, Delete(t) PROVE LoopInv'
  <2>1. tasks' = Without(tasks, t) /\ UNCHANGED <<born, loops>>
    BY <1>3 DEF Delete
  <2>2. JobBreaks
    BY <1>3, JobFields DEF Delete, JobBreaks, Barrier
  <2> QED BY <1>0, <2>1, <2>2, WithoutEdits, BreaksInv
<1>4. ASSUME NEW t \in Ids, RetryDelete(t) PROVE LoopInv'
  <2>1. tasks' = tasks /\ UNCHANGED <<born, loops>>
    BY <1>4 DEF RetryDelete
  <2>2. JobBreaks
    BY <1>4, JobFields DEF RetryDelete, JobBreaks, Barrier, Selecting
  <2> QED BY <1>0, <1>t, <2>1, <2>2, BreaksInv
<1>5. ASSUME NEW t \in Ids, ExpireDurable(t) PROVE LoopInv'
  <2>1. tasks' \in {tasks, Without(tasks, t)} /\ UNCHANGED <<born, loops>> /\ t \in DOMAIN tasks
    BY <1>5 DEF ExpireDurable, Waking
  <2>2. JobBreaks
    <3>1. CASE ~targets
      <4>1. job' = job /\ job.pc = "idle"
        BY <1>5, <3>1 DEF ExpireDurable, Waking, Selecting
      <4> QED BY <4>1 DEF JobBreaks
    <3>2. CASE targets
      <4>1. job' = Job("flush", "expire", t, tasks[t], Reserve(1))
        BY <1>5, <3>2 DEF ExpireDurable
      <4>2. job'.pc = "flush" /\ job'.task = t /\ job'.old = tasks[t]
        BY <4>1, JobFields
      <4> QED BY <2>1, <4>2 DEF JobBreaks, Barrier
    <3> QED BY <3>1, <3>2
  <2> QED BY <1>0, <2>1, <2>2, WithoutEdits, BreaksInv
<1>6. ASSUME NEW t \in Ids, ExpirePlain(t) PROVE LoopInv'
  <2>1. tasks' = Without(tasks, t) /\ UNCHANGED <<born, loops>>
    BY <1>6 DEF ExpirePlain
  <2>2. JobBreaks
    BY <1>6, JobFields DEF ExpirePlain, JobBreaks, Barrier
  <2> QED BY <1>0, <2>1, <2>2, WithoutEdits, BreaksInv
<1>7. ASSUME NEW t \in Ids, FireForeground(t) PROVE LoopInv'
  <2>1. tasks' \in {tasks, Without(tasks, t)} /\ UNCHANGED <<born, loops, job>> /\ job.pc = "idle"
    BY <1>7 DEF FireForeground, Waking, Selecting
  <2> QED BY <1>0, <2>1, WithoutEdits, BreaksInv DEF JobBreaks
<1>8. ASSUME NEW t \in Ids, FireLoop(t) PROVE LoopInv'
  <2>1. tasks' = tasks /\ UNCHANGED <<born, loops>> /\ t \in DOMAIN tasks
    BY <1>8 DEF FireLoop, Waking
  <2>2. CASE job' = Idle
    BY <1>0, <1>t, <2>1, <2>2, IdleBreaks, BreaksInv
  <2>3. CASE job' = Job(IF tasks[t].anchor = None THEN "spawn" ELSE "query", "loop", t,
                        tasks[t], Reserve(1))
    <3>1. /\ job'.task = t /\ job'.old = tasks[t] /\ ~job'.usable
          /\ job'.pc = IF tasks[t].anchor = None THEN "spawn" ELSE "query"
      BY <2>3, JobFields
    <3>2. job'.pc = "query" \/ (job'.pc = "spawn" /\ job'.old.anchor = None)
      BY <3>1
    <3>3. JobFires
      BY <2>1, <3>1, <3>2 DEF JobFires
    <3> QED BY <1>0, <2>1, <3>3, FiresInv
  <2> QED BY <1>8, <2>2, <2>3 DEF FireLoop
<1>9. ASSUME NEW t \in Ids, BecomesDue(t) PROVE LoopInv'
  BY <1>9, WaitsInv DEF BecomesDue, JobWaits
<1>10. ASSUME NEW t \in Ids, Expires(t) PROVE LoopInv'
  BY <1>10, WaitsInv DEF Expires, JobWaits
<1>11. CASE Persist
  <2>1. /\ job.pc = "persist" /\ job'.pc = "flush" /\ job'.task = job.task
        /\ job'.why = job.why /\ job'.old = job.old
        /\ tasks' = tasks /\ UNCHANGED <<born, loops>>
    BY <1>0, <1>11 DEF Persist, TypeOK, Jobs
  <2>2. JobBreaks
    BY <2>1 DEF JobBreaks, Barrier
  <2> QED BY <1>0, <1>t, <2>1, <2>2, BreaksInv
<1>12. CASE Flushed
  <2>1. job.pc = "flush" /\ UNCHANGED <<born, loops>>
    BY <1>12 DEF Flushed
  <2>2. CASE job' = [job EXCEPT !.pc = "publish"] /\ tasks' = tasks
    <3>1. /\ job'.pc = "publish" /\ job'.task = job.task /\ job'.why = job.why
          /\ job'.old = job.old
      BY <1>0, <2>2 DEF TypeOK, Jobs
    <3>2. JobBreaks
      BY <2>1, <3>1 DEF JobBreaks, Barrier
    <3> QED BY <1>0, <1>t, <2>1, <2>2, <3>2, BreaksInv
  <2>3. CASE job' = Idle /\ tasks' = tasks
    BY <1>0, <1>t, <2>1, <2>3, IdleBreaks, BreaksInv
  <2>4. CASE job' = Idle /\ job.why = "expire" /\ tasks' = With(tasks, job.task, job.old)
    <3>1. TasksEdited
      BY <2>1, <2>4 DEF TasksEdited, With, Barrier
    <3> QED BY <1>0, <2>1, <2>4, <3>1, IdleBreaks, BreaksInv
  <2> QED BY <1>12, <2>2, <2>3, <2>4 DEF Flushed, Lapse
<1>13. CASE FlushGivenUp
  <2>1. job' = Idle /\ tasks' = tasks /\ UNCHANGED <<born, loops>>
    BY <1>13 DEF FlushGivenUp, Lapse
  <2> QED BY <1>0, <1>t, <2>1, IdleBreaks, BreaksInv
<1>14. CASE NotAcknowledged
  <2>1. job' = Idle /\ tasks' = tasks /\ UNCHANGED <<born, loops>>
    BY <1>14 DEF NotAcknowledged
  <2> QED BY <1>0, <1>t, <2>1, IdleBreaks, BreaksInv
<1>15. CASE LoopSkipped
  <2>1. job' = Idle /\ tasks' = tasks /\ UNCHANGED <<born, loops>>
    BY <1>15 DEF LoopSkipped
  <2> QED BY <1>0, <1>t, <2>1, IdleBreaks, BreaksInv
<1>16. CASE SpawnLoop
  BY <1>0, <1>16, SpawnInv
<1>17. CASE Restore
  BY <1>17, RestoreInv
<1>18. CASE Acknowledged
  <2>1. job' = Idle /\ tasks' = tasks /\ UNCHANGED <<born, loops>>
    BY <1>18 DEF Acknowledged
  <2> QED BY <1>0, <1>t, <2>1, IdleBreaks, BreaksInv
<1>19. CASE QueryAnswered
  <2>1. job.pc = "query" /\ tasks' = tasks /\ UNCHANGED <<born, loops>>
    BY <1>19 DEF QueryAnswered
  <2>2. CASE job' = Idle
    BY <1>0, <1>t, <2>1, <2>2, IdleBreaks, BreaksInv
  <2>3. CASE job' # Idle
    <3>1. PICK known \in BOOLEAN :
              job' = [job EXCEPT !.pc = "unit",
                                 !.usable = known /\ sub[job.old.anchor].state = "completed"]
      BY <1>19, <2>3 DEF QueryAnswered
    <3>2. /\ job'.pc = "unit" /\ job'.task = job.task /\ job'.old = job.old
          /\ job'.usable => sub[job.old.anchor].state = "completed"
      BY <1>0, <3>1 DEF TypeOK, Jobs
    <3>3. JobFires
      BY <2>1, <3>2 DEF JobFires, Firing
    <3> QED BY <1>0, <2>1, <3>3, FiresInv
  <2> QED BY <2>2, <2>3
<1>20. CASE UnitAnswered
  <2>1. job.pc = "unit" /\ tasks' = tasks /\ UNCHANGED <<born, loops>>
    BY <1>20 DEF UnitAnswered
  <2>2. CASE job' = Idle
    BY <1>0, <1>t, <2>1, <2>2, IdleBreaks, BreaksInv
  <2>3. CASE job' = [job EXCEPT !.pc = "spawn"] /\ UnitOf(job.task) = {}
    <3>1. /\ job'.pc = "spawn" /\ job'.task = job.task /\ job'.old = job.old
          /\ job'.usable = job.usable
      BY <1>0, <2>3 DEF TypeOK, Jobs
    <3>2. \A s \in Subs : Busy(sub, s) => sub[s].task # job.task
      BY <2>3 DEF UnitOf, Busy
    <3>3. JobFires
      BY <2>1, <3>1, <3>2 DEF JobFires, Firing
    <3> QED BY <1>0, <2>1, <3>3, FiresInv
  <2> QED BY <1>20, <2>2, <2>3 DEF UnitAnswered
<1>21. ASSUME NEW s \in Subs, SubStarts(s) PROVE LoopInv'
  BY <1>0, <1>21, IterationsInv
<1>22. ASSUME NEW s \in Subs, NEW how \in {"completed", "failed"}, SubEnds(s, how) PROVE LoopInv'
  BY <1>0, <1>22, IterationsInv
<1>23. ASSUME NEW s \in Subs, BroodChanges(s) PROVE LoopInv'
  BY <1>0, <1>23, IterationsInv
<1>24. ASSUME NEW s \in Subs, Guard(s) PROVE LoopInv'
  BY <1>0, <1>24, GuardInv
<1>25. CASE CoordinatorCloses
  BY <1>0, <1>25, ClosesInv
<1>26. CASE ConsumerCloses
  BY <1>26, WaitsInv DEF ConsumerCloses, JobWaits
<1>27. CASE ToolSave
  BY <1>27, WaitsInv DEF ToolSave, JobWaits
<1>28. CASE WriterSaves
  BY <1>28, WaitsInv DEF WriterSaves, JobWaits
<1>29. CASE WriterFlushes
  <2>1. tasks' = tasks /\ UNCHANGED <<born, loops>>
    BY <1>29 DEF WriterFlushes
  <2>2. job' = job \/ \E answer \in {"ok", "error"} : job' = [job EXCEPT !.answer = answer]
    BY <1>29 DEF WriterFlushes
  <2>3. JobWaits
    BY <1>0, <2>1, <2>2 DEF JobWaits, TypeOK, Jobs
  <2> QED BY <2>1, <2>3, WaitsInv
<1>30. CASE WriterTicks
  BY <1>30, WaitsInv DEF WriterTicks, JobWaits
<1>31. CASE Stop
  <2>1. job'.pc = "stopped" /\ tasks' = tasks /\ UNCHANGED <<born, loops>>
    BY <1>31, JobFields DEF Stop
  <2> QED BY <1>0, <1>t, <2>1, BreaksInv DEF JobBreaks
<1>32. CASE Crash
  BY <1>0, <1>32, CrashInv
<1>33. CASE UNCHANGED vars
  BY <1>33, WaitsInv DEF vars, JobWaits
<1>. QED
  BY <1>1, <1>2, <1>3, <1>4, <1>5, <1>6, <1>7, <1>8, <1>9, <1>10, <1>11, <1>12, <1>13, <1>14,
     <1>15, <1>16, <1>17, <1>18, <1>19, <1>20, <1>21, <1>22, <1>23, <1>24, <1>25, <1>26, <1>27,
     <1>28, <1>29, <1>30, <1>31, <1>32, <1>33
  DEF Next, Proceeds, Answered

\* No iteration has run when the scheduler is created.
LEMMA InitLoop == ASSUME Init PROVE LoopInv
<1>1. /\ \A s \in Subs : sub[s] = Unused
      /\ guards = {} /\ coord /\ job = Idle
      /\ \A t \in DOMAIN tasks : tasks[t].anchor = None
  BY DEF Init, New
<1>2. \A s \in Subs : ~Busy(sub, s) /\ sub[s].state = "free"
  BY <1>1 DEF Unused, Busy
<1>3. Apart /\ BusyOK /\ ChainsKeepPrompt
  BY <1>1, <1>2 DEF Apart, BusyOK, ChainsKeepPrompt
<1>4. AnchorsOK /\ ChainsOK
  BY <1>1, <1>2, IdleFields DEF AnchorsOK, ChainsOK, FailedBut, Fits, Barrier, Firing
<1> QED BY <1>3, <1>4 DEF LoopInv

\* The inductive invariant of the loops.
LEMMA LoopInvariance == Spec => [](Inv /\ LoopInv)
<1>1. Init => Inv /\ LoopInv
  BY InitInv, InitLoop
<1>2. Inv /\ LoopInv /\ [Next]_vars => (Inv /\ LoopInv)'
  BY NextInv, LoopStep
<1> QED BY <1>1, <1>2, PTL DEF Spec

\* Iterations of a loop, with what descends from them, overlap only when one of them has
\* failed: for any number of tasks and iterations, whatever is patched, refused, rolled
\* back, put back or lost in a crash between the questions of fire_as_loop_subagent and
\* the request it sends.
THEOREM UnitsApart == Spec => []OneUnitUnlessFailed
<1>1. LoopInv => OneUnitUnlessFailed
  BY DEF LoopInv, Apart, Busy, OneUnitUnlessFailed, UnitOf
<1> QED BY <1>1, LoopInvariance, PTL

\* A transcript is resumed only for the prompt it was written for, and never more than
\* LOOP_FRESH_CHAIN_EVERY times, although the prompt may be patched and the chain cleared
\* or rolled back while earlier iterations run.
THEOREM ChainsFit == Spec => []ChainsKeepPrompt
<1>1. LoopInv => ChainsKeepPrompt
  BY DEF LoopInv
<1> QED BY <1>1, LoopInvariance, PTL

=============================================================================
