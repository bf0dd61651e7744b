---------------------------- MODULE UploadQueue ----------------------------
(***************************************************************************)
(* The spill-to-disk upload queue: xai-file-utils/src/queue.rs, with the   *)
(* recovery of spilled uploads at the start of a process                   *)
(* (xai-grok-workspace/src/recovery.rs).                                   *)
(*                                                                         *)
(* A caller writes a temporary file, and a sidecar if the upload is to     *)
(* survive the process, and hands an item to the worker.  The worker       *)
(* dispatches items over a limited number of permits; every item retries,  *)
(* parks while its credentials are refused, and removes its files when it  *)
(* is through.  Recovery runs beside all that and queues every pair it     *)
(* finds once more, those of this very process too.                        *)
(*                                                                         *)
(* Every upload has its own file name, so an upload is its file; all have  *)
(* size 1.  An item is a file with its origin: handed over by its caller,  *)
(* or by recovery.                                                         *)
(***************************************************************************)
EXTENDS Integers, Sequences, FiniteSets

CONSTANTS
    Files,
    Dest,           \* the destination of an upload
    Hashed,         \* destinations named by a content hash
    Plain,          \* uploads by enqueue; the others, by enqueue_bytes_blocking, get a sidecar
    Ageing,         \* items that may reach max_age
    ChannelCap,     \* CHANNEL_CAPACITY
    MaxConcurrent,  \* permits of the worker
    MaxBytes,       \* max_queue_bytes
    MaxAttempts,    \* max_attempts of the retry policy
    Threshold,      \* CIRCUIT_BREAKER_THRESHOLD
    Lives,          \* bound: processes, one after the other
    None

Items == Files \X {"caller", "recovery"}

ASSUME UploadQueueAssumption ==
    /\ IsFiniteSet(Files) /\ Plain \subseteq Files /\ Ageing \subseteq Items
    /\ {ChannelCap, MaxConcurrent, MaxAttempts, Threshold, Lives} \subseteq Nat \ {0}
    /\ MaxBytes \in Nat /\ None \notin Items
    /\ {"due", "done"} \cap Files = {}     \* the marks of scan are no files

VARIABLES
    temp, side,     \* the temporary files ("none", "whole", "torn") and the sidecars
    stored,         \* what the storage holds of an upload that is not plain
    aged,           \* items older than max_age; a caller's as long as its sidecar tells
    stage,          \* where an item is
    tries, refused, \* attempts and auth_retried of an item
    sized,          \* items that will give back a byte when they settle
    chan, held,     \* the channel, and the item for which the worker waits for a permit
    permits,        \* items that hold a permit
    worker, signal, \* the dispatch loop, and whether drain() has signalled
    fails,          \* consecutive_failures
    pending, bytes, \* the counters
    marked,         \* uploads_in_flight
    inline,         \* uploads of the inline fallback
    scan,           \* recovery: not begun, the sidecars still to look at, or done
    life,           \* the number of this process
    owed            \* history: uploads with a sidecar, neither refused nor given up

disk == <<temp, side, stored>>
callers == <<marked, inline>>
task == <<tries, refused, permits>>
counters == <<pending, bytes, sized>>
loop == <<chan, held, worker, signal, fails>>
process == <<scan, life>>
vars == <<disk, aged, callers, stage, task, counters, loop, process, owed>>

Stages == {"none", "written", "counted", "queued", "held", "trying", "parked",
           "waking", "won", "lost", "swept", "cut", "end"}

TypeOK ==
    /\ temp \in [Files -> {"none", "whole", "torn"}] /\ side \in [Files -> BOOLEAN]
    /\ stored \in [Files -> {"none", "whole", "torn"}]
    /\ stage \in [Items -> Stages] /\ tries \in [Items -> 0 .. MaxAttempts]
    /\ {aged, refused, sized, permits} \subseteq SUBSET Items
    /\ chan \in Seq(Items) /\ held \in Items \cup {None}
    /\ worker \in {"run", "cool", "drain", "exited"} /\ signal \in BOOLEAN
    /\ fails \in 0 .. Threshold /\ pending \in Nat /\ bytes \in Int
    /\ marked \subseteq Hashed /\ {inline, owed} \subseteq SUBSET Files
    /\ scan \subseteq Files \/ scan \in {{"due"}, {"done"}}
    /\ life \in 1 .. Lives

Live(f) == <<f, "caller">>
File(i) == i[1]

\* What a new process starts with.
Fresh ==
    /\ stage' = [i \in Items |-> IF i[2] = "caller" /\ stage[i] # "none" THEN "end" ELSE "none"]
    /\ tries' = [i \in Items |-> 0]
    /\ refused' = {} /\ sized' = {} /\ permits' = {} /\ marked' = {} /\ inline' = {}
    /\ chan' = <<>> /\ held' = None /\ worker' = "run" /\ signal' = FALSE /\ fails' = 0
    /\ pending' = 0 /\ bytes' = 0 /\ scan' = {"due"}

Init ==
    /\ temp = [f \in Files |-> "none"] /\ side = [f \in Files |-> FALSE]
    /\ stored = [f \in Files |-> "none"] /\ aged = {}
    /\ stage = [i \in Items |-> "none"] /\ tries = [i \in Items |-> 0]
    /\ refused = {} /\ sized = {} /\ permits = {} /\ marked = {} /\ inline = {}
    /\ chan = <<>> /\ held = None /\ worker = "run" /\ signal = FALSE /\ fails = 0
    /\ pending = 0 /\ bytes = 0 /\ scan = {"due"} /\ life = 1
    /\ owed = {}

----------------------------------------------------------------------------
(* Callers *)

Moves(i, s) == stage' = [stage EXCEPT ![i] = s]
RemoveTemp(f) == temp' = [temp EXCEPT ![f] = "none"]
RemoveSide(f) == side' = [side EXCEPT ![f] = FALSE]
\* Mutant of Unmark: a path forgets the mark.
UnmarkNot(f) == UNCHANGED marked
Unmark(f) == marked' = marked \ {Dest[f]}
Stores(f, what) == stored' = IF f \in Plain THEN stored ELSE [stored EXCEPT ![f] = what]

OverBudget == bytes + 1 > MaxBytes

\* A duplicate of an upload in flight is dropped.  Else the temporary file is written, the
\* budget is asked, and the sidecar is written.  A write may fail; a temporary file without
\* a sidecar is never read again.
Enqueue(f) ==
    /\ stage[Live(f)] = "none"
    /\ \/ /\ Moves(Live(f), "end")        \* a duplicate, or a write failed
          /\ UNCHANGED <<temp, side, marked, inline, owed>>
       \/ /\ Dest[f] \notin marked /\ OverBudget
          /\ Moves(Live(f), "end") /\ inline' = inline \cup {f}
          /\ UNCHANGED <<temp, side, marked, owed>>
       \/ /\ Dest[f] \notin marked /\ ~OverBudget
          /\ Moves(Live(f), "written")
          /\ temp' = [temp EXCEPT ![f] = "whole"] /\ side' = [side EXCEPT ![f] = f \notin Plain]
          /\ marked' = marked \cup ({Dest[f]} \cap Hashed)
          /\ owed' = owed \cup ({f} \ Plain)
          /\ UNCHANGED inline
    /\ UNCHANGED <<stored, aged, task, counters, loop, process>>

\* The counters are raised before the item is handed over.
Count(f) ==
    /\ stage[Live(f)] = "written"
    /\ Moves(Live(f), "counted")
    /\ pending' = pending + 1 /\ bytes' = bytes + 1 /\ sized' = sized \cup {Live(f)}
    /\ UNCHANGED <<disk, aged, callers, task, loop, process, owed>>

Closed == worker \in {"drain", "exited"}
Full == Len(chan) >= ChannelCap

Accept(f) ==
    /\ stage[Live(f)] = "counted" /\ ~Closed /\ ~Full
    /\ Moves(Live(f), "queued") /\ chan' = Append(chan, Live(f))
    /\ UNCHANGED <<disk, aged, callers, task, counters, held, worker, signal, fails, process, owed>>

\* Mutant of Reject: the counters keep the item.
RejectKeepsCount(f) ==
    /\ stage[Live(f)] = "counted" /\ (Closed \/ Full)
    /\ Moves(Live(f), "end") /\ RemoveTemp(f) /\ RemoveSide(f) /\ Unmark(f)
    /\ inline' = IF ~Closed \/ f \in Plain THEN inline \cup {f} ELSE inline
    /\ owed' = owed \ {f}
    /\ UNCHANGED <<stored, aged, task, counters, loop, process>>

\* Mutant of Reject: the count is taken back twice.
RejectTwice(f) ==
    /\ stage[Live(f)] = "counted" /\ (Closed \/ Full)
    /\ Moves(Live(f), "end") /\ RemoveTemp(f) /\ RemoveSide(f) /\ Unmark(f)
    /\ pending' = pending - 2 /\ bytes' = bytes - 2 /\ sized' = sized \ {Live(f)}
    /\ inline' = IF ~Closed \/ f \in Plain THEN inline \cup {f} ELSE inline
    /\ owed' = owed \ {f}
    /\ UNCHANGED <<stored, aged, task, loop, process>>

\* The channel is full or closed: the files go, the counters are taken back, and the
\* upload goes on inline unless the queue is closed to a caller that wants durability.
Reject(f) ==
    /\ stage[Live(f)] = "counted" /\ (Closed \/ Full)
    /\ Moves(Live(f), "end") /\ RemoveTemp(f) /\ RemoveSide(f) /\ Unmark(f)
    /\ pending' = pending - 1 /\ bytes' = bytes - 1 /\ sized' = sized \ {Live(f)}
    /\ inline' = IF ~Closed \/ f \in Plain THEN inline \cup {f} ELSE inline
    /\ owed' = owed \ {f}
    /\ UNCHANGED <<stored, aged, task, loop, process>>

\* One attempt, from memory.
InlineEnds(f) ==
    /\ f \in inline
    /\ inline' = inline \ {f}
    /\ UNCHANGED stored \/ Stores(f, "whole")
    /\ UNCHANGED <<temp, side, aged, marked, stage, task, counters, loop, process, owed>>

----------------------------------------------------------------------------
(* The worker *)

\* A tripped breaker pauses the dispatch until it has cooled down.
Trip ==
    /\ worker = "run" /\ held = None /\ fails >= Threshold
    /\ worker' = "cool"
    /\ UNCHANGED <<disk, aged, callers, stage, task, counters, chan, held, signal, fails, process, owed>>

CoolDown ==
    /\ worker = "cool"
    /\ \/ worker' = "run" /\ fails' = 0
       \/ signal /\ worker' = "drain" /\ UNCHANGED fails
    /\ UNCHANGED <<disk, aged, callers, stage, task, counters, chan, held, signal, process, owed>>

\* The next item, in the order of the channel.  Nothing is polled while it waits for a
\* permit.
Receive ==
    /\ held = None /\ chan # <<>>
    /\ worker = "drain" \/ (worker = "run" /\ fails < Threshold)
    /\ held' = Head(chan) /\ chan' = Tail(chan) /\ Moves(Head(chan), "held")
    /\ UNCHANGED <<disk, aged, callers, task, counters, worker, signal, fails, process, owed>>

\* The item's task reads the size from the file; an item that is too old is not tried.
Spawn ==
    /\ held # None /\ Cardinality(permits) < MaxConcurrent
    /\ Moves(held, IF held \in aged THEN "lost" ELSE "trying")
    /\ permits' = permits \cup {held} /\ held' = None
    /\ sized' = IF temp[File(held)] = "none" THEN sized \ {held} ELSE sized
    /\ owed' = IF held \in aged THEN owed \ {File(held)} ELSE owed
    /\ UNCHANGED <<disk, aged, callers, tries, refused, pending, bytes, chan, worker, signal, fails,
                   process>>

\* The signal is seen by the select: the receiver closes.
SeesSignal ==
    /\ worker = "run" /\ held = None /\ fails < Threshold /\ signal
    /\ worker' = "drain"
    /\ UNCHANGED <<disk, aged, callers, stage, task, counters, chan, held, signal, fails, process, owed>>

Working == {i \in Items : stage[i] \in {"trying", "parked", "waking", "won", "lost", "swept"}}

\* Everything is dispatched and every task has ended.
Exit ==
    /\ worker = "drain" /\ held = None /\ chan = <<>> /\ Working = {}
    /\ worker' = "exited"
    /\ UNCHANGED <<disk, aged, callers, stage, task, counters, chan, held, signal, fails, process, owed>>

Drain ==
    /\ ~signal /\ signal' = TRUE
    /\ UNCHANGED <<disk, aged, callers, stage, task, counters, chan, held, worker, fails, process, owed>>

\* The drain's deadline: the worker is aborted with its channel and the tasks that wait
\* somewhere.  Their files stay.
Abort ==
    /\ signal /\ worker # "exited"
    /\ LET gone == {i \in Items : stage[i] \in {"queued", "held", "trying", "parked", "waking"}}
       IN  /\ stage' = [i \in Items |-> IF i \in gone THEN "cut" ELSE stage[i]]
           /\ permits' = permits \ gone
           /\ marked' = marked \ {Dest[f] : f \in {g \in Files : Live(g) \in gone}}
    /\ chan' = <<>> /\ held' = None /\ worker' = "exited"
    /\ UNCHANGED <<disk, aged, inline, tries, refused, counters, signal, fails, process, owed>>

----------------------------------------------------------------------------
(* An item: process_item and upload_with_retries *)

Tried(i) == tries' = [tries EXCEPT ![i] = IF @ < MaxAttempts THEN @ + 1 ELSE @]
Failed == fails' = IF fails < Threshold THEN fails + 1 ELSE fails

\* The item is given up after an error that counts.
GiveUp(i) == Moves(i, "lost") /\ Failed /\ owed' = owed \ {File(i)}

Succeeds(i) ==
    /\ temp[File(i)] # "none"
    /\ Stores(File(i), temp[File(i)])
    /\ fails' = 0 /\ Moves(i, "won")
    /\ UNCHANGED <<refused, permits, owed>>

\* A status that no retry changes.
Terminal(i) ==
    /\ temp[File(i)] # "none"
    /\ Moves(i, "lost") /\ owed' = owed \ {File(i)}
    /\ UNCHANGED <<stored, fails, refused, permits>>

\* Any other error, a missing file among them.  The storage may have got the upload.
Retryable(i) ==
    /\ UNCHANGED stored \/ (temp[File(i)] # "none" /\ Stores(File(i), temp[File(i)]))
    /\ IF tries[i] + 1 >= MaxAttempts
       THEN GiveUp(i) ELSE UNCHANGED <<stage, fails, owed>>
    /\ UNCHANGED <<refused, permits>>

\* Mutant of Park: the permit is kept.
ParkKeepsPermit(i, recoverable) ==
    /\ IF worker = "drain" \/ ~recoverable \/ i \in aged THEN GiveUp(i)
       ELSE Moves(i, "parked") /\ UNCHANGED <<fails, owed>>
    /\ UNCHANGED permits

\* The permit is given back.  A queue that drains, or credentials that cannot recover, end
\* the item.
Park(i, recoverable) ==
    /\ permits' = permits \ {i}
    /\ IF worker = "drain" \/ ~recoverable \/ i \in aged THEN GiveUp(i)
       ELSE Moves(i, "parked") /\ UNCHANGED <<fails, owed>>

\* Credentials refused: once more with fresh ones, then park.
Refused(i) ==
    /\ temp[File(i)] # "none" /\ UNCHANGED stored
    /\ IF i \in refused THEN UNCHANGED refused /\ \E recoverable \in BOOLEAN : Park(i, recoverable)
       ELSE refused' = refused \cup {i} /\ UNCHANGED <<stage, permits, fails, owed>>

Attempt(i) ==
    /\ stage[i] = "trying" /\ Tried(i)
    /\ Succeeds(i) \/ Terminal(i) \/ Retryable(i) \/ Refused(i)
    /\ UNCHANGED <<temp, side, aged, marked, inline, counters, chan, held, worker, signal, process>>

\* A parked item notices the drain, its age, or that the credentials are beyond recovery.
ParkEnds(i) ==
    /\ stage[i] = "parked"
    /\ GiveUp(i)
    /\ UNCHANGED <<disk, aged, callers, task, counters, chan, held, worker, signal, process>>

\* New credentials, or a probe is due.
ParkWakes(i) ==
    /\ stage[i] = "parked" /\ worker # "drain" /\ i \notin aged
    /\ Moves(i, "waking")
    /\ UNCHANGED <<disk, aged, callers, task, counters, loop, process, owed>>

Reacquire(i) ==
    /\ stage[i] = "waking" /\ Cardinality(permits) < MaxConcurrent
    /\ Moves(i, "trying") /\ permits' = permits \cup {i} /\ refused' = refused \ {i}
    /\ UNCHANGED <<disk, aged, callers, tries, counters, loop, process, owed>>

\* remove_item_files, the temporary file first.
RemoveFiles(i) ==
    /\ stage[i] \in {"won", "lost"}
    /\ Moves(i, "swept") /\ RemoveTemp(File(i)) /\ UNCHANGED side
    /\ UNCHANGED <<stored, aged, callers, task, counters, loop, process, owed>>

\* Then the sidecar and the counters; permit and mark are freed.  A recovered item has no
\* mark.
Settle(i) ==
    /\ stage[i] = "swept"
    /\ Moves(i, "end")
    /\ RemoveSide(File(i))
    /\ IF i = Live(File(i)) THEN Unmark(File(i)) ELSE UNCHANGED marked
    /\ pending' = pending - 1
    /\ bytes' = IF i \in sized THEN bytes - 1 ELSE bytes
    /\ sized' = sized \ {i} /\ permits' = permits \ {i}
    /\ tries' = [tries EXCEPT ![i] = 0] /\ refused' = refused \ {i} /\ aged' = aged \ {i}
    /\ UNCHANGED <<temp, stored, inline, loop, process, owed>>

----------------------------------------------------------------------------
(* Recovery, beside everything else *)

\* run_startup_recovery lists the sidecars.
Scan ==
    /\ scan = {"due"}
    /\ scan' = {f \in Files : side[f]}
    /\ UNCHANGED <<disk, aged, callers, stage, task, counters, loop, life, owed>>

Again(f) == <<f, "recovery">>
Scanned(f) == f \in scan /\ scan' = scan \ {f}

\* Mutant of Unrecoverable: the hash is not compared.
UnrecoverableUnhashed(f) == ~side[f] \/ temp[f] = "none" \/ Live(f) \in aged

\* The sidecar is gone, the file is missing or its hash is another, or the pair is too old:
\* what is left of the pair is removed.
Unrecoverable(f) == ~side[f] \/ temp[f] # "whole" \/ Live(f) \in aged

Discard(f) ==
    /\ Scanned(f) /\ Unrecoverable(f)
    /\ RemoveTemp(f) /\ RemoveSide(f)
    /\ owed' = IF Live(f) \in aged THEN owed \ {f} ELSE owed
    /\ UNCHANGED <<stored, aged, callers, stage, task, counters, loop, life>>

Recover(f) ==
    /\ Scanned(f) /\ ~Unrecoverable(f) /\ ~OverBudget /\ ~Closed /\ ~Full
    /\ Moves(Again(f), "queued") /\ chan' = Append(chan, Again(f))
    /\ pending' = pending + 1 /\ bytes' = bytes + 1 /\ sized' = sized \cup {Again(f)}
    /\ UNCHANGED <<disk, aged, callers, task, held, worker, signal, fails, life, owed>>

\* Mutant of LeaveForLater: a pair that cannot be queued now is removed.
LeaveNothing(f) ==
    /\ Scanned(f) /\ ~Unrecoverable(f) /\ (OverBudget \/ Closed \/ Full)
    /\ RemoveTemp(f) /\ RemoveSide(f)
    /\ UNCHANGED <<stored, aged, callers, stage, task, counters, loop, life, owed>>

\* No room: the pair stays for a later start.
LeaveForLater(f) ==
    /\ Scanned(f) /\ ~Unrecoverable(f) /\ (OverBudget \/ Closed \/ Full)
    /\ UNCHANGED <<disk, aged, callers, stage, task, counters, loop, life, owed>>

\* cleanup_orphans removes what is older than max_age.
CleanupOrphans ==
    /\ scan = {} /\ scan' = {"done"}
    /\ LET orphans == {f \in Files : Live(f) \in aged}
       IN  /\ temp' = [f \in Files |-> IF f \in orphans THEN "none" ELSE temp[f]]
           /\ side' = [f \in Files |-> side[f] /\ f \notin orphans]
           /\ owed' = owed \ orphans
    /\ UNCHANGED <<stored, aged, callers, stage, task, counters, loop, life>>

----------------------------------------------------------------------------
(* Time and the end of a process *)

\* A recovered item counts its age from its recovery.  No call to enqueue takes max_age.
\* Nobody asks for the age of an upload that has left the queue and the disk.
Ages(i) ==
    /\ i \in Ageing \ aged /\ aged' = aged \cup {i}
    /\ stage[i] \notin {"none", "written", "counted"}
    /\ stage[i] = "end" => side[File(i)]
    /\ UNCHANGED <<disk, callers, stage, task, counters, loop, process, owed>>

\* What the next process finds: a temporary file without a sidecar is never read again,
\* and its age is of no interest.
Found(t, sc) ==
    /\ side' = sc /\ temp' = [f \in Files |-> IF sc[f] THEN t[f] ELSE "none"]
    /\ aged' = {i \in aged : i = Live(File(i)) /\ sc[File(i)]}

\* The process ends in any state, and the next one starts.  The files stay.
Dies ==
    /\ life < Lives /\ life' = life + 1
    /\ Fresh /\ Found(temp, side)
    /\ UNCHANGED <<stored, owed>>

\* The machine goes down: temporary files are not synchronised, and neither is the
\* directory, so that any of them may be torn and any sidecar missing.
LosesPower ==
    /\ life < Lives /\ life' = life + 1
    /\ Fresh
    /\ \E torn, missing \in SUBSET {f \in Files : side[f]} :
        /\ Found([f \in Files |-> IF temp[f] = "whole" /\ f \in torn THEN "torn" ELSE temp[f]],
                 [f \in Files |-> side[f] /\ f \notin missing])
        /\ owed' = owed \ (torn \cup missing)
    /\ UNCHANGED stored

----------------------------------------------------------------------------

Dispatch == Trip \/ CoolDown \/ Receive \/ SeesSignal \/ Exit
CallerSteps(f) == Count(f) \/ Accept(f) \/ Reject(f) \/ InlineEnds(f)
ItemSteps(i) ==
    \/ Attempt(i) \/ Reacquire(i) \/ RemoveFiles(i) \/ Settle(i)
    \/ worker = "drain" /\ ParkEnds(i)

Next ==
    \/ Dispatch \/ Spawn \/ Drain \/ Abort \/ Scan \/ CleanupOrphans \/ Dies \/ LosesPower
    \/ \E f \in Files :
        \/ Enqueue(f) \/ CallerSteps(f) \/ Discard(f) \/ Recover(f) \/ LeaveForLater(f)
    \/ \E i \in Items : ItemSteps(i) \/ ParkEnds(i) \/ ParkWakes(i) \/ Ages(i)

Spec == Init /\ [][Next]_vars

\* Callers, the worker and the items go on; attempts come back.  Permits are given out in
\* the order they are asked for.  Credentials need not recover and nothing need get old.
FairSpec ==
    /\ Spec
    /\ WF_vars(Dispatch) /\ SF_vars(Spawn)
    /\ \A f \in Files : WF_vars(CallerSteps(f))
    /\ \A i \in Items : WF_vars(ItemSteps(i))

----------------------------------------------------------------------------
(* Properties *)

\* A durable upload that the queue took is in the storage, or was given up by a rule (a
\* terminal status, exhausted attempts, refused credentials, its age, a loss of power), or
\* is on disk as an intact pair: also after crashes, aborted drains and recoveries that
\* raced its own worker.
DurableSurvives ==
    \A f \in owed : stored[f] # "none" \/ (temp[f] = "whole" /\ side[f])

\* What the storage holds was never torn by a loss of power: recovery compares the hash.
NothingTornStored == \A f \in Files : stored[f] # "torn"

Unsettled == {i \in Items : stage[i] \in {"counted", "queued", "held", "cut"}} \cup Working

\* pending counts exactly the items that have not settled, as wait_idle relies on, and
\* pending_bytes covers what they will take back: the counter does not wrap below zero.
CountersSound ==
    /\ pending = Cardinality(Unsettled)
    /\ sized \subseteq Unsettled /\ bytes >= Cardinality(sized)

\* A destination is marked as long as one upload for it is on its way: no path through the
\* queue, its fallbacks or an aborted drain leaves a mark behind, which would drop every
\* later upload of that content.
MarksHeld ==
    \A d \in marked : \E f \in Files : Dest[f] = d /\ stage[Live(f)] \notin {"none", "cut", "end"}

\* After drain() has signalled, the worker exits by itself: parked items let go.
DrainEnds == signal ~> worker = "exited" \/ ~signal

=============================================================================
