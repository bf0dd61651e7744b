------------------------- MODULE UploadQueueProofs -------------------------
(***************************************************************************)
(* For every number of files, every capacity, budget and threshold of      *)
(* UploadQueue, and every number of crashes: the type invariant, that no   *)
(* durable upload is lost, that nothing torn is stored, and that counters  *)
(* and marks are exact.                                                    *)
(***************************************************************************)
EXTENDS UploadQueue, TLAPS, FiniteSetTheorems, SequenceTheorems

\* The channel holds every queued item once, and the worker holds a held one.
ChanOK ==
    /\ \A k \in 1 .. Len(chan) : stage[chan[k]] = "queued"
    /\ \A j, k \in 1 .. Len(chan) : chan[j] = chan[k] => j = k
    /\ held # None => stage[held] = "held"

\* Recovery queues a file at most once in a process.
ScanOK ==
    \A f \in Files : scan = {"due"} \/ f \in scan => stage[Again(f)] = "none"

\* What is on disk or recovered was enqueued, and nobody works on a torn file.
DiskOK ==
    \A f \in Files :
        /\ temp[f] # "none" \/ side[f] \/ stage[Again(f)] # "none" => stage[Live(f)] # "none"
        /\ temp[f] = "torn" => stage[Live(f)] = "end" /\ stage[Again(f)] = "none"

\* The files of an item are removed only when the storage has the upload or nobody is
\* owed it.
OweOK ==
    /\ owed \cap Plain = {}
    /\ \A i \in Items : stage[i] \in {"won", "lost", "swept"} =>
        File(i) \notin owed \/ stored[File(i)] # "none"

\* An item that is counted and not yet handed over will give its byte back.
CountedOK == \A i \in Items : stage[i] = "counted" => i \in sized

Safe == DurableSurvives /\ NothingTornStored /\ CountersSound /\ MarksHeld
Inv == TypeOK /\ Safe /\ ChanOK /\ ScanOK /\ DiskOK /\ OweOK /\ CountedOK

----------------------------------------------------------------------------
(* Items *)

\* An item is the caller's or recovery's of its file, and the two differ.
LEMMA ItemFacts ==
    /\ \A f \in Files : /\ Live(f) \in Items /\ File(Live(f)) = f
                        /\ Again(f) \in Items /\ File(Again(f)) = f
    /\ \A i \in Items : File(i) \in Files /\ (i = Live(File(i)) \/ i = Again(File(i)))
    /\ \A f, g \in Files : Live(f) # Again(g)
BY DEF Items, Live, Again, File

\* Which of the two an item is, as Fresh asks.
LEMMA ItemOrigin == \A f \in Files : Live(f)[2] = "caller" /\ Again(f)[2] # "caller"
BY DEF Live, Again

\* There are finitely many items, so that sets of them can be counted.
LEMMA ItemsFinite == IsFiniteSet(Items)
<1>1. IsFiniteSet({"caller", "recovery"})
  <2>1. {"caller", "recovery"} = {"caller"} \cup {"recovery"}
    OBVIOUS
  <2>2. IsFiniteSet({"caller"})
    BY FS_Singleton
  <2>3. IsFiniteSet({"caller"} \cup {"recovery"})
    BY <2>2, FS_AddElement
  <2>. QED
    BY <2>1, <2>3
<1>. QED
  BY <1>1, FS_Product, UploadQueueAssumption DEF Items


----------------------------------------------------------------------------
(* What the larger steps do *)

\* An attempt leaves its item trying, parked, through or given up.  An item is through
\* when the storage has what the file held, and given up only when nobody is owed it.
Attempted(i, s) ==
    /\ stage' = [stage EXCEPT ![i] = s]
    /\ owed' \in {owed, owed \ {File(i)}}
    /\ stored' = stored \/ (temp[File(i)] # "none" /\ Stores(File(i), temp[File(i)]))
    /\ s = "won" => temp[File(i)] # "none" /\ Stores(File(i), temp[File(i)])
    /\ s = "lost" => owed' = owed \ {File(i)}
    /\ permits' \in {permits, permits \ {i}} /\ refused' \in {refused, refused \cup {i}}
    /\ fails' \in 0 .. Threshold /\ tries' \in [Items -> 0 .. MaxAttempts]
    /\ UNCHANGED <<temp, side, aged, marked, inline, counters, chan, held, worker, signal, process>>

\* An attempt ends in one of four ways, and leaves the rest as it was.
LEMMA AttemptEffect ==
    ASSUME TypeOK, NEW i \in Items, Attempt(i)
    PROVE  stage[i] = "trying" /\ \E s \in {"trying", "parked", "won", "lost"} : Attempted(i, s)
<1>1. stage[i] = "trying" /\ stage = [stage EXCEPT ![i] = "trying"]
  BY DEF Attempt, TypeOK
<1>2. tries' \in [Items -> 0 .. MaxAttempts]
  BY UploadQueueAssumption DEF Attempt, Tried, TypeOK
<1>3. fails \in 0 .. Threshold /\ 0 \in 0 .. Threshold /\ (Failed => fails' \in 0 .. Threshold)
  BY UploadQueueAssumption DEF TypeOK, Failed
<1>4. UNCHANGED <<temp, side, aged, marked, inline, counters, chan, held, worker, signal, process>>
  BY DEF Attempt
<1>5. CASE Succeeds(i)
  <2>1. Attempted(i, "won")
    BY <1>2, <1>3, <1>4, <1>5 DEF Attempted, Succeeds, Moves
  <2>. QED
    BY <1>1, <2>1
<1>6. CASE Terminal(i)
  <2>1. Attempted(i, "lost")
    BY <1>2, <1>3, <1>4, <1>6 DEF Attempted, Terminal, Moves
  <2>. QED
    BY <1>1, <2>1
<1>7. CASE Retryable(i)
  <2>1. Attempted(i, "lost") \/ Attempted(i, "trying")
    BY <1>1, <1>2, <1>3, <1>4, <1>7 DEF Attempted, Retryable, GiveUp, Moves
  <2>. QED
    BY <1>1, <2>1
<1>8. CASE Refused(i)
  <2>1. CASE i \in refused
    <3>1. PICK recoverable \in BOOLEAN : Park(i, recoverable)
      BY <1>8, <2>1 DEF Refused
    <3>2. Attempted(i, "lost") \/ Attempted(i, "parked")
      BY <1>2, <1>3, <1>4, <1>8, <2>1, <3>1 DEF Attempted, Refused, Park, GiveUp, Moves
    <3>. QED
      BY <1>1, <3>2
  <2>2. CASE i \notin refused
    <3>1. Attempted(i, "trying")
      BY <1>1, <1>2, <1>3, <1>4, <1>8, <2>2 DEF Attempted, Refused
    <3>. QED
      BY <1>1, <3>1
  <2>. QED
    BY <2>1, <2>2
<1>. QED
  BY <1>5, <1>6, <1>7, <1>8 DEF Attempt

\* A new process has no item under way.  It finds the sidecars that were there, or fewer,
\* each with its file; what it is still owed it finds as it was.
Restarted ==
    /\ \A f \in Files :
        /\ stage'[Live(f)] = IF stage[Live(f)] = "none" THEN "none" ELSE "end"
        /\ stage'[Again(f)] = "none"
        /\ side'[f] => side[f]
        /\ temp'[f] # "none" => side'[f] /\ temp[f] # "none"
        /\ f \in owed' => f \in owed /\ side'[f] = side[f] /\ (side[f] => temp'[f] = temp[f])
    /\ stage' \in [Items -> {"none", "end"}]
    /\ temp' \in [Files -> {"none", "whole", "torn"}] /\ side' \in [Files -> BOOLEAN]
    /\ aged' \subseteq aged /\ owed' \subseteq owed
    /\ life' \in 1 .. Lives /\ stored' = stored /\ Fresh

\* A crash, or a loss of power, restarts the process.
LEMMA RestartEffect == ASSUME TypeOK, Dies \/ LosesPower PROVE Restarted
<1>1. Fresh /\ stored' = stored /\ life' \in 1 .. Lives
  BY UploadQueueAssumption DEF Dies, LosesPower, TypeOK
<1>2. stage' \in [Items -> {"none", "end"}]
  BY <1>1 DEF Fresh
<1>3. \A f \in Files : /\ stage'[Live(f)] = IF stage[Live(f)] = "none" THEN "none" ELSE "end"
                       /\ stage'[Again(f)] = "none"
  BY <1>1, ItemFacts, ItemOrigin DEF Fresh
<1>4. CASE Dies
  BY <1>1, <1>2, <1>3, <1>4 DEF Restarted, Dies, Found, TypeOK
<1>5. CASE LosesPower
  <2>1. PICK torn, missing \in SUBSET {f \in Files : side[f]} :
          /\ Found([f \in Files |-> IF temp[f] = "whole" /\ f \in torn THEN "torn" ELSE temp[f]],
                   [f \in Files |-> side[f] /\ f \notin missing])
          /\ owed' = owed \ (torn \cup missing)
    BY <1>5 DEF LosesPower
  <2>. DEFINE t == [f \in Files |-> IF temp[f] = "whole" /\ f \in torn THEN "torn" ELSE temp[f]]
              sc == [f \in Files |-> side[f] /\ f \notin missing]
  <2>2. /\ side' = sc /\ temp' = [f \in Files |-> IF sc[f] THEN t[f] ELSE "none"]
        /\ aged' \subseteq aged
    BY <2>1 DEF Found
  <2>3. t \in [Files -> {"none", "whole", "torn"}] /\ sc \in [Files -> BOOLEAN]
    BY DEF TypeOK
  <2>4. /\ temp' \in [Files -> {"none", "whole", "torn"}] /\ side' \in [Files -> BOOLEAN]
        /\ owed' \subseteq owed
    BY <2>1, <2>2, <2>3
  <2>5. ASSUME NEW f \in Files
        PROVE  /\ side'[f] => side[f]
               /\ temp'[f] # "none" => side'[f] /\ temp[f] # "none"
               /\ f \in owed' => f \in owed /\ side'[f] = side[f] /\ (side[f] => temp'[f] = temp[f])
    BY <2>1, <2>2 DEF TypeOK
  <2>. QED
    BY <1>1, <1>2, <1>3, <2>2, <2>4, <2>5 DEF Restarted
<1>. QED
  BY <1>4, <1>5

\* The next item of the channel is queued, and it is not there twice.
LEMMA HeadQueued ==
    ASSUME TypeOK, ChanOK, chan # <<>>
    PROVE  /\ Head(chan) \in Items /\ stage[Head(chan)] = "queued"
           /\ Tail(chan) \in Seq(Items) /\ Len(Tail(chan)) = Len(chan) - 1 /\ Len(chan) \in Nat
           /\ \A k \in 1 .. Len(Tail(chan)) :
                /\ k + 1 \in 1 .. Len(chan) /\ Tail(chan)[k] = chan[k + 1]
                /\ chan[k + 1] \in Items \ {Head(chan)}
<1>1. /\ chan \in Seq(Items) /\ Len(chan) \in Nat \ {0} /\ Head(chan) = chan[1]
      /\ Head(chan) \in Items /\ Tail(chan) \in Seq(Items) /\ Len(Tail(chan)) = Len(chan) - 1
      /\ \A k \in 1 .. Len(Tail(chan)) : Tail(chan)[k] = chan[k + 1]
  BY HeadTailProperties, EmptySeq DEF TypeOK
<1>2. 1 \in 1 .. Len(chan) /\ \A k \in 1 .. Len(Tail(chan)) : k + 1 \in 1 .. Len(chan) /\ k + 1 # 1
  BY <1>1
<1>. QED
  BY <1>1, <1>2, ElementOfSeq DEF ChanOK

\* The channel is not concerned when an item moves that is neither queued nor held.
LEMMA ChanKept ==
    ASSUME TypeOK, ChanOK, NEW i \in Items, stage[i] \notin {"queued", "held"},
           NEW s, Moves(i, s), UNCHANGED <<chan, held>>
    PROVE  ChanOK'
<1>1. \A k \in 1 .. Len(chan) : chan[k] \in Items
  BY ElementOfSeq DEF TypeOK
<1>. QED
  BY <1>1 DEF TypeOK, ChanOK, Moves

\* A file on the list of recovery is taken from it.
LEMMA ScannedEffect ==
    ASSUME TypeOK, NEW f \in Files, Scanned(f)
    PROVE  f \in scan /\ scan \subseteq Files /\ scan' = scan \ {f} /\ scan' # {"due"}
BY UploadQueueAssumption DEF TypeOK, Scanned

\* Recovery takes a file from its list when it queues it.
LEMMA ScanStep == ASSUME Inv, Next PROVE ScanOK'
<1>. USE DEF disk, callers, task, counters, loop, process
<1>1. CASE Trip \/ CoolDown \/ SeesSignal \/ Exit \/ Drain
  BY <1>1, ItemFacts DEF Inv, TypeOK, ScanOK, ChanOK, Trip, CoolDown, SeesSignal, Exit, Drain
<1>2. CASE Receive
  BY <1>2, ItemFacts, HeadQueued DEF Inv, TypeOK, ScanOK, ChanOK, Receive, Moves
<1>3. CASE Spawn
  BY <1>3, ItemFacts DEF Inv, TypeOK, ScanOK, ChanOK, Spawn, Moves
<1>4. CASE Abort
  BY <1>4, ItemFacts DEF Inv, TypeOK, ScanOK, ChanOK, Abort
<1>5. CASE Scan
  BY <1>5, ItemFacts DEF Inv, TypeOK, ScanOK, ChanOK, Scan
<1>6. CASE CleanupOrphans
  BY <1>6, UploadQueueAssumption DEF ScanOK, CleanupOrphans
<1>7. CASE Dies \/ LosesPower
  BY <1>7, RestartEffect, ItemFacts DEF Inv, TypeOK, ScanOK, ChanOK, Restarted
<1>8. ASSUME NEW f \in Files, Enqueue(f) PROVE ScanOK'
  BY <1>8, ItemFacts DEF Inv, TypeOK, ScanOK, ChanOK, Enqueue, Moves
<1>9. ASSUME NEW f \in Files, Count(f) PROVE ScanOK'
  BY <1>9, ItemFacts DEF Inv, TypeOK, ScanOK, ChanOK, Count, Moves
<1>10. ASSUME NEW f \in Files, Accept(f) PROVE ScanOK'
  BY <1>10, ItemFacts DEF Inv, TypeOK, ScanOK, ChanOK, Accept, Moves
<1>11. ASSUME NEW f \in Files, Reject(f) PROVE ScanOK'
  BY <1>11, ItemFacts DEF Inv, TypeOK, ScanOK, ChanOK, Reject, Moves, RemoveTemp, RemoveSide,
     Unmark
<1>12. ASSUME NEW f \in Files, InlineEnds(f) PROVE ScanOK'
  BY <1>12, ItemFacts DEF Inv, TypeOK, ScanOK, ChanOK, InlineEnds, Stores
<1>13. ASSUME NEW f \in Files, Discard(f) PROVE ScanOK'
  BY <1>13, ItemFacts, ScannedEffect DEF Inv, TypeOK, ScanOK, ChanOK, Discard, Unrecoverable,
     RemoveTemp, RemoveSide
<1>14. ASSUME NEW f \in Files, Recover(f) PROVE ScanOK'
  <2>1. Moves(Again(f), "queued") /\ f \notin scan' /\ scan' \subseteq scan /\ scan' # {"due"}
    BY <1>14, ScannedEffect DEF Inv, Recover
  <2>. QED
    BY <2>1, ItemFacts DEF Inv, TypeOK, ScanOK, Moves
<1>15. ASSUME NEW f \in Files, LeaveForLater(f) PROVE ScanOK'
  BY <1>15, ItemFacts, ScannedEffect DEF Inv, TypeOK, ScanOK, ChanOK, LeaveForLater
<1>16. ASSUME NEW i \in Items, Attempt(i) PROVE ScanOK'
  <2>1. stage[i] = "trying" /\ \E s \in {"trying", "parked", "won", "lost"} : Attempted(i, s)
    BY <1>16, AttemptEffect DEF Inv
  <2>. QED
    BY <2>1, ItemFacts DEF Inv, TypeOK, ScanOK, ChanOK, Attempted, Stores
<1>17. ASSUME NEW i \in Items, Reacquire(i) PROVE ScanOK'
  BY <1>17, ItemFacts DEF Inv, TypeOK, ScanOK, ChanOK, Reacquire, Moves
<1>18. ASSUME NEW i \in Items, RemoveFiles(i) PROVE ScanOK'
  BY <1>18, ItemFacts DEF Inv, TypeOK, ScanOK, ChanOK, RemoveFiles, Moves, RemoveTemp
<1>19. ASSUME NEW i \in Items, Settle(i) PROVE ScanOK'
  BY <1>19, ItemFacts DEF Inv, TypeOK, ScanOK, ChanOK, Settle, Moves, RemoveSide, Unmark
<1>20. ASSUME NEW i \in Items, ParkEnds(i) PROVE ScanOK'
  BY <1>20, ItemFacts DEF Inv, TypeOK, ScanOK, ChanOK, ParkEnds, GiveUp, Failed, Moves
<1>21. ASSUME NEW i \in Items, ParkWakes(i) PROVE ScanOK'
  BY <1>21, ItemFacts DEF Inv, TypeOK, ScanOK, ChanOK, ParkWakes, Moves
<1>22. ASSUME NEW i \in Items, Ages(i) PROVE ScanOK'
  BY <1>22, ItemFacts DEF Inv, TypeOK, ScanOK, ChanOK, Ages
<1>. QED
    BY <1>1, <1>2, <1>3, <1>4, <1>5, <1>6, <1>7, <1>8, <1>9, <1>10, <1>11, <1>12, <1>13, <1>14,
     <1>15, <1>16, <1>17, <1>18, <1>19, <1>20, <1>21, <1>22 DEF Next, Dispatch, CallerSteps,
     ItemSteps

\* A file is torn only while no process works on it.
LEMMA DiskStep == ASSUME Inv, Next PROVE DiskOK'
<1>. USE DEF disk, callers, task, counters, loop, process
<1>1. CASE Trip \/ CoolDown \/ SeesSignal \/ Exit \/ Drain
  BY <1>1, ItemFacts DEF Inv, TypeOK, ScanOK, ChanOK, DiskOK, Trip, CoolDown, SeesSignal, Exit,
     Drain
<1>2. CASE Receive
  BY <1>2, ItemFacts, HeadQueued DEF Inv, TypeOK, ScanOK, ChanOK, DiskOK, Receive, Moves
<1>3. CASE Spawn
  BY <1>3, ItemFacts DEF Inv, TypeOK, ScanOK, ChanOK, DiskOK, Spawn, Moves
<1>4. CASE Abort
  BY <1>4, ItemFacts DEF Inv, TypeOK, ScanOK, ChanOK, DiskOK, Abort
<1>5. CASE Scan
  BY <1>5, ItemFacts DEF Inv, TypeOK, ScanOK, ChanOK, DiskOK, Scan
<1>6. CASE CleanupOrphans
  BY <1>6, ItemFacts DEF Inv, TypeOK, ScanOK, ChanOK, DiskOK, CleanupOrphans
<1>7. CASE Dies \/ LosesPower
  BY <1>7, RestartEffect, ItemFacts DEF Inv, TypeOK, ScanOK, ChanOK, DiskOK, Restarted
<1>8. ASSUME NEW f \in Files, Enqueue(f) PROVE DiskOK'
  BY <1>8, ItemFacts DEF Inv, TypeOK, ScanOK, ChanOK, DiskOK, Enqueue, Moves
<1>9. ASSUME NEW f \in Files, Count(f) PROVE DiskOK'
  BY <1>9, ItemFacts DEF Inv, TypeOK, ScanOK, ChanOK, DiskOK, Count, Moves
<1>10. ASSUME NEW f \in Files, Accept(f) PROVE DiskOK'
  BY <1>10, ItemFacts DEF Inv, TypeOK, ScanOK, ChanOK, DiskOK, Accept, Moves
<1>11. ASSUME NEW f \in Files, Reject(f) PROVE DiskOK'
  BY <1>11, ItemFacts DEF Inv, TypeOK, ScanOK, ChanOK, DiskOK, Reject, Moves, RemoveTemp,
     RemoveSide, Unmark
<1>12. ASSUME NEW f \in Files, InlineEnds(f) PROVE DiskOK'
  BY <1>12, ItemFacts DEF Inv, TypeOK, ScanOK, ChanOK, DiskOK, InlineEnds, Stores
<1>13. ASSUME NEW f \in Files, Discard(f) PROVE DiskOK'
  BY <1>13, ItemFacts, ScannedEffect DEF Inv, TypeOK, ScanOK, ChanOK, DiskOK, Discard,
     Unrecoverable, RemoveTemp, RemoveSide
<1>14. ASSUME NEW f \in Files, Recover(f) PROVE DiskOK'
  BY <1>14, ItemFacts, ScannedEffect DEF Inv, TypeOK, ScanOK, ChanOK, DiskOK, Recover,
     Unrecoverable, Moves
<1>15. ASSUME NEW f \in Files, LeaveForLater(f) PROVE DiskOK'
  BY <1>15, ItemFacts, ScannedEffect DEF Inv, TypeOK, ScanOK, ChanOK, DiskOK, LeaveForLater
<1>16. ASSUME NEW i \in Items, Attempt(i) PROVE DiskOK'
  <2>1. stage[i] = "trying" /\ \E s \in {"trying", "parked", "won", "lost"} : Attempted(i, s)
    BY <1>16, AttemptEffect DEF Inv
  <2>. QED
    BY <2>1, ItemFacts DEF Inv, TypeOK, ScanOK, ChanOK, DiskOK, Attempted, Stores
<1>17. ASSUME NEW i \in Items, Reacquire(i) PROVE DiskOK'
  BY <1>17, ItemFacts DEF Inv, TypeOK, ScanOK, ChanOK, DiskOK, Reacquire, Moves
<1>18. ASSUME NEW i \in Items, RemoveFiles(i) PROVE DiskOK'
  BY <1>18, ItemFacts DEF Inv, TypeOK, ScanOK, ChanOK, DiskOK, RemoveFiles, Moves, RemoveTemp
<1>19. ASSUME NEW i \in Items, Settle(i) PROVE DiskOK'
  BY <1>19, ItemFacts DEF Inv, TypeOK, ScanOK, ChanOK, DiskOK, Settle, Moves, RemoveSide, Unmark
<1>20. ASSUME NEW i \in Items, ParkEnds(i) PROVE DiskOK'
  BY <1>20, ItemFacts DEF Inv, TypeOK, ScanOK, ChanOK, DiskOK, ParkEnds, GiveUp, Failed, Moves
<1>21. ASSUME NEW i \in Items, ParkWakes(i) PROVE DiskOK'
  BY <1>21, ItemFacts DEF Inv, TypeOK, ScanOK, ChanOK, DiskOK, ParkWakes, Moves
<1>22. ASSUME NEW i \in Items, Ages(i) PROVE DiskOK'
  BY <1>22, ItemFacts DEF Inv, TypeOK, ScanOK, ChanOK, DiskOK, Ages
<1>. QED
    BY <1>1, <1>2, <1>3, <1>4, <1>5, <1>6, <1>7, <1>8, <1>9, <1>10, <1>11, <1>12, <1>13, <1>14,
     <1>15, <1>16, <1>17, <1>18, <1>19, <1>20, <1>21, <1>22 DEF Next, Dispatch, CallerSteps,
     ItemSteps

\* An item ends stored, or gives up what was owed.
LEMMA OweStep == ASSUME Inv, Next PROVE OweOK'
<1>. USE DEF disk, callers, task, counters, loop, process
<1>1. CASE Trip \/ CoolDown \/ SeesSignal \/ Exit \/ Drain
  BY <1>1, ItemFacts DEF Inv, Safe, TypeOK, ScanOK, ChanOK, DiskOK, OweOK, Trip, CoolDown,
     SeesSignal, Exit, Drain
<1>2. CASE Receive
  BY <1>2, ItemFacts, HeadQueued DEF Inv, Safe, TypeOK, ScanOK, ChanOK, DiskOK, OweOK, Receive,
     Moves
<1>3. CASE Spawn
  BY <1>3, ItemFacts DEF Inv, Safe, TypeOK, ScanOK, ChanOK, DiskOK, OweOK, Spawn, Moves
<1>4. CASE Abort
  BY <1>4, ItemFacts DEF Inv, Safe, TypeOK, ScanOK, ChanOK, DiskOK, OweOK, Abort
<1>5. CASE Scan
  BY <1>5, ItemFacts DEF Inv, Safe, TypeOK, ScanOK, ChanOK, DiskOK, OweOK, Scan
<1>6. CASE CleanupOrphans
  BY <1>6, ItemFacts DEF Inv, Safe, TypeOK, ScanOK, ChanOK, DiskOK, OweOK, CleanupOrphans
<1>7. CASE Dies \/ LosesPower
  <2>1. Restarted
    BY <1>7, RestartEffect DEF Inv
  <2>2. \A i \in Items : stage'[i] \in {"none", "end"}
    BY <2>1 DEF Restarted
  <2>3. owed' \subseteq owed
    BY <2>1 DEF Restarted
  <2>. QED
    BY <2>2, <2>3 DEF Inv, OweOK
<1>8. ASSUME NEW f \in Files, Enqueue(f) PROVE OweOK'
  BY <1>8, ItemFacts DEF Inv, Safe, TypeOK, ScanOK, ChanOK, DiskOK, OweOK, Enqueue, Moves
<1>9. ASSUME NEW f \in Files, Count(f) PROVE OweOK'
  BY <1>9, ItemFacts DEF Inv, Safe, TypeOK, ScanOK, ChanOK, DiskOK, OweOK, Count, Moves
<1>10. ASSUME NEW f \in Files, Accept(f) PROVE OweOK'
  BY <1>10, ItemFacts DEF Inv, Safe, TypeOK, ScanOK, ChanOK, DiskOK, OweOK, Accept, Moves
<1>11. ASSUME NEW f \in Files, Reject(f) PROVE OweOK'
  BY <1>11, ItemFacts DEF Inv, Safe, TypeOK, ScanOK, ChanOK, DiskOK, OweOK, Reject, Moves,
     RemoveTemp, RemoveSide, Unmark
<1>12. ASSUME NEW f \in Files, InlineEnds(f) PROVE OweOK'
  BY <1>12, ItemFacts DEF Inv, Safe, TypeOK, ScanOK, ChanOK, DiskOK, OweOK, InlineEnds, Stores
<1>13. ASSUME NEW f \in Files, Discard(f) PROVE OweOK'
  BY <1>13, ItemFacts, ScannedEffect DEF Inv, Safe, TypeOK, ScanOK, ChanOK, DiskOK, OweOK,
     Discard, Unrecoverable, RemoveTemp, RemoveSide
<1>14. ASSUME NEW f \in Files, Recover(f) PROVE OweOK'
  BY <1>14, ItemFacts, ScannedEffect DEF Inv, Safe, TypeOK, ScanOK, ChanOK, DiskOK, OweOK,
     Recover, Unrecoverable, Moves
<1>15. ASSUME NEW f \in Files, LeaveForLater(f) PROVE OweOK'
  BY <1>15, ItemFacts, ScannedEffect DEF Inv, Safe, TypeOK, ScanOK, ChanOK, DiskOK, OweOK,
     LeaveForLater
<1>16. ASSUME NEW i \in Items, Attempt(i) PROVE OweOK'
  <2>1. stage[i] = "trying" /\ \E s \in {"trying", "parked", "won", "lost"} : Attempted(i, s)
    BY <1>16, AttemptEffect DEF Inv
  <2>2. owed' \subseteq owed /\ owed \cap Plain = {} /\ File(i) \in Files
    BY <2>1, ItemFacts DEF Inv, OweOK, Attempted
  <2>3. \A f \in Files : stored[f] # "none" => stored'[f] # "none"
    BY <2>1, <2>2 DEF Inv, TypeOK, Attempted, Stores
  <2>4. stage'[i] \in {"won", "lost", "swept"} => File(i) \notin owed' \/ stored'[File(i)] # "none"
    BY <2>1, <2>2 DEF Inv, TypeOK, Attempted, Stores
  <2>5. \A j \in Items \ {i} : stage'[j] = stage[j]
    BY <2>1 DEF Inv, TypeOK, Attempted
  <2>. QED
    BY <2>2, <2>3, <2>4, <2>5, ItemFacts DEF Inv, OweOK
<1>17. ASSUME NEW i \in Items, Reacquire(i) PROVE OweOK'
  BY <1>17, ItemFacts DEF Inv, Safe, TypeOK, ScanOK, ChanOK, DiskOK, OweOK, Reacquire, Moves
<1>18. ASSUME NEW i \in Items, RemoveFiles(i) PROVE OweOK'
  BY <1>18, ItemFacts DEF Inv, Safe, TypeOK, ScanOK, ChanOK, DiskOK, OweOK, RemoveFiles, Moves,
     RemoveTemp
<1>19. ASSUME NEW i \in Items, Settle(i) PROVE OweOK'
  BY <1>19, ItemFacts DEF Inv, Safe, TypeOK, ScanOK, ChanOK, DiskOK, OweOK, Settle, Moves,
     RemoveSide, Unmark
<1>20. ASSUME NEW i \in Items, ParkEnds(i) PROVE OweOK'
  BY <1>20, ItemFacts DEF Inv, Safe, TypeOK, ScanOK, ChanOK, DiskOK, OweOK, ParkEnds, GiveUp,
     Failed, Moves
<1>21. ASSUME NEW i \in Items, ParkWakes(i) PROVE OweOK'
  BY <1>21, ItemFacts DEF Inv, Safe, TypeOK, ScanOK, ChanOK, DiskOK, OweOK, ParkWakes, Moves
<1>22. ASSUME NEW i \in Items, Ages(i) PROVE OweOK'
  BY <1>22, ItemFacts DEF Inv, Safe, TypeOK, ScanOK, ChanOK, DiskOK, OweOK, Ages
<1>. QED
    BY <1>1, <1>2, <1>3, <1>4, <1>5, <1>6, <1>7, <1>8, <1>9, <1>10, <1>11, <1>12, <1>13, <1>14,
     <1>15, <1>16, <1>17, <1>18, <1>19, <1>20, <1>21, <1>22 DEF Next, Dispatch, CallerSteps,
     ItemSteps

\* An upload that is owed is stored or on disk after every step.
LEMMA DurableStep == ASSUME Inv, Next PROVE DurableSurvives'
<1>. USE DEF disk, callers, task, counters, loop, process
<1>1. CASE Trip \/ CoolDown \/ SeesSignal \/ Exit \/ Drain
  BY <1>1, ItemFacts DEF Inv, Safe, TypeOK, ScanOK, ChanOK, DiskOK, OweOK, DurableSurvives,
     Trip, CoolDown, SeesSignal, Exit, Drain
<1>2. CASE Receive
  BY <1>2, ItemFacts, HeadQueued DEF Inv, Safe, TypeOK, ScanOK, ChanOK, DiskOK, OweOK,
     DurableSurvives, Receive, Moves
<1>3. CASE Spawn
  BY <1>3, ItemFacts DEF Inv, Safe, TypeOK, ScanOK, ChanOK, DiskOK, OweOK, DurableSurvives,
     Spawn, Moves
<1>4. CASE Abort
  BY <1>4, ItemFacts DEF Inv, Safe, TypeOK, ScanOK, ChanOK, DiskOK, OweOK, DurableSurvives, Abort
<1>5. CASE Scan
  BY <1>5, ItemFacts DEF Inv, Safe, TypeOK, ScanOK, ChanOK, DiskOK, OweOK, DurableSurvives, Scan
<1>6. CASE CleanupOrphans
  BY <1>6, ItemFacts DEF Inv, Safe, TypeOK, ScanOK, ChanOK, DiskOK, OweOK, DurableSurvives,
     CleanupOrphans
<1>7. CASE Dies \/ LosesPower
  <2>1. Restarted
    BY <1>7, RestartEffect DEF Inv
  <2>. QED
    BY <2>1, ItemFacts DEF Inv, Safe, TypeOK, DurableSurvives, Restarted
<1>8. ASSUME NEW f \in Files, Enqueue(f) PROVE DurableSurvives'
  <2>1. CASE UNCHANGED <<temp, side, owed>>
    BY <1>8, <2>1 DEF Inv, Safe, DurableSurvives, Enqueue
  <2>2. CASE /\ temp' = [temp EXCEPT ![f] = "whole"] /\ side' = [side EXCEPT ![f] = f \notin Plain]
             /\ owed' = owed \cup ({f} \ Plain)
    <3>1. ASSUME NEW g \in owed' PROVE stored[g] # "none" \/ (temp'[g] = "whole" /\ side'[g])
      BY <2>2, <3>1 DEF Inv, Safe, TypeOK, OweOK, DurableSurvives
    <3>. QED
      BY <1>8, <3>1 DEF DurableSurvives, Enqueue
  <2>. QED
    BY <1>8, <2>1, <2>2 DEF Enqueue
<1>9. ASSUME NEW f \in Files, Count(f) PROVE DurableSurvives'
  BY <1>9, ItemFacts DEF Inv, Safe, TypeOK, ScanOK, ChanOK, DiskOK, OweOK, DurableSurvives,
     Count, Moves
<1>10. ASSUME NEW f \in Files, Accept(f) PROVE DurableSurvives'
  BY <1>10, ItemFacts DEF Inv, Safe, TypeOK, ScanOK, ChanOK, DiskOK, OweOK, DurableSurvives,
     Accept, Moves
<1>11. ASSUME NEW f \in Files, Reject(f) PROVE DurableSurvives'
  BY <1>11, ItemFacts DEF Inv, Safe, TypeOK, ScanOK, ChanOK, DiskOK, OweOK, DurableSurvives,
     Reject, Moves, RemoveTemp, RemoveSide, Unmark
<1>12. ASSUME NEW f \in Files, InlineEnds(f) PROVE DurableSurvives'
  BY <1>12, ItemFacts DEF Inv, Safe, TypeOK, ScanOK, ChanOK, DiskOK, OweOK, DurableSurvives,
     InlineEnds, Stores
<1>13. ASSUME NEW f \in Files, Discard(f) PROVE DurableSurvives'
  BY <1>13, ItemFacts, ScannedEffect DEF Inv, Safe, TypeOK, ScanOK, ChanOK, DiskOK, OweOK,
     DurableSurvives, Discard, Unrecoverable, RemoveTemp, RemoveSide
<1>14. ASSUME NEW f \in Files, Recover(f) PROVE DurableSurvives'
  BY <1>14, ItemFacts, ScannedEffect DEF Inv, Safe, TypeOK, ScanOK, ChanOK, DiskOK, OweOK,
     DurableSurvives, Recover, Unrecoverable, Moves
<1>15. ASSUME NEW f \in Files, LeaveForLater(f) PROVE DurableSurvives'
  BY <1>15, ItemFacts, ScannedEffect DEF Inv, Safe, TypeOK, ScanOK, ChanOK, DiskOK, OweOK,
     DurableSurvives, LeaveForLater
<1>16. ASSUME NEW i \in Items, Attempt(i) PROVE DurableSurvives'
  <2>1. stage[i] = "trying" /\ \E s \in {"trying", "parked", "won", "lost"} : Attempted(i, s)
    BY <1>16, AttemptEffect DEF Inv
  <2>. QED
    BY <2>1, ItemFacts DEF Inv, Safe, TypeOK, ScanOK, ChanOK, DiskOK, OweOK, DurableSurvives,
       Attempted, Stores
<1>17. ASSUME NEW i \in Items, Reacquire(i) PROVE DurableSurvives'
  BY <1>17, ItemFacts DEF Inv, Safe, TypeOK, ScanOK, ChanOK, DiskOK, OweOK, DurableSurvives,
     Reacquire, Moves
<1>18. ASSUME NEW i \in Items, RemoveFiles(i) PROVE DurableSurvives'
  BY <1>18, ItemFacts DEF Inv, Safe, TypeOK, ScanOK, ChanOK, DiskOK, OweOK, DurableSurvives,
     RemoveFiles, Moves, RemoveTemp
<1>19. ASSUME NEW i \in Items, Settle(i) PROVE DurableSurvives'
  BY <1>19, ItemFacts DEF Inv, Safe, TypeOK, ScanOK, ChanOK, DiskOK, OweOK, DurableSurvives,
     Settle, Moves, RemoveSide, Unmark
<1>20. ASSUME NEW i \in Items, ParkEnds(i) PROVE DurableSurvives'
  BY <1>20, ItemFacts DEF Inv, Safe, TypeOK, ScanOK, ChanOK, DiskOK, OweOK, DurableSurvives,
     ParkEnds, GiveUp, Failed, Moves
<1>21. ASSUME NEW i \in Items, ParkWakes(i) PROVE DurableSurvives'
  BY <1>21, ItemFacts DEF Inv, Safe, TypeOK, ScanOK, ChanOK, DiskOK, OweOK, DurableSurvives,
     ParkWakes, Moves
<1>22. ASSUME NEW i \in Items, Ages(i) PROVE DurableSurvives'
  BY <1>22, ItemFacts DEF Inv, Safe, TypeOK, ScanOK, ChanOK, DiskOK, OweOK, DurableSurvives, Ages
<1>. QED
    BY <1>1, <1>2, <1>3, <1>4, <1>5, <1>6, <1>7, <1>8, <1>9, <1>10, <1>11, <1>12, <1>13, <1>14,
     <1>15, <1>16, <1>17, <1>18, <1>19, <1>20, <1>21, <1>22 DEF Next, Dispatch, CallerSteps,
     ItemSteps

\* Only a file that is not torn is uploaded.
LEMMA TornStep == ASSUME Inv, Next PROVE NothingTornStored'
<1>. USE DEF disk, callers, task, counters, loop, process
<1>1. CASE Trip \/ CoolDown \/ SeesSignal \/ Exit \/ Drain
  BY <1>1, ItemFacts DEF Inv, Safe, TypeOK, DiskOK, NothingTornStored, Trip, CoolDown,
     SeesSignal, Exit, Drain
<1>2. CASE Receive
  BY <1>2, ItemFacts, HeadQueued DEF Inv, Safe, TypeOK, DiskOK, NothingTornStored, Receive, Moves
<1>3. CASE Spawn
  BY <1>3, ItemFacts DEF Inv, Safe, TypeOK, DiskOK, NothingTornStored, Spawn, Moves
<1>4. CASE Abort
  BY <1>4, ItemFacts DEF Inv, Safe, TypeOK, DiskOK, NothingTornStored, Abort
<1>5. CASE Scan
  BY <1>5, ItemFacts DEF Inv, Safe, TypeOK, DiskOK, NothingTornStored, Scan
<1>6. CASE CleanupOrphans
  BY <1>6, ItemFacts DEF Inv, Safe, TypeOK, DiskOK, NothingTornStored, CleanupOrphans
<1>7. CASE Dies \/ LosesPower
  <2>1. Restarted
    BY <1>7, RestartEffect DEF Inv
  <2>. QED
    BY <2>1, ItemFacts DEF Inv, Safe, TypeOK, NothingTornStored, Restarted
<1>8. ASSUME NEW f \in Files, Enqueue(f) PROVE NothingTornStored'
  BY <1>8, ItemFacts DEF Inv, Safe, TypeOK, DiskOK, NothingTornStored, Enqueue, Moves
<1>9. ASSUME NEW f \in Files, Count(f) PROVE NothingTornStored'
  BY <1>9, ItemFacts DEF Inv, Safe, TypeOK, DiskOK, NothingTornStored, Count, Moves
<1>10. ASSUME NEW f \in Files, Accept(f) PROVE NothingTornStored'
  BY <1>10, ItemFacts DEF Inv, Safe, TypeOK, DiskOK, NothingTornStored, Accept, Moves
<1>11. ASSUME NEW f \in Files, Reject(f) PROVE NothingTornStored'
  BY <1>11, ItemFacts DEF Inv, Safe, TypeOK, DiskOK, NothingTornStored, Reject, Moves,
     RemoveTemp, RemoveSide, Unmark
<1>12. ASSUME NEW f \in Files, InlineEnds(f) PROVE NothingTornStored'
  BY <1>12, ItemFacts DEF Inv, Safe, TypeOK, DiskOK, NothingTornStored, InlineEnds, Stores
<1>13. ASSUME NEW f \in Files, Discard(f) PROVE NothingTornStored'
  BY <1>13, ItemFacts, ScannedEffect DEF Inv, Safe, TypeOK, DiskOK, NothingTornStored, Discard,
     Unrecoverable, RemoveTemp, RemoveSide
<1>14. ASSUME NEW f \in Files, Recover(f) PROVE NothingTornStored'
  BY <1>14, ItemFacts, ScannedEffect DEF Inv, Safe, TypeOK, DiskOK, NothingTornStored, Recover,
     Unrecoverable, Moves
<1>15. ASSUME NEW f \in Files, LeaveForLater(f) PROVE NothingTornStored'
  BY <1>15, ItemFacts, ScannedEffect DEF Inv, Safe, TypeOK, DiskOK, NothingTornStored,
     LeaveForLater
<1>16. ASSUME NEW i \in Items, Attempt(i) PROVE NothingTornStored'
  <2>1. stage[i] = "trying" /\ \E s \in {"trying", "parked", "won", "lost"} : Attempted(i, s)
    BY <1>16, AttemptEffect DEF Inv
  <2>2. File(i) \in Files /\ temp[File(i)] # "torn"
    BY <2>1, ItemFacts DEF Inv, DiskOK
  <2>3. stored' = stored \/ stored' = [stored EXCEPT ![File(i)] = temp[File(i)]]
    BY <2>1 DEF Attempted, Stores
  <2>. QED
    BY <2>2, <2>3 DEF Inv, Safe, TypeOK, NothingTornStored
<1>17. ASSUME NEW i \in Items, Reacquire(i) PROVE NothingTornStored'
  BY <1>17, ItemFacts DEF Inv, Safe, TypeOK, DiskOK, NothingTornStored, Reacquire, Moves
<1>18. ASSUME NEW i \in Items, RemoveFiles(i) PROVE NothingTornStored'
  BY <1>18, ItemFacts DEF Inv, Safe, TypeOK, DiskOK, NothingTornStored, RemoveFiles, Moves,
     RemoveTemp
<1>19. ASSUME NEW i \in Items, Settle(i) PROVE NothingTornStored'
  BY <1>19, ItemFacts DEF Inv, Safe, TypeOK, DiskOK, NothingTornStored, Settle, Moves,
     RemoveSide, Unmark
<1>20. ASSUME NEW i \in Items, ParkEnds(i) PROVE NothingTornStored'
  BY <1>20, ItemFacts DEF Inv, Safe, TypeOK, DiskOK, NothingTornStored, ParkEnds, GiveUp,
     Failed, Moves
<1>21. ASSUME NEW i \in Items, ParkWakes(i) PROVE NothingTornStored'
  BY <1>21, ItemFacts DEF Inv, Safe, TypeOK, DiskOK, NothingTornStored, ParkWakes, Moves
<1>22. ASSUME NEW i \in Items, Ages(i) PROVE NothingTornStored'
  BY <1>22, ItemFacts DEF Inv, Safe, TypeOK, DiskOK, NothingTornStored, Ages
<1>. QED
    BY <1>1, <1>2, <1>3, <1>4, <1>5, <1>6, <1>7, <1>8, <1>9, <1>10, <1>11, <1>12, <1>13, <1>14,
     <1>15, <1>16, <1>17, <1>18, <1>19, <1>20, <1>21, <1>22 DEF Next, Dispatch, CallerSteps,
     ItemSteps

\* A path that ends an upload takes its mark away.
LEMMA MarksStep == ASSUME Inv, Next PROVE MarksHeld'
<1>. USE DEF disk, callers, task, counters, loop, process
<1>1. CASE Trip \/ CoolDown \/ SeesSignal \/ Exit \/ Drain
  BY <1>1, ItemFacts DEF Inv, Safe, TypeOK, ChanOK, DiskOK, MarksHeld, Trip, CoolDown,
     SeesSignal, Exit, Drain
<1>2. CASE Receive
  BY <1>2, ItemFacts, HeadQueued DEF Inv, Safe, TypeOK, ChanOK, DiskOK, MarksHeld, Receive, Moves
<1>3. CASE Spawn
  BY <1>3, ItemFacts DEF Inv, Safe, TypeOK, ChanOK, DiskOK, MarksHeld, Spawn, Moves
<1>4. CASE Abort
  BY SMTT(30), <1>4, ItemFacts DEF Inv, Safe, TypeOK, ChanOK, DiskOK, MarksHeld, Abort
<1>5. CASE Scan
  BY <1>5, ItemFacts DEF Inv, Safe, TypeOK, ChanOK, DiskOK, MarksHeld, Scan
<1>6. CASE CleanupOrphans
  BY <1>6, ItemFacts DEF Inv, Safe, TypeOK, ChanOK, DiskOK, MarksHeld, CleanupOrphans
<1>7. CASE Dies \/ LosesPower
  <2>1. Restarted
    BY <1>7, RestartEffect DEF Inv
  <2>. QED
    BY <2>1, ItemFacts DEF MarksHeld, Restarted, Fresh
<1>8. ASSUME NEW f \in Files, Enqueue(f) PROVE MarksHeld'
  <2>1. ASSUME NEW d \in marked'
        PROVE  \E g \in Files : Dest[g] = d /\ stage'[Live(g)] \notin {"none", "cut", "end"}
    <3>1. CASE d \in marked
      <4>1. PICK g \in Files : Dest[g] = d /\ stage[Live(g)] \notin {"none", "cut", "end"}
        BY <3>1 DEF Inv, Safe, MarksHeld
      <4>2. stage'[Live(g)] = stage[Live(g)]
        BY <1>8, <4>1, ItemFacts DEF Inv, TypeOK, Enqueue, Moves
      <4>. QED
        BY <4>1, <4>2
    <3>2. CASE d \notin marked
      <4>1. Moves(Live(f), "written") /\ d = Dest[f]
        BY <1>8, <2>1, <3>2 DEF Enqueue
      <4>. QED
        BY <4>1, ItemFacts DEF Inv, TypeOK, Moves
    <3>. QED
      BY <3>1, <3>2
  <2>. QED
    BY <2>1 DEF MarksHeld
<1>9. ASSUME NEW f \in Files, Count(f) PROVE MarksHeld'
  BY <1>9, ItemFacts DEF Inv, Safe, TypeOK, ChanOK, DiskOK, MarksHeld, Count, Moves
<1>10. ASSUME NEW f \in Files, Accept(f) PROVE MarksHeld'
  BY <1>10, ItemFacts DEF Inv, Safe, TypeOK, ChanOK, DiskOK, MarksHeld, Accept, Moves
<1>11. ASSUME NEW f \in Files, Reject(f) PROVE MarksHeld'
  BY <1>11, ItemFacts DEF Inv, Safe, TypeOK, ChanOK, DiskOK, MarksHeld, Reject, Moves,
     RemoveTemp, RemoveSide, Unmark
<1>12. ASSUME NEW f \in Files, InlineEnds(f) PROVE MarksHeld'
  BY <1>12, ItemFacts DEF Inv, Safe, TypeOK, ChanOK, DiskOK, MarksHeld, InlineEnds, Stores
<1>13. ASSUME NEW f \in Files, Discard(f) PROVE MarksHeld'
  BY <1>13, ItemFacts, ScannedEffect DEF Inv, Safe, TypeOK, ChanOK, DiskOK, MarksHeld, Discard,
     Unrecoverable, RemoveTemp, RemoveSide
<1>14. ASSUME NEW f \in Files, Recover(f) PROVE MarksHeld'
  BY <1>14, ItemFacts, ScannedEffect DEF Inv, Safe, TypeOK, ChanOK, DiskOK, MarksHeld, Recover,
     Unrecoverable, Moves
<1>15. ASSUME NEW f \in Files, LeaveForLater(f) PROVE MarksHeld'
  BY <1>15, ItemFacts, ScannedEffect DEF Inv, Safe, TypeOK, ChanOK, DiskOK, MarksHeld,
     LeaveForLater
<1>16. ASSUME NEW i \in Items, Attempt(i) PROVE MarksHeld'
  <2>1. stage[i] = "trying" /\ \E s \in {"trying", "parked", "won", "lost"} : Attempted(i, s)
    BY <1>16, AttemptEffect DEF Inv
  <2>. QED
    BY <2>1, ItemFacts DEF Inv, Safe, TypeOK, ChanOK, DiskOK, MarksHeld, Attempted, Stores
<1>17. ASSUME NEW i \in Items, Reacquire(i) PROVE MarksHeld'
  BY <1>17, ItemFacts DEF Inv, Safe, TypeOK, ChanOK, DiskOK, MarksHeld, Reacquire, Moves
<1>18. ASSUME NEW i \in Items, RemoveFiles(i) PROVE MarksHeld'
  BY <1>18, ItemFacts DEF Inv, Safe, TypeOK, ChanOK, DiskOK, MarksHeld, RemoveFiles, Moves,
     RemoveTemp
<1>19. ASSUME NEW i \in Items, Settle(i) PROVE MarksHeld'
  <2>1. ASSUME NEW d \in marked'
        PROVE  \E g \in Files : Dest[g] = d /\ stage'[Live(g)] \notin {"none", "cut", "end"}
    <3>1. PICK g \in Files : Dest[g] = d /\ stage[Live(g)] \notin {"none", "cut", "end"}
      BY <1>19, <2>1 DEF Inv, Safe, MarksHeld, Settle, Unmark
    <3>2. i # Live(g)
      BY <1>19, <2>1, <3>1, ItemFacts DEF Settle, Unmark
    <3>. QED
      BY <1>19, <3>1, <3>2, ItemFacts DEF Inv, TypeOK, Settle, Moves
  <2>. QED
    BY <2>1 DEF MarksHeld
<1>20. ASSUME NEW i \in Items, ParkEnds(i) PROVE MarksHeld'
  BY <1>20, ItemFacts DEF Inv, Safe, TypeOK, ChanOK, DiskOK, MarksHeld, ParkEnds, GiveUp,
     Failed, Moves
<1>21. ASSUME NEW i \in Items, ParkWakes(i) PROVE MarksHeld'
  BY <1>21, ItemFacts DEF Inv, Safe, TypeOK, ChanOK, DiskOK, MarksHeld, ParkWakes, Moves
<1>22. ASSUME NEW i \in Items, Ages(i) PROVE MarksHeld'
  BY <1>22, ItemFacts DEF Inv, Safe, TypeOK, ChanOK, DiskOK, MarksHeld, Ages
<1>. QED
    BY <1>1, <1>2, <1>3, <1>4, <1>5, <1>6, <1>7, <1>8, <1>9, <1>10, <1>11, <1>12, <1>13, <1>14,
     <1>15, <1>16, <1>17, <1>18, <1>19, <1>20, <1>21, <1>22 DEF Next, Dispatch, CallerSteps,
     ItemSteps

\* Only what is queued is in the channel, also while recovery appends to it.
LEMMA ChanStep == ASSUME Inv, Next PROVE ChanOK'
<1>. USE DEF disk, callers, task, counters, loop, process
<1>1. CASE Trip \/ CoolDown \/ SeesSignal \/ Exit \/ Drain
  BY <1>1, ItemFacts, ElementOfSeq DEF Inv, TypeOK, ChanOK, Trip, CoolDown, SeesSignal, Exit,
     Drain
<1>2. CASE Receive
  <2>1. chan' = Tail(chan) /\ held' = Head(chan) /\ stage' = [stage EXCEPT ![Head(chan)] = "held"]
    BY <1>2 DEF Receive, Moves
  <2>2. \A k \in 1 .. Len(chan') : /\ k + 1 \in 1 .. Len(chan) /\ chan'[k] = chan[k + 1]
                                   /\ chan[k + 1] \in Items \ {Head(chan)}
    BY <1>2, <2>1, HeadQueued DEF Inv, Receive
  <2>3. Len(chan') \in Nat /\ Head(chan) \in Items
    BY <1>2, <2>1, HeadQueued, LenProperties DEF Inv, Receive
  <2>4. \A k \in 1 .. Len(chan') : stage'[chan'[k]] = "queued"
    BY <2>1, <2>2 DEF Inv, TypeOK, ChanOK
  <2>5. \A j, k \in 1 .. Len(chan') : chan'[j] = chan'[k] => j = k
    <3>1. SUFFICES ASSUME NEW j \in 1 .. Len(chan'), NEW k \in 1 .. Len(chan'), chan'[j] = chan'[k]
                   PROVE  j = k
      OBVIOUS
    <3>2. j + 1 = k + 1
      BY <2>2, <3>1 DEF Inv, ChanOK
    <3>. QED
      BY <2>3, <3>2
  <2>6. held' # None => stage'[held'] = "held"
    BY <2>1, <2>3 DEF Inv, TypeOK
  <2>. QED
    BY <2>4, <2>5, <2>6 DEF ChanOK
<1>3. CASE Spawn
  BY ZenonT(60), <1>3, ItemFacts, ElementOfSeq DEF Inv, TypeOK, ChanOK, Spawn, Moves
<1>4. CASE Abort
  BY <1>4, EmptySeq DEF ChanOK, Abort
<1>5. CASE Scan
  BY SMTT(30), <1>5, ItemFacts, ElementOfSeq DEF Inv, TypeOK, ChanOK, Scan
<1>6. CASE CleanupOrphans
  BY <1>6, ItemFacts, ElementOfSeq DEF Inv, TypeOK, ChanOK, CleanupOrphans
<1>7. CASE Dies \/ LosesPower
  <2>1. chan' = <<>> /\ held' = None
    BY <1>7, RestartEffect DEF Inv, Restarted, Fresh
  <2>. QED
    BY <2>1, EmptySeq DEF ChanOK
<1>8. ASSUME NEW f \in Files, Enqueue(f) PROVE ChanOK'
  <2>1. /\ Live(f) \in Items /\ stage[Live(f)] \notin {"queued", "held"} /\ UNCHANGED <<chan, held>>
        /\ \E s : Moves(Live(f), s)
    BY <1>8, ItemFacts DEF Enqueue
  <2>. QED
    BY <2>1, ChanKept DEF Inv
<1>9. ASSUME NEW f \in Files, Count(f) PROVE ChanOK'
  <2>1. /\ Live(f) \in Items /\ stage[Live(f)] \notin {"queued", "held"} /\ UNCHANGED <<chan, held>>
        /\ \E s : Moves(Live(f), s)
    BY <1>9, ItemFacts DEF Count
  <2>. QED
    BY <2>1, ChanKept DEF Inv
<1>10. ASSUME NEW f \in Files, Accept(f) PROVE ChanOK'
  <2>1. Live(f) \in Items /\ stage[Live(f)] = "counted"
    BY <1>10, ItemFacts, ScannedEffect DEF Inv, ScanOK, Accept
  <2>2. /\ Len(chan) \in Nat /\ chan' = Append(chan, Live(f)) /\ Len(chan') = Len(chan) + 1
        /\ chan'[Len(chan) + 1] = Live(f) /\ \A k \in 1 .. Len(chan) : chan'[k] = chan[k]
    BY <1>10, <2>1, AppendProperties, LenProperties DEF Inv, TypeOK, Accept
  <2>3. \A k \in 1 .. Len(chan) : chan[k] \in Items /\ chan[k] # Live(f) /\ stage'[chan[k]] = "queued"
    BY <1>10, <2>1, ElementOfSeq DEF Inv, TypeOK, ChanOK, Moves, Accept
  <2>4. stage'[Live(f)] = "queued" /\ held' = held /\ (held # None => stage'[held] = "held")
    BY <1>10, <2>1 DEF Inv, TypeOK, ChanOK, Moves, Accept
  <2>. QED
    BY <2>2, <2>3, <2>4 DEF Inv, ChanOK
<1>11. ASSUME NEW f \in Files, Reject(f) PROVE ChanOK'
  <2>1. /\ Live(f) \in Items /\ stage[Live(f)] \notin {"queued", "held"} /\ UNCHANGED <<chan, held>>
        /\ \E s : Moves(Live(f), s)
    BY <1>11, ItemFacts DEF Reject
  <2>. QED
    BY <2>1, ChanKept DEF Inv
<1>12. ASSUME NEW f \in Files, InlineEnds(f) PROVE ChanOK'
  BY <1>12, ItemFacts, ElementOfSeq DEF Inv, TypeOK, ChanOK, InlineEnds, Stores
<1>13. ASSUME NEW f \in Files, Discard(f) PROVE ChanOK'
  BY <1>13, ItemFacts, ElementOfSeq, ScannedEffect DEF Inv, TypeOK, ChanOK, Discard,
     Unrecoverable, RemoveTemp, RemoveSide
<1>14. ASSUME NEW f \in Files, Recover(f) PROVE ChanOK'
  <2>1. Again(f) \in Items /\ stage[Again(f)] = "none"
    BY <1>14, ItemFacts, ScannedEffect DEF Inv, ScanOK, Recover
  <2>2. /\ Len(chan) \in Nat /\ chan' = Append(chan, Again(f)) /\ Len(chan') = Len(chan) + 1
        /\ chan'[Len(chan) + 1] = Again(f) /\ \A k \in 1 .. Len(chan) : chan'[k] = chan[k]
    BY <1>14, <2>1, AppendProperties, LenProperties DEF Inv, TypeOK, Recover
  <2>3. \A k \in 1 .. Len(chan) : chan[k] \in Items /\ chan[k] # Again(f) /\ stage'[chan[k]] = "queued"
    BY <1>14, <2>1, ElementOfSeq DEF Inv, TypeOK, ChanOK, Moves, Recover
  <2>4. stage'[Again(f)] = "queued" /\ held' = held /\ (held # None => stage'[held] = "held")
    BY <1>14, <2>1 DEF Inv, TypeOK, ChanOK, Moves, Recover
  <2>. QED
    BY <2>2, <2>3, <2>4 DEF Inv, ChanOK
<1>15. ASSUME NEW f \in Files, LeaveForLater(f) PROVE ChanOK'
  BY <1>15, ItemFacts, ElementOfSeq, ScannedEffect DEF Inv, TypeOK, ChanOK, LeaveForLater
<1>16. ASSUME NEW i \in Items, Attempt(i) PROVE ChanOK'
  <2>1. stage[i] = "trying" /\ \E s \in {"trying", "parked", "won", "lost"} : Attempted(i, s)
    BY <1>16, AttemptEffect DEF Inv
  <2>. QED
    BY <2>1, ChanKept DEF Inv, Attempted, Moves
<1>17. ASSUME NEW i \in Items, Reacquire(i) PROVE ChanOK'
  <2>1. /\ i \in Items /\ stage[i] \notin {"queued", "held"} /\ UNCHANGED <<chan, held>>
        /\ \E s : Moves(i, s)
    BY <1>17, ItemFacts DEF Reacquire
  <2>. QED
    BY <2>1, ChanKept DEF Inv
<1>18. ASSUME NEW i \in Items, RemoveFiles(i) PROVE ChanOK'
  <2>1. /\ i \in Items /\ stage[i] \notin {"queued", "held"} /\ UNCHANGED <<chan, held>>
        /\ \E s : Moves(i, s)
    BY <1>18, ItemFacts DEF RemoveFiles
  <2>. QED
    BY <2>1, ChanKept DEF Inv
<1>19. ASSUME NEW i \in Items, Settle(i) PROVE ChanOK'
  <2>1. /\ i \in Items /\ stage[i] \notin {"queued", "held"} /\ UNCHANGED <<chan, held>>
        /\ \E s : Moves(i, s)
    BY <1>19, ItemFacts DEF Settle
  <2>. QED
    BY <2>1, ChanKept DEF Inv
<1>20. ASSUME NEW i \in Items, ParkEnds(i) PROVE ChanOK'
  <2>1. /\ i \in Items /\ stage[i] \notin {"queued", "held"} /\ UNCHANGED <<chan, held>>
        /\ \E s : Moves(i, s)
    BY <1>20, ItemFacts DEF ParkEnds, GiveUp
  <2>. QED
    BY <2>1, ChanKept DEF Inv
<1>21. ASSUME NEW i \in Items, ParkWakes(i) PROVE ChanOK'
  <2>1. /\ i \in Items /\ stage[i] \notin {"queued", "held"} /\ UNCHANGED <<chan, held>>
        /\ \E s : Moves(i, s)
    BY <1>21, ItemFacts DEF ParkWakes
  <2>. QED
    BY <2>1, ChanKept DEF Inv
<1>22. ASSUME NEW i \in Items, Ages(i) PROVE ChanOK'
  BY <1>22, ItemFacts, ElementOfSeq DEF Inv, TypeOK, ChanOK, Ages
<1>. QED
    BY <1>1, <1>2, <1>3, <1>4, <1>5, <1>6, <1>7, <1>8, <1>9, <1>10, <1>11, <1>12, <1>13, <1>14,
     <1>15, <1>16, <1>17, <1>18, <1>19, <1>20, <1>21, <1>22 DEF Next, Dispatch, CallerSteps,
     ItemSteps

\* An item gives up its byte only after it was handed over.
LEMMA CountedStep == ASSUME Inv, Next PROVE CountedOK'
<1>. USE DEF disk, callers, task, counters, loop, process
<1>1. CASE Trip \/ CoolDown \/ SeesSignal \/ Exit \/ Drain
  BY <1>1, ItemFacts DEF Inv, TypeOK, ChanOK, ScanOK, CountedOK, Trip, CoolDown, SeesSignal,
     Exit, Drain
<1>2. CASE Receive
  BY <1>2, ItemFacts, HeadQueued DEF Inv, TypeOK, ChanOK, ScanOK, CountedOK, Receive, Moves
<1>3. CASE Spawn
  BY <1>3, ItemFacts DEF Inv, TypeOK, ChanOK, ScanOK, CountedOK, Spawn, Moves
<1>4. CASE Abort
  BY <1>4, ItemFacts DEF Inv, TypeOK, ChanOK, ScanOK, CountedOK, Abort
<1>5. CASE Scan
  BY <1>5, ItemFacts DEF Inv, TypeOK, ChanOK, ScanOK, CountedOK, Scan
<1>6. CASE CleanupOrphans
  BY <1>6, ItemFacts DEF Inv, TypeOK, ChanOK, ScanOK, CountedOK, CleanupOrphans
<1>7. CASE Dies \/ LosesPower
  <2>1. stage' \in [Items -> {"none", "end"}]
    BY <1>7, RestartEffect DEF Inv, Restarted
  <2>. QED
    BY <2>1 DEF CountedOK
<1>8. ASSUME NEW f \in Files, Enqueue(f) PROVE CountedOK'
  BY <1>8, ItemFacts DEF Inv, TypeOK, ChanOK, ScanOK, CountedOK, Enqueue, Moves
<1>9. ASSUME NEW f \in Files, Count(f) PROVE CountedOK'
  BY <1>9, ItemFacts DEF Inv, TypeOK, ChanOK, ScanOK, CountedOK, Count, Moves
<1>10. ASSUME NEW f \in Files, Accept(f) PROVE CountedOK'
  BY <1>10, ItemFacts DEF Inv, TypeOK, ChanOK, ScanOK, CountedOK, Accept, Moves
<1>11. ASSUME NEW f \in Files, Reject(f) PROVE CountedOK'
  BY <1>11, ItemFacts DEF Inv, TypeOK, ChanOK, ScanOK, CountedOK, Reject, Moves, RemoveTemp,
     RemoveSide, Unmark
<1>12. ASSUME NEW f \in Files, InlineEnds(f) PROVE CountedOK'
  BY <1>12, ItemFacts DEF Inv, TypeOK, ChanOK, ScanOK, CountedOK, InlineEnds, Stores
<1>13. ASSUME NEW f \in Files, Discard(f) PROVE CountedOK'
  BY <1>13, ItemFacts, ScannedEffect DEF Inv, TypeOK, ChanOK, ScanOK, CountedOK, Discard,
     Unrecoverable, RemoveTemp, RemoveSide
<1>14. ASSUME NEW f \in Files, Recover(f) PROVE CountedOK'
  BY <1>14, ItemFacts, ScannedEffect DEF Inv, TypeOK, ChanOK, ScanOK, CountedOK, Recover,
     Unrecoverable, Moves
<1>15. ASSUME NEW f \in Files, LeaveForLater(f) PROVE CountedOK'
  BY <1>15, ItemFacts, ScannedEffect DEF Inv, TypeOK, ChanOK, ScanOK, CountedOK, LeaveForLater
<1>16. ASSUME NEW i \in Items, Attempt(i) PROVE CountedOK'
  <2>1. stage[i] = "trying" /\ \E s \in {"trying", "parked", "won", "lost"} : Attempted(i, s)
    BY <1>16, AttemptEffect DEF Inv
  <2>. QED
    BY <2>1, ItemFacts DEF Inv, TypeOK, ChanOK, ScanOK, CountedOK, Attempted, Stores
<1>17. ASSUME NEW i \in Items, Reacquire(i) PROVE CountedOK'
  BY <1>17, ItemFacts DEF Inv, TypeOK, ChanOK, ScanOK, CountedOK, Reacquire, Moves
<1>18. ASSUME NEW i \in Items, RemoveFiles(i) PROVE CountedOK'
  BY <1>18, ItemFacts DEF Inv, TypeOK, ChanOK, ScanOK, CountedOK, RemoveFiles, Moves, RemoveTemp
<1>19. ASSUME NEW i \in Items, Settle(i) PROVE CountedOK'
  BY <1>19, ItemFacts DEF Inv, TypeOK, ChanOK, ScanOK, CountedOK, Settle, Moves, RemoveSide,
     Unmark
<1>20. ASSUME NEW i \in Items, ParkEnds(i) PROVE CountedOK'
  BY <1>20, ItemFacts DEF Inv, TypeOK, ChanOK, ScanOK, CountedOK, ParkEnds, GiveUp, Failed, Moves
<1>21. ASSUME NEW i \in Items, ParkWakes(i) PROVE CountedOK'
  BY <1>21, ItemFacts DEF Inv, TypeOK, ChanOK, ScanOK, CountedOK, ParkWakes, Moves
<1>22. ASSUME NEW i \in Items, Ages(i) PROVE CountedOK'
  BY <1>22, ItemFacts DEF Inv, TypeOK, ChanOK, ScanOK, CountedOK, Ages
<1>. QED
    BY <1>1, <1>2, <1>3, <1>4, <1>5, <1>6, <1>7, <1>8, <1>9, <1>10, <1>11, <1>12, <1>13, <1>14,
     <1>15, <1>16, <1>17, <1>18, <1>19, <1>20, <1>21, <1>22 DEF Next, Dispatch, CallerSteps,
     ItemSteps

----------------------------------------------------------------------------
(* Counting *)

Open == Stages \ {"none", "written", "end"}

\* The items that have not settled, by their stage.
LEMMA UnsettledIs ==
    ASSUME TypeOK
    PROVE  Unsettled = {i \in Items : stage[i] \in Open} /\ IsFiniteSet(Unsettled)
<1>1. Unsettled = {i \in Items : stage[i] \in Open}
  BY DEF TypeOK, Unsettled, Working, Open, Stages
<1>. QED
  BY <1>1, ItemsFinite, FS_Subset

\* What one item's move does to them.
LEMMA UnsettledMove ==
    ASSUME TypeOK, NEW i \in Items, NEW s \in Stages, Moves(i, s)
    PROVE  Unsettled' = IF s \in Open THEN Unsettled \cup {i} ELSE Unsettled \ {i}
<1>1. stage' \in [Items -> Stages]
  BY DEF TypeOK, Moves
<1>2. Unsettled' = {j \in Items : stage'[j] \in Open}
  BY <1>1 DEF Unsettled, Working, Open, Stages
<1>. QED
  BY <1>2, UnsettledIs DEF TypeOK, Moves

\* A move between two stages that are both counted, or both not, keeps them.
LEMMA UnsettledSame ==
    ASSUME TypeOK, NEW i \in Items, NEW s \in Stages, Moves(i, s), stage[i] \in Open <=> s \in Open
    PROVE  Unsettled' = Unsettled
BY UnsettledMove, UnsettledIs

\* Bytes that an item will not take back may be missed by nobody.
LEMMA CountKept ==
    ASSUME TypeOK, CountersSound, Unsettled' = Unsettled, UNCHANGED <<pending, bytes>>,
           sized' \subseteq sized
    PROVE  CountersSound'
<1>1. IsFiniteSet(sized)
  BY ItemsFinite, FS_Subset DEF TypeOK
<1>2. Cardinality(sized) \in Nat /\ Cardinality(sized') \in Nat /\ Cardinality(sized') <= Cardinality(sized)
  BY <1>1, FS_Subset, FS_CardinalityType
<1>. QED
  BY <1>2 DEF CountersSound, TypeOK

\* An item is counted.
LEMMA CountUp ==
    ASSUME TypeOK, CountersSound, NEW i \in Items \ Unsettled, Unsettled' = Unsettled \cup {i},
           pending' = pending + 1, bytes' = bytes + 1, sized' = sized \cup {i}
    PROVE  CountersSound'
<1>1. IsFiniteSet(sized) /\ IsFiniteSet(Unsettled) /\ i \notin sized
  BY ItemsFinite, FS_Subset, UnsettledIs DEF TypeOK, CountersSound
<1>2. /\ Cardinality(sized) \in Nat /\ Cardinality(Unsettled) \in Nat
      /\ Cardinality(sized') = Cardinality(sized) + 1
      /\ Cardinality(Unsettled') = Cardinality(Unsettled) + 1
  BY <1>1, FS_AddElement, FS_CardinalityType
<1>. QED
  BY <1>1, <1>2 DEF CountersSound, TypeOK

\* An item is taken back, with its byte if it had one.
LEMMA CountDown ==
    ASSUME TypeOK, CountersSound, NEW i \in Unsettled, Unsettled' = Unsettled \ {i},
           pending' = pending - 1, bytes' = (IF i \in sized THEN bytes - 1 ELSE bytes),
           sized' = sized \ {i}
    PROVE  CountersSound'
<1>1. IsFiniteSet(sized) /\ IsFiniteSet(Unsettled)
  BY ItemsFinite, FS_Subset, UnsettledIs DEF TypeOK
<1>2. /\ Cardinality(sized) \in Nat /\ Cardinality(Unsettled) \in Nat
      /\ Cardinality(sized') = (IF i \in sized THEN Cardinality(sized) - 1 ELSE Cardinality(sized))
      /\ Cardinality(Unsettled') = Cardinality(Unsettled) - 1
  BY <1>1, FS_RemoveElement, FS_CardinalityType
<1>. QED
  BY <1>1, <1>2 DEF CountersSound, TypeOK

\* Every path through the queue keeps the counters exact.
LEMMA CountersStep == ASSUME Inv, Next PROVE CountersSound'
<1>. USE DEF disk, callers, task, counters, loop, process
<1>1. CASE Trip \/ CoolDown \/ SeesSignal \/ Exit \/ Drain
  <2>1. UNCHANGED <<stage, counters>>
    BY <1>1 DEF Trip, CoolDown, SeesSignal, Exit, Drain
  <2>. QED
    BY <2>1 DEF Inv, Safe, CountersSound, Unsettled, Working
<1>2. CASE Receive
  <2>1. Head(chan) \in Items /\ stage[Head(chan)] \in Open /\ \E s \in Stages \cap Open : Moves(Head(chan), s)
    BY <1>2, ItemFacts, HeadQueued DEF Inv, Open, Stages, Receive
  <2>2. Unsettled' = Unsettled
    BY <2>1, UnsettledSame DEF Inv
  <2>. QED
    BY <1>2, <2>2, CountKept DEF Inv, Safe, Receive
<1>3. CASE Spawn
  <2>1. held \in Items /\ \E s \in {"lost", "trying"} : Moves(held, s)
    BY <1>3 DEF Inv, TypeOK, Spawn
  <2>2. Unsettled' = Unsettled
    BY <1>3, <2>1, UnsettledMove, UnsettledIs DEF Inv, ChanOK, Open, Stages, Spawn
  <2>. QED
    BY <1>3, <2>2, CountKept DEF Inv, Safe, Spawn
<1>4. CASE Abort
  <2>1. Unsettled' = Unsettled
    BY <1>4 DEF Inv, TypeOK, Unsettled, Working, Abort
  <2>. QED
    BY <1>4, <2>1, CountKept DEF Inv, Safe, Abort
<1>5. CASE Scan
  <2>1. UNCHANGED <<stage, counters>>
    BY <1>5 DEF Scan
  <2>. QED
    BY <2>1 DEF Inv, Safe, CountersSound, Unsettled, Working
<1>6. CASE CleanupOrphans
  <2>1. UNCHANGED <<stage, counters>>
    BY <1>6 DEF CleanupOrphans
  <2>. QED
    BY <2>1 DEF Inv, Safe, CountersSound, Unsettled, Working
<1>7. CASE Dies \/ LosesPower
  <2>1. /\ stage' \in [Items -> {"none", "end"}]
        /\ pending' = 0 /\ bytes' = 0 /\ sized' = {}
    BY <1>7, RestartEffect DEF Inv, Restarted, Fresh
  <2>2. Unsettled' = {}
    BY <2>1 DEF Unsettled, Working
  <2>. QED
    BY <2>1, <2>2, FS_EmptySet DEF CountersSound
<1>8. ASSUME NEW f \in Files, Enqueue(f) PROVE CountersSound'
  <2>1. Live(f) \in Items /\ stage[Live(f)] \notin Open /\ \E s \in Stages \ Open : Moves(Live(f), s)
    BY <1>8, ItemFacts DEF Inv, Open, Stages, Enqueue
  <2>2. Unsettled' = Unsettled
    BY <2>1, UnsettledSame DEF Inv
  <2>. QED
    BY <1>8, <2>2, CountKept DEF Inv, Safe, Enqueue
<1>9. ASSUME NEW f \in Files, Count(f) PROVE CountersSound'
  <2>1. Live(f) \in Items /\ stage[Live(f)] = "written"
    BY <1>9, ItemFacts DEF Inv, ScanOK, Count
  <2>2. Live(f) \notin Unsettled /\ Unsettled' = Unsettled \cup {Live(f)}
    BY <1>9, <2>1, UnsettledMove, UnsettledIs DEF Inv, Open, Stages, Count
  <2>. QED
    BY <1>9, <2>1, <2>2, CountUp DEF Inv, Safe, Count
<1>10. ASSUME NEW f \in Files, Accept(f) PROVE CountersSound'
  <2>1. Live(f) \in Items /\ stage[Live(f)] \in Open /\ \E s \in Stages \cap Open : Moves(Live(f), s)
    BY <1>10, ItemFacts DEF Inv, Open, Stages, Accept
  <2>2. Unsettled' = Unsettled
    BY <2>1, UnsettledSame DEF Inv
  <2>. QED
    BY <1>10, <2>2, CountKept DEF Inv, Safe, Accept
<1>11. ASSUME NEW f \in Files, Reject(f) PROVE CountersSound'
  <2>1. Live(f) \in Items /\ stage[Live(f)] = "counted"
    BY <1>11, ItemFacts DEF Reject
  <2>2. Live(f) \in Unsettled /\ Unsettled' = Unsettled \ {Live(f)}
    BY <1>11, <2>1, UnsettledMove, UnsettledIs DEF Inv, Open, Stages, Reject
  <2>. QED
    BY <1>11, <2>1, <2>2, CountDown DEF Inv, Safe, CountedOK, Reject
<1>12. ASSUME NEW f \in Files, InlineEnds(f) PROVE CountersSound'
  <2>1. UNCHANGED <<stage, counters>>
    BY <1>12 DEF InlineEnds
  <2>. QED
    BY <2>1 DEF Inv, Safe, CountersSound, Unsettled, Working
<1>13. ASSUME NEW f \in Files, Discard(f) PROVE CountersSound'
  <2>1. UNCHANGED <<stage, counters>>
    BY <1>13 DEF Discard
  <2>. QED
    BY <2>1 DEF Inv, Safe, CountersSound, Unsettled, Working
<1>14. ASSUME NEW f \in Files, Recover(f) PROVE CountersSound'
  <2>1. Again(f) \in Items /\ stage[Again(f)] = "none"
    BY <1>14, ItemFacts, ScannedEffect DEF Inv, ScanOK, Recover
  <2>2. Again(f) \notin Unsettled /\ Unsettled' = Unsettled \cup {Again(f)}
    BY <1>14, <2>1, UnsettledMove, UnsettledIs DEF Inv, Open, Stages, Recover
  <2>. QED
    BY <1>14, <2>1, <2>2, CountUp DEF Inv, Safe, Recover
<1>15. ASSUME NEW f \in Files, LeaveForLater(f) PROVE CountersSound'
  <2>1. UNCHANGED <<stage, counters>>
    BY <1>15 DEF LeaveForLater
  <2>. QED
    BY <2>1 DEF Inv, Safe, CountersSound, Unsettled, Working
<1>16. ASSUME NEW i \in Items, Attempt(i) PROVE CountersSound'
  <2>1. stage[i] = "trying" /\ \E s \in {"trying", "parked", "won", "lost"} : Attempted(i, s)
    BY <1>16, AttemptEffect DEF Inv
  <2>2. stage[i] \in Open /\ UNCHANGED counters /\ \E s \in Stages \cap Open : Moves(i, s)
    BY <2>1 DEF Open, Stages, Attempted, Moves
  <2>3. Unsettled' = Unsettled
    BY <2>2, UnsettledSame DEF Inv
  <2>. QED
    BY <2>2, <2>3, CountKept DEF Inv, Safe
<1>17. ASSUME NEW i \in Items, Reacquire(i) PROVE CountersSound'
  <2>1. i \in Items /\ stage[i] \in Open /\ \E s \in Stages \cap Open : Moves(i, s)
    BY <1>17, ItemFacts DEF Inv, Open, Stages, Reacquire
  <2>2. Unsettled' = Unsettled
    BY <2>1, UnsettledSame DEF Inv
  <2>. QED
    BY <1>17, <2>2, CountKept DEF Inv, Safe, Reacquire
<1>18. ASSUME NEW i \in Items, RemoveFiles(i) PROVE CountersSound'
  <2>1. i \in Items /\ stage[i] \in Open /\ \E s \in Stages \cap Open : Moves(i, s)
    BY <1>18, ItemFacts DEF Inv, Open, Stages, RemoveFiles
  <2>2. Unsettled' = Unsettled
    BY <2>1, UnsettledSame DEF Inv
  <2>. QED
    BY <1>18, <2>2, CountKept DEF Inv, Safe, RemoveFiles
<1>19. ASSUME NEW i \in Items, Settle(i) PROVE CountersSound'
  <2>1. i \in Items /\ stage[i] = "swept"
    BY <1>19, ItemFacts DEF Settle
  <2>2. i \in Unsettled /\ Unsettled' = Unsettled \ {i}
    BY <1>19, <2>1, UnsettledMove, UnsettledIs DEF Inv, Open, Stages, Settle
  <2>. QED
    BY <1>19, <2>1, <2>2, CountDown DEF Inv, Safe, CountedOK, Settle
<1>20. ASSUME NEW i \in Items, ParkEnds(i) PROVE CountersSound'
  <2>1. i \in Items /\ stage[i] \in Open /\ \E s \in Stages \cap Open : Moves(i, s)
    BY <1>20, ItemFacts DEF Inv, Open, Stages, ParkEnds, GiveUp
  <2>2. Unsettled' = Unsettled
    BY <2>1, UnsettledSame DEF Inv
  <2>. QED
    BY <1>20, <2>2, CountKept DEF Inv, Safe, ParkEnds
<1>21. ASSUME NEW i \in Items, ParkWakes(i) PROVE CountersSound'
  <2>1. i \in Items /\ stage[i] \in Open /\ \E s \in Stages \cap Open : Moves(i, s)
    BY <1>21, ItemFacts DEF Inv, Open, Stages, ParkWakes
  <2>2. Unsettled' = Unsettled
    BY <2>1, UnsettledSame DEF Inv
  <2>. QED
    BY <1>21, <2>2, CountKept DEF Inv, Safe, ParkWakes
<1>22. ASSUME NEW i \in Items, Ages(i) PROVE CountersSound'
  <2>1. UNCHANGED <<stage, counters>>
    BY <1>22 DEF Ages
  <2>. QED
    BY <2>1 DEF Inv, Safe, CountersSound, Unsettled, Working
<1>. QED
    BY <1>1, <1>2, <1>3, <1>4, <1>5, <1>6, <1>7, <1>8, <1>9, <1>10, <1>11, <1>12, <1>13, <1>14,
     <1>15, <1>16, <1>17, <1>18, <1>19, <1>20, <1>21, <1>22 DEF Next, Dispatch, CallerSteps,
     ItemSteps

----------------------------------------------------------------------------
(* Types *)

\* TypeOK, with its sets of sets spelled out.
Typed ==
    /\ temp \in [Files -> {"none", "whole", "torn"}] /\ side \in [Files -> BOOLEAN]
    /\ stored \in [Files -> {"none", "whole", "torn"}]
    /\ stage \in [Items -> Stages] /\ tries \in [Items -> 0 .. MaxAttempts]
    /\ aged \subseteq Items /\ refused \subseteq Items /\ sized \subseteq Items /\ permits \subseteq Items
    /\ chan \in Seq(Items) /\ held \in Items \cup {None}
    /\ worker \in {"run", "cool", "drain", "exited"} /\ signal \in BOOLEAN
    /\ fails \in 0 .. Threshold /\ pending \in Nat /\ bytes \in Int
    /\ marked \subseteq Hashed /\ inline \subseteq Files /\ owed \subseteq Files
    /\ scan \subseteq Files \/ scan \in {{"due"}, {"done"}}
    /\ life \in 1 .. Lives

\* Every step keeps the types.  That pending does not get negative is part of counting.
LEMMA TypeStep == ASSUME Inv, Next PROVE Typed'
<1>. USE DEF disk, callers, task, counters, loop, process
<1>t. Typed
  BY DEF Inv, TypeOK, Typed
<1>p. pending' \in Nat
  <2>1. IsFiniteSet(Unsettled')
    BY ItemsFinite, FS_Subset DEF Unsettled, Working
  <2>. QED
    BY <2>1, CountersStep, FS_CardinalityType DEF CountersSound
<1>1. CASE Trip \/ CoolDown \/ SeesSignal \/ Exit \/ Drain
  <2>1. UNCHANGED <<disk, aged, callers, stage, task, counters, chan, held, process, owed>>
    BY <1>1 DEF Trip, CoolDown, SeesSignal, Exit, Drain
  <2>2. worker' \in {"run", "cool", "drain", "exited"} /\ signal' \in BOOLEAN
    BY <1>t, <1>1 DEF Typed, Trip, CoolDown, SeesSignal, Exit, Drain
  <2>3. fails' \in 0 .. Threshold
    BY <1>t, <1>1, UploadQueueAssumption DEF Typed, Trip, CoolDown, SeesSignal, Exit, Drain
  <2>. QED
    BY <1>t, <2>1, <2>2, <2>3 DEF Typed
<1>2. CASE Receive
  <2>1. Head(chan) \in Items /\ chan' \in Seq(Items)
    BY <1>2, HeadQueued DEF Inv, Receive
  <2>. QED
    BY <1>t, <1>2, <2>1 DEF Typed, Stages, Moves, Receive
<1>3. CASE Spawn
  BY <1>3, <1>p, <1>t, ItemFacts DEF Typed, Stages, Spawn, Moves
<1>4. CASE Abort
  <2>1. chan' \in Seq(Items) /\ stage' \in [Items -> Stages]
    BY <1>t, <1>4, EmptySeq DEF Typed, Stages, Abort
  <2>. QED
    BY <1>t, <1>4, <2>1 DEF Typed, Abort
<1>5. CASE Scan
  BY <1>5, <1>p, <1>t, ItemFacts DEF Typed, Stages, Scan
<1>6. CASE CleanupOrphans
  BY <1>6, <1>p, <1>t, ItemFacts DEF Typed, Stages, CleanupOrphans
<1>7. CASE Dies \/ LosesPower
  <2>1. Restarted
    BY <1>7, RestartEffect DEF Inv
  <2>2. aged' \subseteq Items /\ owed' \subseteq Files /\ stage' \in [Items -> Stages]
    BY <1>t, <2>1 DEF Typed, Restarted, Stages
  <2>3. tries' \in [Items -> 0 .. MaxAttempts] /\ fails' \in 0 .. Threshold /\ chan' \in Seq(Items)
    BY <2>1, EmptySeq, UploadQueueAssumption DEF Restarted, Fresh
  <2>4. /\ refused' \subseteq Items /\ sized' \subseteq Items /\ permits' \subseteq Items
        /\ marked' \subseteq Hashed /\ inline' \subseteq Files /\ held' \in Items \cup {None}
        /\ bytes' \in Int /\ scan' = {"due"} /\ worker' = "run" /\ signal' = FALSE
    BY <2>1 DEF Restarted, Fresh
  <2>5. /\ temp' \in [Files -> {"none", "whole", "torn"}] /\ side' \in [Files -> BOOLEAN]
        /\ life' \in 1 .. Lives /\ stored' = stored
    BY <2>1 DEF Restarted
  <2>. QED
    BY <1>p, <1>t, <2>2, <2>3, <2>4, <2>5 DEF Typed
<1>8. ASSUME NEW f \in Files, Enqueue(f) PROVE Typed'
  <2>1. stage' \in [Items -> Stages]
    BY <1>t, <1>8, ItemFacts DEF Typed, Stages, Enqueue, Moves
  <2>2. temp' \in [Files -> {"none", "whole", "torn"}] /\ side' \in [Files -> BOOLEAN]
    BY <1>t, <1>8 DEF Typed, Enqueue
  <2>3. marked' \subseteq Hashed /\ inline' \subseteq Files /\ owed' \subseteq Files
    BY <1>t, <1>8 DEF Typed, Enqueue
  <2>4. UNCHANGED <<stored, aged, task, counters, loop, process>>
    BY <1>8 DEF Enqueue
  <2>. QED
    BY <1>t, <2>1, <2>2, <2>3, <2>4 DEF Typed
<1>9. ASSUME NEW f \in Files, Count(f) PROVE Typed'
  BY <1>9, <1>p, <1>t, ItemFacts DEF Typed, Stages, Count, Moves
<1>10. ASSUME NEW f \in Files, Accept(f) PROVE Typed'
  <2>1. Live(f) \in Items /\ chan' \in Seq(Items)
    BY <1>t, <1>10, ItemFacts, AppendProperties DEF Typed, Accept
  <2>2. scan' \subseteq Files \/ scan' \in {{"due"}, {"done"}}
    BY <1>t, <1>10, ScannedEffect DEF Inv, Typed, Accept
  <2>. QED
    BY <1>p, <1>t, <1>10, <2>1, <2>2 DEF Typed, Stages, Moves, Accept
<1>11. ASSUME NEW f \in Files, Reject(f) PROVE Typed'
  BY <1>11, <1>p, <1>t, ItemFacts DEF Typed, Stages, Reject, Moves, RemoveTemp, RemoveSide, Unmark
<1>12. ASSUME NEW f \in Files, InlineEnds(f) PROVE Typed'
  BY <1>12, <1>p, <1>t, ItemFacts DEF Typed, Stages, InlineEnds, Stores
<1>13. ASSUME NEW f \in Files, Discard(f) PROVE Typed'
  <2>1. scan' \subseteq Files
    BY <1>13, ScannedEffect DEF Inv, Discard
  <2>. QED
    BY <1>t, <1>13, <2>1 DEF Typed, Discard, RemoveTemp, RemoveSide
<1>14. ASSUME NEW f \in Files, Recover(f) PROVE Typed'
  <2>1. Again(f) \in Items /\ chan' \in Seq(Items)
    BY <1>t, <1>14, ItemFacts, AppendProperties DEF Typed, Recover
  <2>2. scan' \subseteq Files \/ scan' \in {{"due"}, {"done"}}
    BY <1>t, <1>14, ScannedEffect DEF Inv, Typed, Recover
  <2>. QED
    BY <1>p, <1>t, <1>14, <2>1, <2>2 DEF Typed, Stages, Moves, Recover
<1>15. ASSUME NEW f \in Files, LeaveForLater(f) PROVE Typed'
  <2>1. scan' \subseteq Files
    BY <1>15, ScannedEffect DEF Inv, LeaveForLater
  <2>. QED
    BY <1>t, <1>15, <2>1 DEF Typed, LeaveForLater
<1>16. ASSUME NEW i \in Items, Attempt(i) PROVE Typed'
  <2>1. PICK s \in {"trying", "parked", "won", "lost"} : Attempted(i, s)
    BY <1>16, AttemptEffect DEF Inv
  <2>2. stored' \in [Files -> {"none", "whole", "torn"}]
    <3>1. File(i) \in Files /\ temp[File(i)] \in {"none", "whole", "torn"}
      BY <1>t, ItemFacts DEF Typed
    <3>. QED
      BY <1>t, <2>1, <3>1 DEF Typed, Attempted, Stores
  <2>3. stage' \in [Items -> Stages]
    BY <1>t, <2>1 DEF Typed, Attempted, Stages
  <2>4. /\ owed' \subseteq Files /\ permits' \subseteq Items /\ refused' \subseteq Items
        /\ fails' \in 0 .. Threshold /\ tries' \in [Items -> 0 .. MaxAttempts]
        /\ UNCHANGED <<temp, side, aged, marked, inline, counters, chan, held, worker, signal, process>>
    BY <1>t, <2>1 DEF Typed, Attempted
  <2>. QED
    BY <1>t, <2>2, <2>3, <2>4 DEF Typed
<1>17. ASSUME NEW i \in Items, Reacquire(i) PROVE Typed'
  BY <1>17, <1>p, <1>t, ItemFacts DEF Typed, Stages, Reacquire, Moves
<1>18. ASSUME NEW i \in Items, RemoveFiles(i) PROVE Typed'
  BY <1>18, <1>p, <1>t, ItemFacts DEF Typed, Stages, RemoveFiles, Moves, RemoveTemp
<1>19. ASSUME NEW i \in Items, Settle(i) PROVE Typed'
  <2>1. tries' \in [Items -> 0 .. MaxAttempts]
    BY <1>t, <1>19, UploadQueueAssumption DEF Typed, Settle
  <2>2. stage' \in [Items -> Stages] /\ side' \in [Files -> BOOLEAN]
    BY <1>t, <1>19 DEF Typed, Stages, Settle, Moves, RemoveSide
  <2>3. marked' \subseteq Hashed /\ bytes' \in Int
    BY <1>t, <1>19 DEF Typed, Settle, Unmark
  <2>. QED
    BY <1>p, <1>t, <1>19, <2>1, <2>2, <2>3 DEF Typed, Settle
<1>20. ASSUME NEW i \in Items, ParkEnds(i) PROVE Typed'
  <2>1. fails' \in 0 .. Threshold
    BY <1>t, <1>20, UploadQueueAssumption DEF Typed, ParkEnds, GiveUp, Failed
  <2>. QED
    BY <1>t, <1>20, <2>1 DEF Typed, Stages, ParkEnds, GiveUp, Moves
<1>21. ASSUME NEW i \in Items, ParkWakes(i) PROVE Typed'
  BY <1>21, <1>p, <1>t, ItemFacts DEF Typed, Stages, ParkWakes, Moves
<1>22. ASSUME NEW i \in Items, Ages(i) PROVE Typed'
  BY <1>22, <1>p, <1>t, ItemFacts DEF Typed, Stages, Ages
<1>. QED
    BY <1>1, <1>2, <1>3, <1>4, <1>5, <1>6, <1>7, <1>8, <1>9, <1>10, <1>11, <1>12, <1>13, <1>14,
     <1>15, <1>16, <1>17, <1>18, <1>19, <1>20, <1>21, <1>22 DEF Next, Dispatch, CallerSteps,
     ItemSteps

----------------------------------------------------------------------------
(* Theorems *)

\* The first process starts from nothing.
LEMMA InvInit == Init => Inv
<1>. SUFFICES ASSUME Init PROVE Inv
  OBVIOUS
<1>1. TypeOK
  <2>1. chan \in Seq(Items) /\ fails \in 0 .. Threshold /\ life \in 1 .. Lives
    BY UploadQueueAssumption, EmptySeq DEF Init
  <2>2. tries \in [Items -> 0 .. MaxAttempts] /\ stage \in [Items -> Stages]
    BY UploadQueueAssumption DEF Init, Stages
  <2>3. /\ temp \in [Files -> {"none", "whole", "torn"}] /\ side \in [Files -> BOOLEAN]
        /\ stored \in [Files -> {"none", "whole", "torn"}]
    BY DEF Init
  <2>4. /\ aged \subseteq Items /\ refused \subseteq Items /\ sized \subseteq Items /\ permits \subseteq Items
        /\ marked \subseteq Hashed /\ inline \subseteq Files /\ owed \subseteq Files
        /\ held \in Items \cup {None} /\ pending \in Nat /\ bytes \in Int
        /\ scan = {"due"} /\ worker = "run" /\ signal = FALSE
    BY DEF Init
  <2>5. Typed
    BY <2>1, <2>2, <2>3, <2>4 DEF Typed
  <2>. QED
    BY <2>5 DEF TypeOK, Typed
<1>2. Unsettled = {}
  BY DEF Init, Unsettled, Working
<1>3. CountersSound
  BY <1>2, FS_EmptySet DEF Init, CountersSound
<1>4. ChanOK
  BY EmptySeq DEF Init, ChanOK
<1>5. ScanOK /\ DiskOK
  BY ItemFacts DEF Init, ScanOK, DiskOK
<1>6. OweOK /\ CountedOK /\ DurableSurvives /\ NothingTornStored /\ MarksHeld
  BY DEF Init, OweOK, CountedOK, DurableSurvives, NothingTornStored, MarksHeld
<1>. QED
  BY <1>1, <1>3, <1>4, <1>5, <1>6 DEF Inv, Safe

\* The parts are preserved together: the proofs of each use the others.
LEMMA InvStep == Inv /\ [Next]_vars => Inv'
<1>1. ASSUME Inv, Next PROVE Inv'
  <2>1. TypeOK'
    BY <1>1, TypeStep DEF TypeOK, Typed
  <2>2. Safe'
    BY <1>1, DurableStep, TornStep, CountersStep, MarksStep DEF Safe
  <2>. QED
    BY <1>1, <2>1, <2>2, ChanStep, ScanStep, DiskStep, OweStep, CountedStep DEF Inv
<1>2. ASSUME Inv, UNCHANGED vars PROVE Inv'
  <2>. USE <1>2 DEF vars, disk, callers, task, counters, loop, process
  <2>1. TypeOK' /\ ChanOK' /\ ScanOK' /\ DiskOK' /\ OweOK' /\ CountedOK'
    BY DEF Inv, TypeOK, ChanOK, ScanOK, DiskOK, OweOK, CountedOK
  <2>2. Safe'
    BY DEF Inv, Safe, DurableSurvives, NothingTornStored, CountersSound, MarksHeld, Unsettled,
       Working
  <2>. QED
    BY <2>1, <2>2 DEF Inv
<1>. QED
  BY <1>1, <1>2

\* The inductive invariant holds throughout.
LEMMA InvHolds == Spec => []Inv
BY InvInit, InvStep, PTL DEF Spec

\* The variables of the queue keep their types; above all pending, an unsigned counter that
\* every rejection and every settled item decrements, does not go below zero.
THEOREM TypeCorrect == Spec => []TypeOK
<1>1. Inv => TypeOK
  BY DEF Inv
<1>. QED
  BY <1>1, InvHolds, PTL

\* A durable upload that the queue took is stored, given up by a rule, or intact on disk:
\* for any number of uploads, any interleaving of callers, worker, items and recovery, and
\* any number of crashes and losses of power.
THEOREM UploadsSurvive == Spec => []DurableSurvives
<1>1. Inv => DurableSurvives
  BY DEF Inv, Safe
<1>. QED
  BY <1>1, InvHolds, PTL

\* A file that a loss of power has torn is never uploaded as it is.
THEOREM NeverTorn == Spec => []NothingTornStored
<1>1. Inv => NothingTornStored
  BY DEF Inv, Safe
<1>. QED
  BY <1>1, InvHolds, PTL

\* pending is the number of items that have not settled, and pending_bytes covers what
\* they will give back, although recovery queues files a second time.
THEOREM CountersExact == Spec => []CountersSound
<1>1. Inv => CountersSound
  BY DEF Inv, Safe
<1>. QED
  BY <1>1, InvHolds, PTL

\* No destination stays marked after its upload has left the queue.
THEOREM NoMarkLeft == Spec => []MarksHeld
<1>1. Inv => MarksHeld
  BY DEF Inv, Safe
<1>. QED
  BY <1>1, InvHolds, PTL

=============================================================================
