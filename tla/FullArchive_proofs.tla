------------------------- MODULE FullArchive_proofs -------------------------
(***************************************************************************)
(* Proofs about createFullArchive for any calls, numbers of threads and    *)
(* numbers of files: its types, its pool of workers (which slots workers   *)
(* hold, what main sees after the join, who still runs at the return) and  *)
(* its page_allocator buffers (who owns them, that collected bytes stay    *)
(* live, that a call that succeeds releases them all); then what it        *)
(* returns, the archive or the error its abstract specification promises   *)
(* whatever the number of workers and their order, and its progress.       *)
(***************************************************************************)
EXTENDS FullArchive, Lists_proofs, SequenceTheorems

-----------------------------------------------------------------------------
(* What the arguments determine.                                           *)

(* The files of a call are finitely many entries of its list.              *)
LEMMA FilesFinite ==
  ASSUME NEW c \in Calls
  PROVE  /\ Len(c.entries) \in Nat
         /\ DOMAIN c.entries = 1 .. Len(c.entries)
         /\ FileIndices(c.entries) \subseteq 1 .. Len(c.entries)
         /\ IsFiniteSet(FileIndices(c.entries))
         /\ FileCount(c) \in Nat
<1>1. c.entries \in Seq({c.entries[i] : i \in DOMAIN c.entries})
  BY CallsAssumption
<1>2. Len(c.entries) \in Nat /\ DOMAIN c.entries = 1 .. Len(c.entries)
  BY <1>1
<1>3. FileIndices(c.entries) \subseteq 1 .. Len(c.entries)
  BY <1>2 DEF FileIndices
<1>4. IsFiniteSet(1 .. Len(c.entries))
  BY <1>2, FS_Interval
<1>5. IsFiniteSet(FileIndices(c.entries))
  BY <1>3, <1>4, FS_Subset
<1>6. FileCount(c) \in Nat
  BY <1>5, FS_CardinalityType DEF FileCount
<1> QED BY <1>2, <1>3, <1>5, <1>6

(* file_slots lists every file once, in entry order: it is a bijection     *)
(* from the slots to the indices of the files, and ascends.                *)
LEMMA FileSlotsBijective ==
  ASSUME NEW c \in Calls
  PROVE  /\ fileSlots(c) \in Bijection(Slots(c), FileIndices(c.entries))
         /\ \A s, t \in Slots(c) : s < t => EntryIndex(c, s) < EntryIndex(c, t)
BY FilesFinite, NthBijective DEF fileSlots, EntryIndex, Slots, FileCount

(* The types of what the arguments determine.                              *)
LEMMA ArgumentTypes ==
  ASSUME NEW c \in Calls
  PROVE  /\ FileCount(c) \in Nat /\ ResolvedThreads(c) \in Nat
         /\ NumWorkers(c) \in Nat /\ NumWorkers(c) <= FileCount(c)
         /\ TotalFileBytes(c) \in Nat
         /\ Len(c.entries) \in Nat /\ DOMAIN c.entries = 1 .. Len(c.entries)
         /\ \A i \in DOMAIN c.entries : c.entries[i].size \in Nat
         /\ \A s \in Slots(c) : EntryIndex(c, s) \in DOMAIN c.entries
<1>1. /\ FileCount(c) \in Nat /\ Len(c.entries) \in Nat
      /\ DOMAIN c.entries = 1 .. Len(c.entries)
      /\ FileIndices(c.entries) \subseteq DOMAIN c.entries
  BY FilesFinite
<1>2. /\ ResolvedThreads(c) \in Nat
      /\ NumWorkers(c) \in Nat /\ NumWorkers(c) <= FileCount(c)
  <2>1. ResolvedThreads(c) \in Nat
    <3>1. c.threads \in 0 .. 255
      BY CallsAssumption
    <3>2. CpuCount \in Nat
      BY ConstantsAssumption
    <3> QED BY <3>1, <3>2 DEF ResolvedThreads
  <2> QED BY <1>1, <2>1 DEF NumWorkers
<1>3. \A i \in DOMAIN c.entries : c.entries[i].size \in Nat
  BY CallsAssumption DEF IsEntry
<1>4. \A s \in Slots(c) : EntryIndex(c, s) \in DOMAIN c.entries
  BY <1>1, FileSlotsBijective DEF EntryIndex, Bijection, Injection
<1>5. TotalFileBytes(c) \in Nat
  <2>1. FileSizes(c) \in Seq(Nat)
    BY <1>1, <1>3 DEF FileSizes
  <2> QED BY <2>1, SumsOf DEF TotalFileBytes
<1> QED BY <1>1, <1>2, <1>3, <1>4, <1>5

-----------------------------------------------------------------------------
(* Type correctness.                                                       *)

LEMMA InitTyped == Init => TypeOK
<1> SUFFICES ASSUME Init PROVE TypeOK
  OBVIOUS
<1>1. call \in Calls
  BY DEF Init
<1>2. NumWorkers(call) \in Nat /\ FileCount(call) \in Nat
  BY <1>1, ArgumentTypes
<1>3. MainTypeOK
  BY <1>1, <1>2 DEF Init, MainTypeOK
<1>4. PoolTypeOK
  BY <1>2 DEF Init, PoolTypeOK, Holds, Workers
<1>5. ResultsTypeOK
  BY DEF Init, ResultsTypeOK, NoResult
<1>6. HeapTypeOK
  BY DEF Init, HeapTypeOK
<1> QED BY <1>3, <1>4, <1>5, <1>6 DEF TypeOK

(* What every step keeps: the arguments.                                   *)
LEMMA CallFixed == [Next]_vars => call' = call
<1> SUFFICES ASSUME [Next]_vars PROVE call' = call
  OBVIOUS
<1>1. CASE Main
  BY <1>1 DEF Main, Begin, AllocationFails, OutOfMemoryAt, SpawnWorker, SpawnFails,
     Drain, PollTest, PollLoadFiles, PollCallback, JoinWorkers, CollectError,
     CollectSlot, CollectFails, CollectDone, SequentialSerialize, SequentialFails,
     SequentialRecord, SequentialSkipsDir, SequentialDone, BuildParents,
     SerializeDir, DirFails, DirsSkipFile, DirsDone, Assemble, FailWith,
     ControlOnly, argVars
<1>2. CASE \E w \in Workers(call) : Worker(w)
  BY <1>2 DEF Worker, ClaimSlot, SerializeSlot, SerializeFails, CountFile,
     CountBytes, MainWaits, argVars
<1>3. CASE UNCHANGED vars
  BY <1>3 DEF vars, argVars
<1> QED BY <1>1, <1>2, <1>3 DEF Next, Finished

(* Parts of the state a step leaves alone keep their types, and so do the  *)
(* buffers when some are released.                                         *)
LEMMA PoolTypeKept ==
  PoolTypeOK /\ UNCHANGED <<call, nextSlot, aFiles, aBytes, wpc, wslot>>
    => PoolTypeOK'
BY DEF PoolTypeOK, Holds

LEMMA ResultsTypeKept ==
  ResultsTypeOK /\ UNCHANGED <<call, results>> => ResultsTypeOK'
BY DEF ResultsTypeOK

LEMMA HeapTypeKept ==
  /\ HeapTypeOK
  /\ call' = call /\ pages' \subseteq pages /\ parallelToFree' \subseteq parallelToFree
  => HeapTypeOK'
BY DEF HeapTypeOK

(* The errors of the entries are errors.                                   *)
LEMMA ErrorsTyped ==
  /\ \A f, comp : FileErrors(f, comp) \subseteq Errors
  /\ \A d : DirErrors(d) \subseteq Errors
  /\ NoError \notin Errors
BY DEF FileErrors, DirErrors, Errors, NoError

(* A return keeps the types.                                               *)
LEMMA LeaveTyped ==
  ASSUME TypeOK, call' = call, NEW result, NEW live, live \subseteq pages,
         Leave(result, live),
         UNCHANGED <<pos, spawned, seenFiles, progressVars, elements, nextSlot,
                     aFiles, aBytes, wpc, wslot>>
  PROVE  MainTypeOK' /\ PoolTypeOK' /\ HeapTypeOK'
<1>1. MainTypeOK'
  BY DEF TypeOK, MainTypeOK, Leave, progressVars
<1>2. PoolTypeOK'
  BY PoolTypeKept DEF TypeOK
<1>3. HeapTypeOK'
  BY HeapTypeKept DEF TypeOK, Leave
<1> QED BY <1>1, <1>2, <1>3

LEMMA FailTyped ==
  ASSUME TypeOK, NEW e, FailWith(e)
  PROVE  TypeOK'
<1>1. MainTypeOK' /\ PoolTypeOK' /\ HeapTypeOK'
  BY LeaveTyped DEF FailWith, builtVars, poolVars
<1>2. ResultsTypeOK'
  BY ResultsTypeKept DEF FailWith, TypeOK, poolVars
<1> QED BY <1>1, <1>2 DEF TypeOK

(* A step that changes only main's program counter and loop index.         *)
LEMMA ControlTyped ==
  ASSUME TypeOK, ControlOnly, pos' \in Nat,
         pc' \in {"spawn", "poll", "loadFiles", "join", "sequential", "parents",
                 "dirs", "assemble"}
  PROVE  TypeOK'
<1> USE DEF ControlOnly, argVars, builtVars, poolVars, heapVars, progressVars
<1>1. MainTypeOK'
  BY DEF TypeOK, MainTypeOK
<1>2. PoolTypeOK' /\ ResultsTypeOK' /\ HeapTypeOK'
  BY PoolTypeKept, ResultsTypeKept, HeapTypeKept DEF TypeOK
<1> QED BY <1>1, <1>2 DEF TypeOK

(* Every step of main keeps the types.                                     *)
LEMMA MainStepTyped == TypeOK /\ Main => TypeOK'
<1> SUFFICES ASSUME TypeOK, Main PROVE TypeOK'
  OBVIOUS
<1> USE DEF argVars, builtVars, poolVars, heapVars, progressVars
<1>0. call' = call
  BY CallFixed DEF Next
<1>types. /\ call \in Calls
          /\ FileCount(call) \in Nat /\ NumWorkers(call) \in Nat
          /\ TotalFileBytes(call) \in Nat
          /\ \A i \in DOMAIN call.entries : call.entries[i].size \in Nat
          /\ \A s \in Slots(call) : EntryIndex(call, s) \in DOMAIN call.entries
  BY ArgumentTypes DEF TypeOK, MainTypeOK
<1>1. CASE Begin
  BY <1>1, ControlTyped DEF Begin, TypeOK, MainTypeOK
<1>2. CASE AllocationFails
  BY <1>2, FailTyped DEF AllocationFails, OutOfMemoryAt
<1>3. CASE SpawnWorker
  <2>1. MainTypeOK'
    BY <1>types, <1>3 DEF SpawnWorker, TypeOK, MainTypeOK
  <2>2. PoolTypeOK'
    BY <1>types, <1>3 DEF SpawnWorker, TypeOK, MainTypeOK, PoolTypeOK, Holds, Workers
  <2>3. ResultsTypeOK' /\ HeapTypeOK'
    BY <1>3, ResultsTypeKept, HeapTypeKept DEF SpawnWorker, TypeOK
  <2> QED BY <2>1, <2>2, <2>3 DEF TypeOK
<1>4. CASE SpawnFails
  <2>1. MainTypeOK'
    BY <1>4 DEF SpawnFails, TypeOK, MainTypeOK
  <2>2. PoolTypeOK'
    BY <1>types, <1>4 DEF SpawnFails, QueueExhausted, TypeOK, PoolTypeOK, Holds
  <2>3. ResultsTypeOK' /\ HeapTypeOK'
    BY <1>4, ResultsTypeKept, HeapTypeKept DEF SpawnFails, TypeOK
  <2> QED BY <2>1, <2>2, <2>3 DEF TypeOK
<1>5. CASE Drain
  BY <1>5, FailTyped DEF Drain
<1>6. CASE PollTest
  BY <1>6, ControlTyped DEF PollTest, TypeOK, MainTypeOK
<1>7. CASE PollLoadFiles
  <2>1. MainTypeOK'
    BY <1>7 DEF PollLoadFiles, TypeOK, MainTypeOK, PoolTypeOK
  <2>2. PoolTypeOK' /\ ResultsTypeOK' /\ HeapTypeOK'
    BY <1>7, PoolTypeKept, ResultsTypeKept, HeapTypeKept DEF PollLoadFiles, TypeOK
  <2> QED BY <2>1, <2>2 DEF TypeOK
<1>8. CASE PollCallback
  <2>1. MainTypeOK'
    BY <1>8 DEF PollCallback, TypeOK, MainTypeOK, PoolTypeOK
  <2>2. PoolTypeOK' /\ ResultsTypeOK' /\ HeapTypeOK'
    BY <1>8, PoolTypeKept, ResultsTypeKept, HeapTypeKept DEF PollCallback, TypeOK
  <2> QED BY <2>1, <2>2 DEF TypeOK
<1>9. CASE JoinWorkers
  <2>1. MainTypeOK'
    BY <1>types, <1>9 DEF JoinWorkers, FilesAdded, TypeOK, MainTypeOK
  <2>2. PoolTypeOK' /\ ResultsTypeOK' /\ HeapTypeOK'
    BY <1>9, PoolTypeKept, ResultsTypeKept, HeapTypeKept DEF JoinWorkers, TypeOK
  <2> QED BY <2>1, <2>2 DEF TypeOK
<1>10. CASE CollectError
  <2>1. MainTypeOK' /\ PoolTypeOK' /\ HeapTypeOK'
    BY <1>0, <1>10, LeaveTyped DEF CollectError
  <2>2. ResultsTypeOK'
    BY <1>0, <1>10 DEF CollectError, TypeOK, ResultsTypeOK
  <2> QED BY <2>1, <2>2 DEF TypeOK
<1>11. CASE CollectSlot
  <2>1. pos \in Slots(call)
    BY <1>types, <1>11 DEF CollectSlot, TypeOK, MainTypeOK, Slots
  <2>2. MainTypeOK'
    BY <1>11 DEF CollectSlot, TypeOK, MainTypeOK
  <2>3. PoolTypeOK'
    BY <1>11, PoolTypeKept DEF CollectSlot, TypeOK
  <2>4. ResultsTypeOK'
    BY <1>0, <1>11, <2>1 DEF CollectSlot, OwnedAfterTransfer, TypeOK, ResultsTypeOK
  <2>5. HeapTypeOK'
    BY <1>0, <1>11, <2>1
       DEF CollectSlot, Moved, TypeOK, ResultsTypeOK, HeapTypeOK, AllBuffers
  <2> QED BY <2>2, <2>3, <2>4, <2>5 DEF TypeOK
<1>12. CASE CollectFails
  <2>1. MainTypeOK'
    BY <1>12 DEF CollectFails, TypeOK, MainTypeOK
  <2>2. PoolTypeOK' /\ ResultsTypeOK'
    BY <1>12, PoolTypeKept, ResultsTypeKept DEF CollectFails, TypeOK
  <2>3. HeapTypeOK'
    BY <1>0, <1>12, HeapTypeKept DEF CollectFails, TypeOK
  <2> QED BY <2>1, <2>2, <2>3 DEF TypeOK
<1>13. CASE CollectDone
  BY <1>13, ControlTyped DEF CollectDone, TypeOK, MainTypeOK
<1>14. CASE SequentialSerialize
  <2>1. pos \in DOMAIN call.entries /\ call.entries[pos].size \in Nat
    BY <1>types, <1>14 DEF SequentialSerialize, FileIndices
  <2>2. MainTypeOK'
    BY <1>14, <2>1 DEF SequentialSerialize, CompressProgress, DataOverhead,
       TypeOK, MainTypeOK
  <2>3. PoolTypeOK' /\ ResultsTypeOK' /\ HeapTypeOK'
    BY <1>14, PoolTypeKept, ResultsTypeKept, HeapTypeKept
       DEF SequentialSerialize, TypeOK
  <2> QED BY <2>2, <2>3 DEF TypeOK
<1>15. CASE SequentialFails
  BY <1>15, FailTyped DEF SequentialFails
<1>16. CASE SequentialRecord
  <2>1. pos \in DOMAIN call.entries /\ call.entries[pos].size \in Nat
    BY <1>types, <1>16 DEF SequentialRecord, TypeOK, MainTypeOK, FileIndices
  <2>2. MainTypeOK'
    BY <1>16, <2>1 DEF SequentialRecord, TypeOK, MainTypeOK
  <2>3. PoolTypeOK' /\ ResultsTypeOK' /\ HeapTypeOK'
    BY <1>16, PoolTypeKept, ResultsTypeKept, HeapTypeKept
       DEF SequentialRecord, TypeOK
  <2> QED BY <2>2, <2>3 DEF TypeOK
<1>17. CASE SequentialSkipsDir
  BY <1>17, ControlTyped DEF SequentialSkipsDir, TypeOK, MainTypeOK
<1>18. CASE SequentialDone
  BY <1>18, ControlTyped DEF SequentialDone, TypeOK, MainTypeOK
<1>19. CASE BuildParents
  <2>1. MainTypeOK'
    BY <1>19 DEF BuildParents, TypeOK, MainTypeOK
  <2>2. PoolTypeOK' /\ ResultsTypeOK' /\ HeapTypeOK'
    BY <1>19, PoolTypeKept, ResultsTypeKept, HeapTypeKept DEF BuildParents, TypeOK
  <2> QED BY <2>1, <2>2 DEF TypeOK
<1>20. CASE SerializeDir
  <2>1. MainTypeOK'
    BY <1>20 DEF SerializeDir, TypeOK, MainTypeOK
  <2>2. PoolTypeOK' /\ ResultsTypeOK' /\ HeapTypeOK'
    BY <1>20, PoolTypeKept, ResultsTypeKept, HeapTypeKept DEF SerializeDir, TypeOK
  <2> QED BY <2>1, <2>2 DEF TypeOK
<1>21. CASE DirFails
  BY <1>21, FailTyped DEF DirFails
<1>22. CASE DirsSkipFile
  BY <1>22, ControlTyped DEF DirsSkipFile, TypeOK, MainTypeOK
<1>23. CASE DirsDone
  BY <1>23, ControlTyped DEF DirsDone, TypeOK, MainTypeOK
<1>24. CASE Assemble
  <2>1. MainTypeOK' /\ PoolTypeOK' /\ HeapTypeOK'
    BY <1>0, <1>24, LeaveTyped DEF Assemble
  <2>2. ResultsTypeOK'
    BY <1>24, ResultsTypeKept DEF Assemble, TypeOK
  <2> QED BY <2>1, <2>2 DEF TypeOK
<1> QED
  BY <1>1, <1>2, <1>3, <1>4, <1>5, <1>6, <1>7, <1>8, <1>9, <1>10, <1>11, <1>12,
     <1>13, <1>14, <1>15, <1>16, <1>17, <1>18, <1>19, <1>20, <1>21, <1>22, <1>23,
     <1>24 DEF Main

(* Every step of a worker keeps the types.                                 *)
LEMMA WorkerStepTyped ==
  ASSUME TypeOK, NEW w \in Workers(call), Worker(w)
  PROVE  TypeOK'
<1> USE DEF argVars, mainVars, builtVars, progressVars
<1>types. /\ call \in Calls
          /\ FileCount(call) \in Nat
          /\ \A i \in DOMAIN call.entries : call.entries[i].size \in Nat
          /\ \A s \in Slots(call) : EntryIndex(call, s) \in DOMAIN call.entries
          /\ FileBuffers \in Nat \ {0}
  BY ArgumentTypes, ConstantsAssumption DEF TypeOK, MainTypeOK
<1>1. ASSUME MainWaits
      PROVE  call' = call /\ MainTypeOK' /\ parallelToFree' = parallelToFree
  BY <1>1 DEF MainWaits, TypeOK, MainTypeOK
<1>2. ASSUME Holds(w)
      PROVE  wslot[w] \in Slots(call)
  BY <1>2 DEF TypeOK, PoolTypeOK
<1>3. CASE ClaimSlot(w)
  <2>1. MainTypeOK' /\ ResultsTypeOK' /\ HeapTypeOK'
    BY <1>1, <1>3, ResultsTypeKept, HeapTypeKept DEF ClaimSlot, TypeOK
  <2>2. PoolTypeOK'
    BY <1>types, <1>1, <1>3
       DEF ClaimSlot, CursorAdvanced, SlotInRange, TypeOK, PoolTypeOK, Holds, Slots
  <2> QED BY <2>1, <2>2 DEF TypeOK
<1>4. CASE SerializeSlot(w)
  <2>1. MainTypeOK' /\ call' = call /\ wslot[w] \in Slots(call)
    BY <1>1, <1>2, <1>4 DEF SerializeSlot, Holds
  <2>2. PoolTypeOK'
    BY <1>4, <2>1 DEF SerializeSlot, TypeOK, PoolTypeOK, Holds
  <2>3. ResultsTypeOK'
    BY <1>4, <2>1 DEF SerializeSlot, TypeOK, ResultsTypeOK
  <2>4. HeapTypeOK'
    BY <1>1, <1>4, <2>1
       DEF SerializeSlot, BuffersPublished, TypeOK, HeapTypeOK, AllBuffers
  <2> QED BY <2>1, <2>2, <2>3, <2>4 DEF TypeOK
<1>5. CASE SerializeFails(w)
  <2>1. MainTypeOK' /\ call' = call /\ wslot[w] \in Slots(call)
    BY <1>1, <1>2, <1>5 DEF SerializeFails, Holds
  <2>2. PoolTypeOK'
    BY <1>5, <2>1 DEF SerializeFails, AfterErrorCount, TypeOK, PoolTypeOK, Holds
  <2>3. ResultsTypeOK'
    BY <1>5, <2>1, ErrorsTyped
       DEF SerializeFails, ErrorRecorded, TypeOK, ResultsTypeOK
  <2>4. <<wslot[w], 1>> \in AllBuffers(call)
    BY <1>types, <2>1 DEF AllBuffers, SlotBuffers
  <2>5. HeapTypeOK'
    BY <1>1, <1>5, <2>1, <2>4 DEF SerializeFails, TypeOK, HeapTypeOK
  <2> QED BY <2>1, <2>2, <2>3, <2>5 DEF TypeOK
<1>6. CASE CountFile(w)
  <2>1. MainTypeOK' /\ ResultsTypeOK' /\ HeapTypeOK'
    BY <1>1, <1>6, ResultsTypeKept, HeapTypeKept DEF CountFile, TypeOK
  <2>2. PoolTypeOK'
    BY <1>1, <1>6 DEF CountFile, TypeOK, PoolTypeOK, Holds
  <2> QED BY <2>1, <2>2 DEF TypeOK
<1>7. CASE CountBytes(w)
  <2>1. MainTypeOK' /\ ResultsTypeOK' /\ HeapTypeOK'
    BY <1>1, <1>7, ResultsTypeKept, HeapTypeKept DEF CountBytes, TypeOK
  <2>2. FileAt(call, wslot[w]).size \in Nat
    BY <1>types, <1>2, <1>7 DEF CountBytes, Holds, FileAt
  <2>3. PoolTypeOK'
    BY <1>1, <1>7, <2>2 DEF CountBytes, TypeOK, PoolTypeOK, Holds
  <2> QED BY <2>1, <2>3 DEF TypeOK
<1> QED BY <1>3, <1>4, <1>5, <1>6, <1>7 DEF Worker

LEMMA StepTyped == TypeOK /\ [Next]_vars => TypeOK'
<1> SUFFICES ASSUME TypeOK, [Next]_vars PROVE TypeOK'
  OBVIOUS
<1>1. CASE Main
  BY <1>1, MainStepTyped
<1>2. CASE \E w \in Workers(call) : Worker(w)
  BY <1>2, WorkerStepTyped
<1>3. CASE UNCHANGED vars
  <2> USE DEF vars, argVars, mainVars, builtVars, progressVars, poolVars, heapVars
  <2>1. MainTypeOK'
    BY <1>3 DEF TypeOK, MainTypeOK
  <2>2. PoolTypeOK' /\ ResultsTypeOK' /\ HeapTypeOK'
    BY <1>3, PoolTypeKept, ResultsTypeKept, HeapTypeKept DEF TypeOK
  <2> QED BY <2>1, <2>2 DEF TypeOK
<1> QED BY <1>1, <1>2, <1>3 DEF Next, Finished

(* Type correctness: every variable keeps its type, whatever the calls,    *)
(* the number of files and the number of threads (createFullArchive).      *)
THEOREM TypeCorrect == Spec => []TypeOK
BY InitTyped, StepTyped, PTL DEF Spec
-----------------------------------------------------------------------------
(* The inductive invariant of the pool.                                    *)

PoolPhases == {"spawn", "drain", "poll", "loadFiles", "callback", "join", "collect"}
TailPhases == {"collect", "parents", "dirs", "assemble"}

(* The pool path and the sequential path exclude each other; once main     *)
(* polls, every worker has been started.                                   *)
PathInv ==
  /\ pc \in PoolPhases => UsesPool(call)
  /\ pc \in {"sequential", "record"} => ~UsesPool(call)
  /\ pc = "begin" \/ ~UsesPool(call) => spawned = 0
  /\ pc \in {"poll", "loadFiles", "callback", "join"} \/ InPoolTail =>
       spawned = NumWorkers(call)

(* The started workers are the first `spawned` ones, and none runs after   *)
(* the pool.                                                               *)
SpawnInv ==
  /\ \A w \in Workers(call) : wpc[w] = "idle" <=> w > spawned
  /\ NoWorkerOutlivesPool

(* A slot in hand was claimed, each by one worker; a slot not yet claimed, *)
(* or claimed and still being serialized, has no result.                   *)
ClaimInv ==
  /\ SlotsHeldOnce
  /\ \A w \in Workers(call) : Holds(w) => wslot[w] < nextSlot
  /\ \A s \in Slots(call) : Completed(s) => s < nextSlot

(* A claimed slot is never lost: it has its result or a worker at work on  *)
(* it.  (A failed spawn claims the remaining slots for nobody.)            *)
ServedInv ==
  pc \notin {"drain", "returned"} =>
    \A s \in Slots(call) : s < nextSlot =>
      \/ Completed(s)
      \/ \E w \in Workers(call) : wpc[w] = "serialize" /\ wslot[w] = s

(* A worker exits, and main drains, only when no slot is left.             *)
QueueInv ==
  /\ \A w \in Workers(call) : wpc[w] = "exited" => nextSlot >= FileCount(call)
  /\ pc = "drain" => nextSlot >= FileCount(call)

PoolInv ==
  TypeOK /\ PathInv /\ SpawnInv /\ ClaimInv /\ ServedInv /\ QueueInv

-----------------------------------------------------------------------------
(* Steps of main other than a spawn: what they leave alone, and how they   *)
(* move main's program counter.                                            *)

Transition ==
  \/ pc = "begin" /\ pc' = "spawn" /\ UsesPool(call)
  \/ pc = "begin" /\ pc' = "sequential" /\ ~UsesPool(call)
  \/ pc = "begin" /\ pc' = "returned"
  \/ /\ pc \in {"poll", "loadFiles", "callback"}
     /\ pc' \in {"poll", "loadFiles", "callback", "join"}
  \/ pc = "join" /\ pc' = "collect" /\ AllExited
  \/ pc = "drain" /\ pc' = "returned" /\ AllExited
  \/ pc \in {"sequential", "record"} /\ pc' \in {"sequential", "record", "parents", "returned"}
  \/ pc \in TailPhases /\ pc' \in (TailPhases \ {"collect"}) \cup {"returned"}
  \/ pc = "collect" /\ pc' = "collect"

QuietStep ==
  /\ UNCHANGED <<call, spawned, nextSlot, wpc, wslot>>
  /\ DOMAIN results' = DOMAIN results
  /\ \A s \in Slots(call) : /\ results'[s].bytes = results[s].bytes
                            /\ results'[s].err = results[s].err
  /\ Transition

LEMMA MainQuiet ==
  ASSUME TypeOK, Main
  PROVE  SpawnWorker \/ SpawnFails \/ QuietStep
<1> USE DEF QuietStep, Transition, TailPhases, argVars, builtVars, poolVars,
            heapVars, progressVars
<1>1. ASSUME NEW e, FailWith(e)
      PROVE  /\ UNCHANGED <<call, spawned, nextSlot, wpc, wslot, results>>
             /\ pc' = "returned"
  BY <1>1 DEF FailWith, Leave
<1>2. ASSUME ControlOnly
      PROVE  UNCHANGED <<call, spawned, nextSlot, wpc, wslot, results>>
  BY <1>2 DEF ControlOnly
<1>3. CASE Begin
  BY <1>2, <1>3 DEF Begin
<1>4. CASE AllocationFails
  BY <1>1, <1>4 DEF AllocationFails, OutOfMemoryAt
<1>5. CASE SpawnWorker \/ SpawnFails
  BY <1>5
<1>6. CASE Drain
  BY <1>1, <1>6 DEF Drain
<1>7. CASE PollTest \/ PollLoadFiles \/ PollCallback \/ JoinWorkers
  BY <1>2, <1>7 DEF PollTest, PollLoadFiles, PollCallback, JoinWorkers
<1>8. CASE CollectError
  BY <1>8 DEF CollectError, Leave, TypeOK, ResultsTypeOK
<1>9. CASE CollectSlot
  <2>1. /\ DOMAIN results' = DOMAIN results
        /\ \A s \in Slots(call) : /\ results'[s].bytes = results[s].bytes
                                  /\ results'[s].err = results[s].err
    BY <1>9 DEF CollectSlot, TypeOK, ResultsTypeOK
  <2> QED BY <1>9, <2>1 DEF CollectSlot
<1>10. CASE CollectFails \/ CollectDone
  BY <1>2, <1>10 DEF CollectFails, CollectDone
<1>11. CASE SequentialSerialize \/ SequentialFails \/ SequentialRecord
  BY <1>1, <1>11 DEF SequentialSerialize, SequentialFails, SequentialRecord
<1>12. CASE SequentialSkipsDir \/ SequentialDone
  BY <1>2, <1>12 DEF SequentialSkipsDir, SequentialDone
<1>13. CASE BuildParents \/ SerializeDir \/ DirFails
  BY <1>1, <1>13 DEF BuildParents, SerializeDir, DirFails
<1>14. CASE DirsSkipFile \/ DirsDone
  BY <1>2, <1>14 DEF DirsSkipFile, DirsDone
<1>15. CASE Assemble
  BY <1>15 DEF Assemble, Leave
<1> QED
  BY <1>3, <1>4, <1>5, <1>6, <1>7, <1>8, <1>9, <1>10, <1>11, <1>12, <1>13, <1>14,
     <1>15 DEF Main

LEMMA InitPool == Init => PoolInv
<1> SUFFICES ASSUME Init PROVE PoolInv
  OBVIOUS
<1>1. TypeOK
  BY InitTyped
<1>2. NumWorkers(call) \in Nat /\ FileCount(call) \in Nat
  BY <1>1, ArgumentTypes DEF TypeOK, MainTypeOK
<1>3. \A s \in Slots(call) : ~Completed(s)
  BY DEF Init, Completed, NoResult
<1>4. PathInv /\ SpawnInv
  BY <1>2 DEF Init, PathInv, SpawnInv, NoWorkerOutlivesPool, PoolPhases, InPoolTail,
     Workers
<1>5. ClaimInv /\ ServedInv /\ QueueInv
  BY <1>2, <1>3 DEF Init, ClaimInv, SlotsHeldOnce, Holds, ServedInv, QueueInv, Slots
<1> QED BY <1>1, <1>4, <1>5 DEF PoolInv

LEMMA QuietKeepsPool ==
  ASSUME PoolInv, TypeOK', QuietStep
  PROVE  PoolInv'
<1> USE DEF QuietStep, PoolInv
<1>1. NumWorkers(call) \in Nat
  BY ArgumentTypes DEF TypeOK, MainTypeOK
<1>2. \A s \in Slots(call) : Completed(s)' <=> Completed(s)
  BY DEF Completed
<1>3. PathInv'
  BY DEF Transition, PathInv, PoolPhases, TailPhases, InPoolTail
<1>4. SpawnInv'
  <2>1. spawned \in 0 .. NumWorkers(call)
    BY DEF TypeOK, MainTypeOK
  <2>2. ASSUME spawned = 0, NEW w \in Workers(call)
        PROVE  wpc[w] = "idle"
    BY <1>1, <2>2 DEF SpawnInv, Workers
  <2>3. ASSUME AllExited, NEW w \in Workers(call)
        PROVE  wpc[w] \in {"idle", "exited"}
    BY <1>1, <2>1, <2>3 DEF AllExited, SpawnInv, Workers
  <2>4. NoWorkerOutlivesPool'
    BY <2>2, <2>3 DEF Transition, PathInv, SpawnInv, NoWorkerOutlivesPool,
       TailPhases, InPoolTail
  <2> QED BY <2>4 DEF SpawnInv
<1>5. ClaimInv'
  BY <1>2 DEF ClaimInv, SlotsHeldOnce, Holds, TypeOK, PoolTypeOK
<1>6. ServedInv'
  BY <1>2 DEF Transition, ServedInv, TailPhases
<1>7. QueueInv'
  BY DEF Transition, QueueInv, TailPhases
<1> QED BY <1>3, <1>4, <1>5, <1>6, <1>7

LEMMA SpawnKeepsPool ==
  ASSUME PoolInv, TypeOK', SpawnWorker \/ SpawnFails
  PROVE  PoolInv'
<1> USE DEF argVars, builtVars, poolVars, heapVars, progressVars
<1>1. /\ NumWorkers(call) \in Nat /\ FileCount(call) \in Nat
      /\ spawned \in Nat /\ nextSlot \in Nat
      /\ call' = call /\ results' = results /\ wslot' = wslot
      /\ UsesPool(call) /\ pc = "spawn" /\ pc' \in {"spawn", "poll", "drain"}
  BY ArgumentTypes
     DEF PoolInv, TypeOK, MainTypeOK, PoolTypeOK, SpawnWorker, SpawnFails, PathInv,
         PoolPhases
<1>2. \A s : Completed(s)' <=> Completed(s)
  BY <1>1 DEF Completed
<1>3. PathInv'
  BY <1>1 DEF PathInv, PoolPhases, InPoolTail, SpawnWorker, SpawnFails
<1>4. \A w \in Workers(call) : /\ Holds(w)' <=> Holds(w)
                               /\ wpc'[w] = "serialize" <=> wpc[w] = "serialize"
                               /\ wpc'[w] = "exited" <=> wpc[w] = "exited"
  BY <1>1 DEF SpawnWorker, SpawnFails, PoolInv, SpawnInv, TypeOK, PoolTypeOK, Holds,
     Workers
<1>5. nextSlot' \in Nat /\ nextSlot' >= nextSlot
  BY <1>1 DEF SpawnWorker, SpawnFails, QueueExhausted
<1>6. SpawnInv'
  <2>1. \A w \in Workers(call) : wpc'[w] = "idle" <=> w > spawned'
    BY <1>1 DEF SpawnWorker, SpawnFails, PoolInv, SpawnInv, TypeOK, PoolTypeOK,
       Workers
  <2> QED BY <1>1, <2>1 DEF SpawnInv, NoWorkerOutlivesPool, InPoolTail
<1>7. ClaimInv'
  <2>1. SlotsHeldOnce'
    BY <1>1, <1>2, <1>4 DEF PoolInv, ClaimInv, SlotsHeldOnce
  <2>2. \A w \in Workers(call) : Holds(w)' => wslot[w] < nextSlot'
    BY <1>1, <1>4, <1>5 DEF PoolInv, ClaimInv, TypeOK, PoolTypeOK
  <2>3. \A s \in Slots(call) : Completed(s) => s < nextSlot'
    BY <1>1, <1>5 DEF PoolInv, ClaimInv, Slots
  <2> QED BY <1>1, <1>2, <2>1, <2>2, <2>3 DEF ClaimInv
<1>8. ServedInv'
  <2>1. CASE SpawnWorker
    BY <1>1, <1>2, <1>4, <2>1 DEF SpawnWorker, PoolInv, ServedInv
  <2>2. CASE SpawnFails
    BY <2>2 DEF SpawnFails, ServedInv
  <2> QED BY <2>1, <2>2
<1>9. QueueInv'
  BY <1>1, <1>4, <1>5 DEF PoolInv, QueueInv, SpawnWorker, SpawnFails, QueueExhausted
<1> QED BY <1>3, <1>6, <1>7, <1>8, <1>9 DEF PoolInv

-----------------------------------------------------------------------------
(* Steps of a worker.                                                      *)

(* What every step of worker w leaves alone, and that main is in the pool. *)
LEMMA WorkerFrame ==
  ASSUME PoolInv, NEW w \in Workers(call), Worker(w)
  PROVE  /\ UNCHANGED <<call, pc, spawned, parallelToFree>>
         /\ pc \notin TailPhases \cup {"returned"}
         /\ wpc[w] \notin {"idle", "exited"} /\ wpc'[w] # "idle"
         /\ \A v \in Workers(call) : v # w => wpc'[v] = wpc[v] /\ wslot'[v] = wslot[v]
<1> USE DEF argVars, mainVars, builtVars, progressVars
<1>1. UNCHANGED <<call, pc, spawned, parallelToFree>>
  BY DEF Worker, ClaimSlot, SerializeSlot, SerializeFails, CountFile, CountBytes,
     MainWaits
<1>2. /\ wpc[w] \notin {"idle", "exited"} /\ wpc'[w] # "idle"
      /\ \A v \in Workers(call) : v # w => wpc'[v] = wpc[v] /\ wslot'[v] = wslot[v]
  BY DEF PoolInv, TypeOK, PoolTypeOK, Worker, ClaimSlot, SerializeSlot,
     SerializeFails, AfterErrorCount, CountFile, CountBytes
<1>3. pc \notin TailPhases \cup {"returned"}
  <2>1. ~InPoolTail /\ pc # "returned"
    BY <1>2 DEF PoolInv, SpawnInv, NoWorkerOutlivesPool
  <2>2. ASSUME ~UsesPool(call)
        PROVE  FALSE
    <3>1. spawned = 0 /\ (wpc[w] = "idle" <=> w > spawned)
      BY <2>2 DEF PoolInv, PathInv, SpawnInv
    <3> QED BY <1>2, <2>2, <3>1, ArgumentTypes
            DEF PoolInv, PathInv, SpawnInv, TypeOK, MainTypeOK, Workers
  <2> QED BY <2>1, <2>2 DEF InPoolTail, TailPhases
<1> QED BY <1>1, <1>2, <1>3

(* What a step of worker w does to main's part of the invariant.           *)
LEMMA WorkerKeepsPathAndSpawn ==
  ASSUME PoolInv, NEW w \in Workers(call), Worker(w)
  PROVE  PathInv' /\ SpawnInv'
<1>1. PathInv'
  BY WorkerFrame DEF PoolInv, PathInv, InPoolTail, TailPhases
<1>2. SpawnInv'
  BY WorkerFrame
     DEF PoolInv, SpawnInv, NoWorkerOutlivesPool, InPoolTail, TailPhases
<1> QED BY <1>1, <1>2

LEMMA ClaimKeepsPool ==
  ASSUME PoolInv, TypeOK', NEW w \in Workers(call), ClaimSlot(w)
  PROVE  PoolInv'
<1>1. /\ call' = call /\ pc' = pc /\ results' = results
      /\ \A v \in Workers(call) : v # w => wpc'[v] = wpc[v] /\ wslot'[v] = wslot[v]
      /\ wpc[w] = "claim" /\ wslot'[w] = nextSlot /\ nextSlot' = nextSlot + 1
      /\ wpc'[w] = IF nextSlot < FileCount(call) THEN "serialize" ELSE "exited"
  BY WorkerFrame DEF Worker, ClaimSlot, CursorAdvanced, SlotInRange, PoolInv, TypeOK,
     PoolTypeOK
<1>2. /\ nextSlot \in Nat /\ FileCount(call) \in Nat
      /\ \A v \in Workers(call) : wslot[v] \in Nat
      /\ \A v \in Workers(call) : Holds(v) => wslot[v] \in Slots(call)
  BY ArgumentTypes DEF PoolInv, TypeOK, MainTypeOK, PoolTypeOK
<1>3. \A s : Completed(s)' <=> Completed(s)
  BY <1>1 DEF Completed
<1>4. /\ ~Holds(w) /\ (Holds(w)' => nextSlot \in Slots(call))
      /\ \A v \in Workers(call) : v # w => (Holds(v)' <=> Holds(v))
  BY <1>1, <1>2 DEF Holds, Slots
<1>5. ClaimInv'
  <2>1. \A v \in Workers(call) : Holds(v)' => wslot'[v] < nextSlot'
    BY <1>1, <1>2, <1>4 DEF PoolInv, ClaimInv
  <2>2. \A v1, v2 \in Workers(call) :
          v1 # v2 /\ Holds(v1)' /\ Holds(v2)' => wslot'[v1] # wslot'[v2]
    BY <1>1, <1>2, <1>4 DEF PoolInv, ClaimInv, SlotsHeldOnce
  <2>3. \A v \in Workers(call) : wpc'[v] = "serialize" => ~Completed(wslot'[v])
    <3>1. ASSUME wpc'[w] = "serialize"
          PROVE  ~Completed(nextSlot)
      BY <1>1, <1>2, <3>1 DEF PoolInv, ClaimInv, Slots
    <3> QED BY <1>1, <3>1 DEF PoolInv, ClaimInv, SlotsHeldOnce
  <2>4. \A s \in Slots(call) : Completed(s) => s < nextSlot'
    BY <1>1, <1>2 DEF PoolInv, ClaimInv, Slots
  <2> QED BY <1>1, <1>3, <2>1, <2>2, <2>3, <2>4 DEF ClaimInv, SlotsHeldOnce
<1>6. ServedInv'
  <2>1. ASSUME pc \notin {"drain", "returned"}, NEW s \in Slots(call), s < nextSlot'
        PROVE  \/ Completed(s)
               \/ \E v \in Workers(call) : wpc'[v] = "serialize" /\ wslot'[v] = s
    <3>1. CASE s = nextSlot
      BY <1>1, <1>2, <3>1 DEF Slots
    <3>2. CASE s < nextSlot
      BY <1>1, <2>1, <3>2 DEF PoolInv, ServedInv
    <3> QED BY <1>1, <1>2, <2>1, <3>1, <3>2 DEF Slots
  <2> QED BY <1>1, <1>3, <2>1 DEF ServedInv
<1>7. QueueInv'
  BY <1>1, <1>2 DEF PoolInv, QueueInv
<1> QED BY <1>5, <1>6, <1>7, WorkerKeepsPathAndSpawn DEF PoolInv, Worker

LEMMA SerializeKeepsPool ==
  ASSUME PoolInv, TypeOK', NEW w \in Workers(call),
         SerializeSlot(w) \/ SerializeFails(w)
  PROVE  PoolInv'
<1>1. /\ call' = call /\ pc' = pc /\ nextSlot' = nextSlot /\ wslot' = wslot
      /\ \A v \in Workers(call) : v # w => wpc'[v] = wpc[v]
      /\ wpc[w] = "serialize" /\ wpc'[w] = "countFile"
  BY WorkerFrame DEF Worker, SerializeSlot, SerializeFails, AfterErrorCount, PoolInv,
     TypeOK, PoolTypeOK
<1>2. /\ \A v \in Workers(call) : Holds(v) => wslot[v] \in Slots(call)
      /\ DOMAIN results = Slots(call)
      /\ \A s \in Slots(call) : DOMAIN results[s] = {"bytes", "hash", "owned", "err"}
  BY DEF PoolInv, TypeOK, PoolTypeOK, ResultsTypeOK
<1>3. wslot[w] \in Slots(call)
  BY <1>1, <1>2 DEF Holds
<1>4. /\ Completed(wslot[w])'
      /\ \A s \in Slots(call) : s # wslot[w] => (Completed(s)' <=> Completed(s))
  <2>1. CASE SerializeSlot(w)
    BY <1>1, <1>2, <1>3, <2>1 DEF SerializeSlot, Completed, FileContainer, Empty
  <2>2. CASE SerializeFails(w)
    BY <1>1, <1>2, <1>3, <2>2, ErrorsTyped DEF SerializeFails, ErrorRecorded, Completed
  <2> QED BY <2>1, <2>2
<1>5. \A v \in Workers(call) : Holds(v)' <=> Holds(v)
  BY <1>1 DEF Holds
<1>6. ClaimInv'
  <2>1. \A v \in Workers(call) : wpc'[v] = "serialize" => ~Completed(wslot[v])'
    <3>1. ASSUME NEW v \in Workers(call), wpc'[v] = "serialize"
          PROVE  /\ wslot[v] \in Slots(call) /\ wslot[v] # wslot[w]
                 /\ ~Completed(wslot[v])
      BY <1>1, <1>2, <3>1 DEF PoolInv, ClaimInv, SlotsHeldOnce, Holds
    <3> QED BY <1>1, <1>4, <3>1
  <2>2. \A s \in Slots(call) : Completed(s)' => s < nextSlot
    <3>1. wslot[w] < nextSlot
      BY <1>1 DEF PoolInv, ClaimInv, Holds
    <3> QED BY <1>4, <3>1 DEF PoolInv, ClaimInv
  <2> QED BY <1>1, <1>5, <2>1, <2>2 DEF PoolInv, ClaimInv, SlotsHeldOnce
<1>7. ServedInv'
  BY <1>1, <1>3, <1>4 DEF PoolInv, ServedInv
<1>8. QueueInv'
  BY <1>1 DEF PoolInv, QueueInv
<1> QED BY <1>6, <1>7, <1>8, WorkerKeepsPathAndSpawn DEF PoolInv, Worker

LEMMA CountKeepsPool ==
  ASSUME PoolInv, TypeOK', NEW w \in Workers(call), CountFile(w) \/ CountBytes(w)
  PROVE  PoolInv'
<1>1. /\ call' = call /\ pc' = pc /\ nextSlot' = nextSlot /\ wslot' = wslot
      /\ results' = results
      /\ \A v \in Workers(call) : v # w => wpc'[v] = wpc[v]
      /\ Holds(w) /\ wpc[w] # "serialize" /\ wpc'[w] \in {"countBytes", "claim"}
  BY WorkerFrame DEF Worker, CountFile, CountBytes, PoolInv, TypeOK, PoolTypeOK, Holds
<1>2. \A s : Completed(s)' <=> Completed(s)
  BY <1>1 DEF Completed
<1>3. \A v \in Workers(call) : Holds(v)' => Holds(v)
  BY <1>1 DEF Holds
<1>4. ClaimInv'
  BY <1>1, <1>2, <1>3 DEF PoolInv, ClaimInv, SlotsHeldOnce
<1>5. ServedInv'
  BY <1>1, <1>2 DEF PoolInv, ServedInv
<1>6. QueueInv'
  BY <1>1 DEF PoolInv, QueueInv
<1> QED BY <1>4, <1>5, <1>6, WorkerKeepsPathAndSpawn DEF PoolInv, Worker

LEMMA PoolStep == PoolInv /\ [Next]_vars => PoolInv'
<1> SUFFICES ASSUME PoolInv, [Next]_vars PROVE PoolInv'
  OBVIOUS
<1>1. TypeOK'
  BY StepTyped DEF PoolInv
<1>2. CASE Main
  BY <1>1, <1>2, MainQuiet, QuietKeepsPool, SpawnKeepsPool DEF PoolInv
<1>3. CASE \E w \in Workers(call) : Worker(w)
  BY <1>1, <1>3, ClaimKeepsPool, SerializeKeepsPool, CountKeepsPool DEF Worker
<1>4. CASE UNCHANGED vars
  <2> USE DEF vars, argVars, mainVars, builtVars, progressVars, poolVars, heapVars
  <2>1. UNCHANGED <<call, pc, spawned, nextSlot, results, wpc, wslot>>
    BY <1>4
  <2>2. PathInv' /\ SpawnInv'
    BY <2>1 DEF PoolInv, PathInv, SpawnInv, NoWorkerOutlivesPool, InPoolTail
  <2>3. ClaimInv' /\ ServedInv' /\ QueueInv'
    BY <2>1 DEF PoolInv, ClaimInv, SlotsHeldOnce, Holds, Completed, ServedInv, QueueInv
  <2> QED BY <1>1, <2>2, <2>3 DEF PoolInv
<1> QED BY <1>2, <1>3, <1>4 DEF Next, Finished

LEMMA PoolInvariant == Spec => []PoolInv
BY InitPool, PoolStep, PTL DEF Spec

-----------------------------------------------------------------------------
(* What follows from the invariant of the pool.                            *)

(* Two workers never hold the same slot, and a slot a worker is about to   *)
(* serialize has no result: file_results needs no lock, for any number of  *)
(* threads and files (the claim by next.fetchAdd in worker_fn).            *)
THEOREM SlotsHeldOnceCorrect == Spec => []SlotsHeldOnce
<1>1. PoolInv => SlotsHeldOnce
  BY DEF PoolInv, ClaimInv
<1> QED BY <1>1, PoolInvariant, PTL

(* No worker runs while main reads the results, nor after the return, also *)
(* when a spawn has failed.                                                *)
THEOREM NoWorkerOutlivesPoolCorrect == Spec => []NoWorkerOutlivesPool
<1>1. PoolInv => NoWorkerOutlivesPool
  BY DEF PoolInv, SpawnInv
<1> QED BY <1>1, PoolInvariant, PTL

LEMMA CollectSeesAll == PoolInv => CollectSeesEverySlot
<1>1. ASSUME PoolInv, InPoolTail
      PROVE  \A s \in Slots(call) : Completed(s)
  <2>1. /\ call \in Calls /\ UsesPool(call) /\ spawned = NumWorkers(call)
        /\ \A w \in Workers(call) : wpc[w] \in {"idle", "exited"}
        /\ FileCount(call) \in Nat /\ NumWorkers(call) \in Nat /\ nextSlot \in Nat
        /\ pc \notin {"drain", "returned"}
    BY <1>1, ArgumentTypes
       DEF PoolInv, PathInv, SpawnInv, NoWorkerOutlivesPool, InPoolTail, TypeOK,
           MainTypeOK, PoolTypeOK
  <2>2. 1 \in Workers(call)
    BY <2>1, ArgumentTypes DEF UsesPool, NumWorkers, Workers
  <2>3. wpc[1] = "exited"
    BY <1>1, <2>1, <2>2 DEF PoolInv, SpawnInv, Workers
  <2>4. nextSlot >= FileCount(call)
    BY <1>1, <2>2, <2>3 DEF PoolInv, QueueInv
  <2>5. \A s \in Slots(call) : s < nextSlot
    BY <2>1, <2>4 DEF Slots
  <2> QED BY <1>1, <2>1, <2>5 DEF PoolInv, ServedInv
<1> QED BY <1>1 DEF CollectSeesEverySlot

(* After the join every file has a result: no claimed slot is lost,        *)
(* whatever errors occurred on the way.                                    *)
THEOREM CollectSeesEverySlotCorrect == Spec => []CollectSeesEverySlot
BY CollectSeesAll, PoolInvariant, PTL

(* After a failed spawn no worker takes another file: the main thread      *)
(* waits for at most one file per worker before it returns.                *)
THEOREM NoClaimAfterSpawnFailureCorrect == Spec => NoClaimAfterSpawnFailure
<1> DEFINE NoClaim == pc = "drain" => \A w \in Workers(call) :
                        ~(wpc[w] = "claim" /\ wpc'[w] = "serialize")
<1>1. PoolInv /\ [Next]_vars => [NoClaim]_vars
  <2> SUFFICES ASSUME PoolInv, Next, pc = "drain", NEW w \in Workers(call),
                      wpc[w] = "claim", wpc'[w] = "serialize"
               PROVE  FALSE
    BY DEF vars
  <2>1. CASE Main
    BY <2>1, MainQuiet DEF QuietStep, SpawnWorker, SpawnFails, PoolInv
  <2>2. ASSUME NEW v \in Workers(call), Worker(v)
        PROVE  FALSE
    <3>1. v = w
      BY <2>2, WorkerFrame
    <3>2. ClaimSlot(w)
      BY <2>2, <3>1 DEF Worker, SerializeSlot, SerializeFails, CountFile, CountBytes
    <3>3. nextSlot < FileCount(call)
      BY <3>2 DEF ClaimSlot, SlotInRange, PoolInv, TypeOK, PoolTypeOK
    <3> QED BY <3>3, ArgumentTypes
            DEF PoolInv, QueueInv, TypeOK, MainTypeOK, PoolTypeOK
  <2> QED BY <2>1, <2>2 DEF Next, Finished, vars, poolVars
<1> QED BY <1>1, PoolInvariant, PTL DEF Spec, NoClaimAfterSpawnFailure
-----------------------------------------------------------------------------
(* The inductive invariant of the buffers.                                 *)

Collected(s) ==
  (pc = "collect" /\ s < pos) \/ pc \in {"parents", "dirs", "assemble"}

(* Main's index is at the first slot until it collects; buffers are in     *)
(* parallel_to_free only while main collects and builds.                   *)
CollectInv ==
  /\ pc \in PoolPhases \ {"collect"} => pos = 0
  /\ pc \notin TailPhases => parallelToFree = {}
  /\ pc # "returned" => outcome.status = "running"

(* On the pool path a good result owns all its buffers until it is         *)
(* collected; from then on parallel_to_free does.                          *)
TransferInv ==
  pc # "returned" /\ UsesPool(call) =>
    \A s \in Slots(call) :
      IF Collected(s)
      THEN /\ results[s].err = NoError /\ results[s].owned = {}
           /\ SlotBuffers(s) \subseteq parallelToFree
      ELSE results[s].bytes # Empty /\ results[s].err = NoError =>
             results[s].owned = SlotBuffers(s)

(* Every live buffer of a slot without error has an owner; without the     *)
(* pool there are no such buffers.                                         *)
LiveInv ==
  /\ ~UsesPool(call) => pages = {}
  /\ pc # "returned" =>
       \A s \in Slots(call) : results[s].err = NoError =>
         pages \cap SlotBuffers(s) \subseteq results[s].owned \cup parallelToFree

HeapInv ==
  /\ CollectInv /\ TransferInv /\ LiveInv
  /\ BuffersOwnedOnce /\ SuccessReleasesBuffers

LEMMA InitHeap == Init => HeapInv
<1> SUFFICES ASSUME Init PROVE HeapInv
  OBVIOUS
<1>1. CollectInv /\ LiveInv
  BY DEF Init, CollectInv, LiveInv
<1>2. TransferInv
  BY DEF Init, TransferInv, Collected, NoResult
<1>3. BuffersOwnedOnce /\ SuccessReleasesBuffers
  BY DEF Init, BuffersOwnedOnce, SuccessReleasesBuffers, NoResult
<1> QED BY <1>1, <1>2, <1>3 DEF HeapInv

-----------------------------------------------------------------------------
(* Steps that touch neither results nor buffers.                           *)

LEMMA StillKeepsHeap ==
  ASSUME HeapInv, UNCHANGED <<call, outcome, results, pages, parallelToFree>>,
         pc = "returned" <=> pc' = "returned",
         pc \in TailPhases => pc' \in TailPhases,
         pc' \in PoolPhases \ {"collect"} => pos' = 0,
         UsesPool(call) => \A s \in Slots(call) : Collected(s)' <=> Collected(s)
  PROVE  HeapInv'
<1>1. CollectInv'
  BY DEF HeapInv, CollectInv
<1>2. TransferInv'
  BY DEF HeapInv, TransferInv
<1>3. LiveInv' /\ BuffersOwnedOnce' /\ SuccessReleasesBuffers'
  BY DEF HeapInv, LiveInv, BuffersOwnedOnce, SuccessReleasesBuffers
<1> QED BY <1>1, <1>2, <1>3 DEF HeapInv

(* Steps of the pool's phases, before main collects.                       *)
LEMMA BeforeCollectKeepsHeap ==
  ASSUME PoolInv, HeapInv,
         Begin \/ SpawnWorker \/ SpawnFails \/ PollTest \/ PollLoadFiles
           \/ PollCallback \/ JoinWorkers
  PROVE  HeapInv'
<1> USE DEF argVars, builtVars, poolVars, heapVars, progressVars, ControlOnly
<1>1. /\ UNCHANGED <<call, outcome, results, pages, parallelToFree>>
      /\ pc \in {"begin", "spawn", "poll", "loadFiles", "callback", "join"}
      /\ pc' \in {"spawn", "sequential", "drain", "poll", "loadFiles", "callback",
                  "join", "collect"}
      /\ pc' = "sequential" \/ pos' = 0
      /\ pc' = "sequential" => ~UsesPool(call)
  BY DEF Begin, SpawnWorker, SpawnFails, PollTest, PollLoadFiles, PollCallback,
     JoinWorkers, HeapInv, CollectInv, PoolPhases
<1>2. \A s \in Slots(call) : ~(s < 0)
  BY ArgumentTypes DEF PoolInv, TypeOK, MainTypeOK, Slots
<1>3. \A s \in Slots(call) : ~Collected(s) /\ ~Collected(s)'
  BY <1>1, <1>2 DEF Collected
<1> QED BY <1>1, <1>3, StillKeepsHeap DEF PoolPhases, TailPhases

(* Steps of the sequential path.                                           *)
LEMMA SequentialKeepsHeap ==
  ASSUME PoolInv, HeapInv,
         SequentialSerialize \/ SequentialRecord \/ SequentialSkipsDir
           \/ SequentialDone
  PROVE  HeapInv'
<1> USE DEF argVars, builtVars, poolVars, heapVars, progressVars, ControlOnly
<1>1. /\ UNCHANGED <<call, outcome, results, pages, parallelToFree>>
      /\ pc \in {"sequential", "record"}
      /\ pc' \in {"sequential", "record", "parents"}
      /\ ~UsesPool(call)
  BY DEF SequentialSerialize, SequentialRecord, SequentialSkipsDir, SequentialDone,
     PoolInv, PathInv
<1> QED BY <1>1, StillKeepsHeap DEF PoolPhases, TailPhases

(* Steps after the last slot has been collected.                           *)
LEMMA AfterCollectKeepsHeap ==
  ASSUME PoolInv, HeapInv,
         CollectDone \/ BuildParents \/ SerializeDir \/ DirsSkipFile \/ DirsDone
  PROVE  HeapInv'
<1> USE DEF argVars, builtVars, poolVars, heapVars, progressVars, ControlOnly
<1>1. /\ UNCHANGED <<call, outcome, results, pages, parallelToFree>>
      /\ \/ pc = "collect" /\ pos = FileCount(call)
         \/ pc \in {"parents", "dirs"}
      /\ pc' \in {"parents", "dirs", "assemble"}
  BY DEF CollectDone, BuildParents, SerializeDir, DirsSkipFile, DirsDone
<1>2. \A s \in Slots(call) : s < FileCount(call)
  BY ArgumentTypes DEF PoolInv, TypeOK, MainTypeOK, Slots
<1>3. \A s \in Slots(call) : Collected(s) /\ Collected(s)'
  BY <1>1, <1>2 DEF Collected
<1> QED BY <1>1, <1>3, StillKeepsHeap DEF PoolPhases, TailPhases

-----------------------------------------------------------------------------
(* Steps that return.                                                      *)

LEMMA ErrorKeepsHeap ==
  ASSUME HeapInv, call' = call, pc' = "returned", parallelToFree' = {},
         outcome'.status = "error", ~UsesPool(call) => pages' = {}
  PROVE  HeapInv'
BY DEF HeapInv, CollectInv, TransferInv, LiveInv, BuffersOwnedOnce,
   SuccessReleasesBuffers, PoolPhases, TailPhases

LEMMA FailKeepsHeap ==
  ASSUME HeapInv, NEW e, FailWith(e)
  PROVE  HeapInv'
<1>1. /\ call' = call /\ pc' = "returned" /\ parallelToFree' = {}
      /\ outcome'.status = "error" /\ pages' \subseteq pages
  BY DEF FailWith, Leave
<1> QED BY <1>1, ErrorKeepsHeap DEF HeapInv, LiveInv

LEMMA CollectErrorKeepsHeap ==
  ASSUME PoolInv, HeapInv, CollectError \/ CollectFails
  PROVE  HeapInv'
<1>1. /\ call' = call /\ pc' = "returned" /\ parallelToFree' = {}
      /\ outcome'.status = "error" /\ pc = "collect"
  BY DEF CollectError, CollectFails, Leave
<1>2. UsesPool(call)
  BY <1>1 DEF PoolInv, PathInv, PoolPhases
<1> QED BY <1>1, <1>2, ErrorKeepsHeap

LEMMA AssembleKeepsHeap ==
  ASSUME PoolInv, HeapInv, Assemble
  PROVE  HeapInv'
<1>1. /\ call' = call /\ pc = "assemble" /\ pc' = "returned"
      /\ parallelToFree' = {} /\ pages' = pages \ parallelToFree
  BY DEF Assemble, Leave
<1>2. pages' = {}
  <2>1. CASE ~UsesPool(call)
    BY <1>1, <2>1 DEF HeapInv, LiveInv
  <2>2. CASE UsesPool(call)
    <3>1. \A s \in Slots(call) : results[s].err = NoError /\ results[s].owned = {}
      BY <1>1, <2>2 DEF HeapInv, TransferInv, Collected
    <3>2. \A s \in Slots(call) : pages \cap SlotBuffers(s) \subseteq parallelToFree
      BY <1>1, <3>1 DEF HeapInv, LiveInv
    <3> QED BY <1>1, <3>2 DEF PoolInv, TypeOK, HeapTypeOK, AllBuffers
  <2> QED BY <2>1, <2>2
<1> QED BY <1>1, <1>2 DEF HeapInv, CollectInv, TransferInv, LiveInv, BuffersOwnedOnce,
        SuccessReleasesBuffers, PoolPhases, TailPhases

-----------------------------------------------------------------------------
(* Steps that move or allocate buffers.                                    *)

(* Buffers of different slots are different.                               *)
LEMMA SlotBuffersDisjoint ==
  ASSUME NEW s, NEW t, s # t
  PROVE  SlotBuffers(s) \cap SlotBuffers(t) = {}
BY DEF SlotBuffers

LEMMA CollectSlotKeepsHeap ==
  ASSUME PoolInv, HeapInv, CollectSlot
  PROVE  HeapInv'
<1> USE DEF argVars, mainVars, builtVars, progressVars
<1>1. /\ UNCHANGED <<call, outcome, pc, pages>>
      /\ pc = "collect" /\ results[pos].err = NoError /\ pos' = pos + 1
      /\ parallelToFree' = parallelToFree \cup results[pos].owned
      /\ results' = [results EXCEPT ![pos].owned = {}]
  BY DEF CollectSlot, Moved, OwnedAfterTransfer
<1>2. /\ UsesPool(call) /\ pos \in Slots(call)
      /\ DOMAIN results = Slots(call)
      /\ \A s \in Slots(call) : s \in Int
  BY <1>1, ArgumentTypes DEF CollectSlot, PoolInv, PathInv, PoolPhases, TypeOK,
     MainTypeOK, ResultsTypeOK, Slots
<1>3. results[pos].bytes # Empty
  <2>1. Completed(pos)
    BY <1>1, <1>2, CollectSeesAll DEF CollectSeesEverySlot, InPoolTail
  <2> QED BY <1>1, <2>1 DEF Completed
<1>4. results[pos].owned = SlotBuffers(pos)
  BY <1>1, <1>2, <1>3 DEF HeapInv, TransferInv, Collected
<1>5. /\ results'[pos].owned = {}
      /\ \A s \in Slots(call) : s # pos => results'[s] = results[s]
      /\ \A s \in Slots(call) : /\ results'[s].err = results[s].err
                                /\ results'[s].bytes = results[s].bytes
  BY <1>1, <1>2 DEF PoolInv, TypeOK, ResultsTypeOK
<1>6. \A s \in Slots(call) : Collected(s)' <=> Collected(s) \/ s = pos
  BY <1>1, <1>2 DEF Collected
<1>7. CollectInv'
  BY <1>1 DEF HeapInv, CollectInv, TailPhases
<1>8. TransferInv'
  BY <1>1, <1>2, <1>4, <1>5, <1>6 DEF HeapInv, TransferInv
<1>9. LiveInv'
  <2>1. ASSUME NEW s \in Slots(call), results[s].err = NoError
        PROVE  pages \cap SlotBuffers(s) \subseteq results'[s].owned \cup parallelToFree'
    <3>1. pages \cap SlotBuffers(s) \subseteq results[s].owned \cup parallelToFree
      BY <1>1, <2>1 DEF HeapInv, LiveInv
    <3> QED BY <1>1, <1>5, <3>1
  <2> QED BY <1>1, <1>2, <1>5, <2>1 DEF LiveInv
<1>10. BuffersOwnedOnce'
  <2>1. parallelToFree' \subseteq pages
    BY <1>1, <1>2 DEF HeapInv, BuffersOwnedOnce
  <2>2. ASSUME NEW s \in Slots(call)
        PROVE  /\ results'[s].owned \subseteq pages
               /\ results'[s].owned \cap parallelToFree' = {}
    <3>1. CASE s = pos
      BY <1>5, <3>1
    <3>2. CASE s # pos
      <4>1. /\ results'[s].owned = results[s].owned
            /\ results[s].owned \subseteq SlotBuffers(s)
            /\ results[s].owned \subseteq pages
            /\ results[s].owned \cap parallelToFree = {}
        BY <1>1, <1>5, <3>2
           DEF HeapInv, BuffersOwnedOnce, PoolInv, TypeOK, ResultsTypeOK
      <4>2. results[s].owned \cap SlotBuffers(pos) = {}
        BY <3>2, <4>1, SlotBuffersDisjoint
      <4> QED BY <1>1, <1>4, <4>1, <4>2
    <3> QED BY <3>1, <3>2
  <2> QED BY <1>1, <2>1, <2>2 DEF BuffersOwnedOnce
<1>11. SuccessReleasesBuffers'
  BY <1>1 DEF HeapInv, CollectInv, SuccessReleasesBuffers
<1> QED BY <1>7, <1>8, <1>9, <1>10, <1>11 DEF HeapInv

(* While a worker runs main has collected nothing.                         *)
LEMMA WorkerBeforeCollect ==
  ASSUME PoolInv, HeapInv, NEW w \in Workers(call), Worker(w)
  PROVE  /\ UNCHANGED <<call, outcome, pc, pos>> /\ pc # "returned"
         /\ UsesPool(call) /\ parallelToFree = {} /\ parallelToFree' = {}
         /\ \A s \in Slots(call) : ~Collected(s) /\ ~Collected(s)'
<1> USE DEF argVars, mainVars, builtVars, progressVars
<1>1. /\ UNCHANGED <<call, outcome, pc, pos, parallelToFree>>
      /\ pc \notin TailPhases \cup {"returned"}
      /\ wpc[w] # "idle"
  BY WorkerFrame DEF Worker, ClaimSlot, SerializeSlot, SerializeFails, CountFile,
     CountBytes, MainWaits
<1>2. UsesPool(call)
  <2>1. spawned # 0
    BY <1>1, ArgumentTypes DEF PoolInv, SpawnInv, TypeOK, MainTypeOK, Workers
  <2> QED BY <2>1 DEF PoolInv, PathInv
<1>3. \A s \in Slots(call) : ~Collected(s) /\ ~Collected(s)'
  BY <1>1 DEF Collected, TailPhases
<1> QED BY <1>1, <1>2, <1>3 DEF HeapInv, CollectInv

LEMMA SerializeKeepsHeap ==
  ASSUME PoolInv, HeapInv, NEW w \in Workers(call),
         SerializeSlot(w) \/ SerializeFails(w)
  PROVE  HeapInv'
<1>1. /\ UNCHANGED <<call, outcome, pc, pos>> /\ pc # "returned"
      /\ UsesPool(call) /\ parallelToFree = {} /\ parallelToFree' = {}
      /\ \A s \in Slots(call) : ~Collected(s) /\ ~Collected(s)'
  BY WorkerBeforeCollect DEF Worker
<1>2. /\ wslot[w] \in Slots(call) /\ DOMAIN results = Slots(call)
      /\ \A s \in Slots(call) : DOMAIN results[s] = {"bytes", "hash", "owned", "err"}
  BY DEF SerializeSlot, SerializeFails, PoolInv, TypeOK, PoolTypeOK, ResultsTypeOK, Holds
<1>3. /\ pages \subseteq pages'
      /\ \A s \in Slots(call) : s # wslot[w] =>
           results'[s] = results[s] /\ pages' \cap SlotBuffers(s) = pages \cap SlotBuffers(s)
  <2>1. CASE SerializeSlot(w)
    BY <1>2, <2>1, SlotBuffersDisjoint DEF SerializeSlot, BuffersPublished
  <2>2. CASE SerializeFails(w)
    BY <1>2, <2>2 DEF SerializeFails, SlotBuffers
  <2> QED BY <2>1, <2>2
<1>4. /\ results'[wslot[w]].owned \subseteq pages'
      /\ \/ /\ results'[wslot[w]].owned = SlotBuffers(wslot[w])
            /\ results'[wslot[w]].err = NoError
         \/ results'[wslot[w]].err # NoError
  <2>1. CASE SerializeSlot(w)
    BY <1>2, <2>1 DEF SerializeSlot, BuffersPublished
  <2>2. CASE SerializeFails(w)
    <3>1. results[wslot[w]].owned \subseteq pages
      BY <1>1, <1>2 DEF HeapInv, BuffersOwnedOnce
    <3>2. /\ results'[wslot[w]].owned = results[wslot[w]].owned
          /\ results'[wslot[w]].err # NoError
      BY <1>2, <2>2, ErrorsTyped DEF SerializeFails, ErrorRecorded
    <3> QED BY <1>3, <3>1, <3>2
  <2> QED BY <2>1, <2>2
<1>5. CollectInv' /\ SuccessReleasesBuffers'
  BY <1>1 DEF HeapInv, CollectInv, SuccessReleasesBuffers
<1>6. TransferInv'
  BY <1>1, <1>3, <1>4 DEF HeapInv, TransferInv
<1>7. LiveInv'
  <2>1. ASSUME NEW s \in Slots(call), results'[s].err = NoError
        PROVE  pages' \cap SlotBuffers(s) \subseteq results'[s].owned
    <3>1. CASE s = wslot[w]
      BY <1>4, <2>1, <3>1
    <3>2. CASE s # wslot[w]
      BY <1>1, <1>3, <2>1, <3>2 DEF HeapInv, LiveInv
    <3> QED BY <3>1, <3>2
  <2> QED BY <1>1, <2>1 DEF LiveInv
<1>8. BuffersOwnedOnce'
  <2>1. ASSUME NEW s \in Slots(call)
        PROVE  results'[s].owned \subseteq pages'
    BY <1>1, <1>3, <1>4, <2>1 DEF HeapInv, BuffersOwnedOnce
  <2> QED BY <1>1, <2>1 DEF BuffersOwnedOnce
<1> QED BY <1>5, <1>6, <1>7, <1>8 DEF HeapInv

LEMMA QuietWorkerKeepsHeap ==
  ASSUME PoolInv, HeapInv, NEW w \in Workers(call),
         ClaimSlot(w) \/ CountFile(w) \/ CountBytes(w)
  PROVE  HeapInv'
<1>1. /\ UNCHANGED <<call, outcome, pc, pos>> /\ pc # "returned"
      /\ parallelToFree = {} /\ parallelToFree' = {}
      /\ \A s \in Slots(call) : ~Collected(s) /\ ~Collected(s)'
  BY WorkerBeforeCollect DEF Worker
<1>2. UNCHANGED <<results, pages>>
  BY DEF ClaimSlot, CountFile, CountBytes
<1> QED BY <1>1, <1>2, StillKeepsHeap DEF HeapInv, CollectInv

LEMMA HeapStep == PoolInv /\ HeapInv /\ [Next]_vars => HeapInv'
<1> SUFFICES ASSUME PoolInv, HeapInv, [Next]_vars PROVE HeapInv'
  OBVIOUS
<1>1. CASE Main
  <2>1. CASE \E e : FailWith(e)
    BY <2>1, FailKeepsHeap
  <2>2. CASE ~\E e : FailWith(e)
    BY <1>1, <2>2, BeforeCollectKeepsHeap, SequentialKeepsHeap, AfterCollectKeepsHeap,
       CollectErrorKeepsHeap, AssembleKeepsHeap, CollectSlotKeepsHeap
       DEF Main, AllocationFails, OutOfMemoryAt, Drain, SequentialFails, DirFails
  <2> QED BY <2>1, <2>2
<1>2. CASE \E w \in Workers(call) : Worker(w)
  BY <1>2, SerializeKeepsHeap, QuietWorkerKeepsHeap DEF Worker
<1>3. CASE UNCHANGED vars
  <2>1. UNCHANGED <<call, outcome, pc, pos, results, pages, parallelToFree>>
    BY <1>3 DEF vars, argVars, mainVars, poolVars, heapVars
  <2>2. \A s : Collected(s)' <=> Collected(s)
    BY <2>1 DEF Collected
  <2> QED BY <2>1, <2>2, StillKeepsHeap DEF HeapInv, CollectInv
<1> QED BY <1>1, <1>2, <1>3 DEF Next, Finished

LEMMA HeapInvariant == Spec => []HeapInv
BY InitHeap, HeapStep, PoolInvariant, PTL DEF Spec

-----------------------------------------------------------------------------
(* What follows from the invariant of the buffers.                         *)

(* Every buffer has at most one owner and is freed at most once.           *)
THEOREM BuffersOwnedOnceCorrect == Spec => []BuffersOwnedOnce
<1>1. HeapInv => BuffersOwnedOnce
  BY DEF HeapInv
<1> QED BY <1>1, HeapInvariant, PTL

(* The bytes of a collected file are live until the archive is assembled.  *)
THEOREM CollectedBytesLiveCorrect == Spec => []CollectedBytesLive
<1>1. HeapInv => CollectedBytesLive
  BY DEF HeapInv, TransferInv, BuffersOwnedOnce, CollectedBytesLive, Collected
<1> QED BY <1>1, HeapInvariant, PTL

(* A call that succeeds has released every page_allocator buffer.          *)
THEOREM SuccessReleasesBuffersCorrect == Spec => []SuccessReleasesBuffers
<1>1. HeapInv => SuccessReleasesBuffers
  BY DEF HeapInv
<1> QED BY <1>1, HeapInvariant, PTL

-----------------------------------------------------------------------------
(* The inductive invariant of the result.                                  *)

Files == FileIndices(call.entries)
Dirs == DirIndices(call.entries)
PathOf(i) == call.entries[i].path
ContainerOf(i) == FileContainer(call.entries[i], call.comp)

(* Entries whose container is in entry_elements, and whose hash is in      *)
(* file_hashes.                                                            *)
FilesBuilt ==
  {i \in Files :
     \/ pc = "collect" /\ (\E s \in Slots(call) : s < pos /\ EntryIndex(call, s) = i)
     \/ pc = "sequential" /\ i < pos
     \/ pc = "record" /\ i <= pos
     \/ pc \in {"parents", "dirs", "assemble"}}
FilesHashed == {i \in FilesBuilt : pc = "record" => i # pos}
DirsBuilt == {i \in Dirs : pc = "assemble" \/ (pc = "dirs" /\ i < pos)}

(* A result says what serializing its file gives.                          *)
ResultFits(s) ==
  LET file == FileAt(call, s)
  IN  IF results[s].err = NoError
      THEN results[s].bytes # Empty =>
             /\ FileSerializable(file, call.comp)
             /\ results[s].bytes = FileContainer(file, call.comp)
             /\ results[s].hash = Checksum(results[s].bytes)
      ELSE results[s].err \in FileErrors(file, call.comp)
SlotInv == \A s \in Slots(call) : ResultFits(s)

ElementsInv ==
  /\ pc # "returned" => elements = [i \in DOMAIN call.entries |-> elements[i]]
  /\ \A i \in FilesBuilt :
       FileSerializable(call.entries[i], call.comp) /\ elements[i] = ContainerOf(i)
  /\ \A i \in DirsBuilt :
       /\ DirSerializable(call.entries[i])
       /\ elements[i] = DirContainer(call.entries[i], DirHash(call.entries[i]))

HashInv ==
  pc # "returned" =>
    /\ DOMAIN fileHashes = {PathOf(i) : i \in FilesHashed}
    /\ Regular(call) =>
         \A i \in FilesHashed : fileHashes[PathOf(i)] = Checksum(ContainerOf(i))
ParentsInv ==
  pc \in {"dirs", "assemble"} =>
    parentHashes = [parent \in {ParentPath(p) : p \in
                                   {q \in DOMAIN fileHashes : HasParent(q)}} |->
                      HashesUnder(parent)]

OutcomeInv ==
  /\ pc # "returned" => outcome = [status |-> "running"]
  /\ outcome.status = "ok" =>
       /\ Promise!AllSerializable(call)
       /\ Regular(call) => outcome.archive = Promise!Promised(call)
  /\ outcome.status = "error" => outcome.error \in Promise!PossibleErrors(call)

ResultInv == SlotInv /\ ElementsInv /\ HashInv /\ ParentsInv /\ OutcomeInv

-----------------------------------------------------------------------------
(* The abstract specification and the model speak of the same formats.     *)

LEMMA SameFormat ==
  /\ \A f, comp : /\ Promise!FileContainer(f, comp) = FileContainer(f, comp)
                  /\ Promise!FileErrors(f, comp) = FileErrors(f, comp)
                  /\ Promise!FileSerializable(f, comp) <=> FileSerializable(f, comp)
  /\ \A d, xh : Promise!DirContainer(d, xh) = DirContainer(d, xh)
  /\ \A d : /\ Promise!DirErrors(d) = DirErrors(d)
            /\ Promise!DirSerializable(d) <=> DirSerializable(d)
            /\ Promise!IsFile(d) <=> IsFile(d)
  /\ \A e : /\ Promise!FileIndices(e) = FileIndices(e)
            /\ Promise!DirIndices(e) = DirIndices(e)
  /\ \A e, els : Promise!Archive(e, els) = Archive(e, els)
  /\ \A p, q : Promise!isDirectChild(p, q) <=> isDirectChild(p, q)
  /\ \A c : Promise!Checksum(c) = Checksum(c)
  /\ \A h : Promise!computeMerkleHash(h) = computeMerkleHash(h)
  /\ Promise!ZeroHash = ZeroHash
  /\ \A S : Promise!Listed(S) = Listed(S)
<1>0. \A S : Promise!Cardinality(S) = Cardinality(S)
  BY DEF Promise!Cardinality, Cardinality
<1>1. /\ \A e : Promise!ForkKeys(e) = ForkKeys(e)
      /\ \A s : Promise!ToSet(s) = ToSet(s)
      /\ \A keys : Promise!HasDuplicates(keys) <=> HasDuplicates(keys)
      /\ \A f, comp : /\ Promise!Compresses(f, comp) <=> Compresses(f, comp)
                      /\ Promise!Unsupported(f, comp) <=> Unsupported(f, comp)
  BY <1>0 DEF Promise!ForkKeys, ForkKeys, Promise!ToSet, ToSet, Promise!HasDuplicates,
     HasDuplicates, Promise!Compresses, Compresses, Promise!NoComp, NoComp,
     Promise!Unsupported, Unsupported
<1>2. \A f, comp : /\ Promise!FileContainer(f, comp) = FileContainer(f, comp)
                   /\ Promise!FileErrors(f, comp) = FileErrors(f, comp)
                   /\ Promise!FileSerializable(f, comp) <=> FileSerializable(f, comp)
  BY <1>1 DEF Promise!FileContainer, FileContainer, Promise!FileErrors, FileErrors,
     Promise!FileSerializable, FileSerializable, Promise!NoComp, NoComp
<1>3. /\ \A d, xh : Promise!DirContainer(d, xh) = DirContainer(d, xh)
      /\ \A d : /\ Promise!DirErrors(d) = DirErrors(d)
                /\ Promise!DirSerializable(d) <=> DirSerializable(d)
  BY <1>1 DEF Promise!DirContainer, DirContainer, Promise!DirErrors, DirErrors,
     Promise!DirSerializable, DirSerializable
<1>4. /\ \A e : /\ Promise!FileIndices(e) = FileIndices(e)
                /\ Promise!DirIndices(e) = DirIndices(e)
      /\ \A d : Promise!IsFile(d) <=> IsFile(d)
  BY DEF Promise!FileIndices, FileIndices, Promise!DirIndices, DirIndices,
     Promise!IsFile, IsFile, Promise!IsDir, IsDir
<1>5. \A e, els : Promise!Archive(e, els) = Archive(e, els)
  BY <1>4 DEF Promise!Archive, Archive, Promise!Magic, Magic
<1>6. \A p, q : Promise!isDirectChild(p, q) <=> isDirectChild(p, q)
  BY DEF Promise!isDirectChild, isDirectChild, Promise!Front, Front, Promise!Last, Last
<1>7. /\ \A c : Promise!Checksum(c) = Checksum(c)
      /\ \A h : Promise!computeMerkleHash(h) = computeMerkleHash(h)
      /\ Promise!ZeroHash = ZeroHash
  BY DEF Promise!Checksum, Checksum, Promise!computeMerkleHash, computeMerkleHash,
     Promise!ZeroHash, ZeroHash
<1>8. \A S : Promise!Listed(S) = Listed(S)
  BY DEF Promise!Listed, Listed, Promise!Nth, Nth, Promise!Cardinality, Cardinality
<1> QED BY <1>2, <1>3, <1>4, <1>5, <1>6, <1>7, <1>8

(* The archive that is promised, in these terms.                           *)
Children(i) == {j \in Files : isDirectChild(PathOf(i), PathOf(j))}
ChildHashes(i) ==
  [k \in DOMAIN Listed(Children(i)) |-> Checksum(ContainerOf(Listed(Children(i))[k]))]
MerkleOf(i) ==
  IF Children(i) = {} THEN ZeroHash ELSE computeMerkleHash(ChildHashes(i))

LEMMA ChildrenListed ==
  ASSUME call \in Calls, NEW i
  PROVE  /\ \A k \in DOMAIN Listed(Children(i)) : Listed(Children(i))[k] \in Children(i)
         /\ DOMAIN ChildHashes(i) = DOMAIN Listed(Children(i))
         /\ ChildHashes(i) = <<>> <=> Children(i) = {}
<1> DEFINE S == Children(i)
<1>1. Len(call.entries) \in Nat /\ S \in SUBSET (1 .. Len(call.entries))
  BY FilesFinite DEF Children, Files
<1>2. /\ DOMAIN Listed(S) = 1 .. Cardinality(S) /\ Cardinality(S) \in Nat
      /\ \A k \in DOMAIN Listed(S) : Listed(S)[k] \in S
      /\ IsFiniteSet(S)
  <2> HIDE DEF S
  <2> QED BY <1>1, ListedIndices, NthBijective
<1>3. Cardinality(S) = 0 <=> S = {}
  BY <1>2, FS_EmptySet
<1> DEFINE n == Cardinality(S)
           e(k) == Checksum(ContainerOf(Listed(S)[k]))
<1>4. ChildHashes(i) = [k \in 1 .. n |-> e(k)]
  BY <1>2 DEF ChildHashes
<1> HIDE DEF n, e
<1>5. n \in Nat => (ChildHashes(i) = <<>> <=> n = 0)
  BY <1>4
<1> QED BY <1>2, <1>3, <1>4, <1>5 DEF n

LEMMA PromisedParts ==
  ASSUME call \in Calls
  PROVE  /\ Promise!Promised(call) =
              Archive(call.entries,
                [i \in DOMAIN call.entries |->
                   IF i \in Files THEN ContainerOf(i)
                                  ELSE DirContainer(call.entries[i], MerkleOf(i))])
         /\ Promise!AllSerializable(call) <=>
              /\ \A i \in Files : FileSerializable(call.entries[i], call.comp)
              /\ \A i \in Dirs : DirSerializable(call.entries[i])
<1>1. \A i \in DOMAIN call.entries :
        Promise!PromisedElement(call, i) =
          IF i \in Files THEN ContainerOf(i)
                         ELSE DirContainer(call.entries[i], MerkleOf(i))
  <2> SUFFICES ASSUME NEW i \in DOMAIN call.entries
               PROVE  Promise!PromisedElement(call, i) =
                        IF i \in Files THEN ContainerOf(i)
                                       ELSE DirContainer(call.entries[i], MerkleOf(i))
    OBVIOUS
  <2>1. CASE i \in Files
    BY <2>1, SameFormat DEF Promise!PromisedElement, Files, FileIndices, ContainerOf
  <2>2. CASE i \notin Files
    <3> DEFINE S == {j \in Promise!FileIndices(call.entries) :
                       Promise!isDirectChild(call.entries[i].path, call.entries[j].path)}
               hashes == [k \in DOMAIN Promise!Listed(S) |->
                            Promise!Checksum(Promise!FileContainer(
                              call.entries[Promise!Listed(S)[k]], call.comp))]
    <3>1. S = Children(i) /\ Promise!Listed(S) = Listed(Children(i))
      BY SameFormat DEF Children, Files, PathOf
    <3>2. hashes = ChildHashes(i)
      BY <3>1, SameFormat DEF ChildHashes, ContainerOf
    <3>3. Promise!PromisedElement(call, i) =
            Promise!DirContainer(call.entries[i],
              IF hashes = <<>> THEN Promise!ZeroHash ELSE Promise!computeMerkleHash(hashes))
      BY <2>2, SameFormat DEF Promise!PromisedElement, Files, FileIndices
    <3> HIDE DEF S, hashes
    <3> QED BY <2>2, <3>2, <3>3, SameFormat, ChildrenListed DEF MerkleOf
  <2> QED BY <2>1, <2>2
<1>2. Promise!Promised(call) =
        Archive(call.entries, [i \in DOMAIN call.entries |-> Promise!PromisedElement(call, i)])
  BY SameFormat DEF Promise!Promised
<1>3. Promise!AllSerializable(call) <=>
        /\ \A i \in Files : FileSerializable(call.entries[i], call.comp)
        /\ \A i \in Dirs : DirSerializable(call.entries[i])
  BY SameFormat DEF Promise!AllSerializable, Files, Dirs
<1> HIDE DEF Files
<1>4. [i \in DOMAIN call.entries |-> Promise!PromisedElement(call, i)] =
        [i \in DOMAIN call.entries |->
           IF i \in Files THEN ContainerOf(i)
                          ELSE DirContainer(call.entries[i], MerkleOf(i))]
  BY <1>1
<1> QED BY <1>2, <1>3, <1>4

(* The errors that are promised.                                           *)
FilesReached ==
  {i \in Files : \A j \in Files : j < i => FileSerializable(call.entries[j], call.comp)}
DirsReached ==
  {i \in Dirs : /\ \A j \in Files : FileSerializable(call.entries[j], call.comp)
                /\ \A j \in Dirs : j < i => DirSerializable(call.entries[j])}

LEMMA PossibleErrorsAre ==
  /\ "OutOfMemory" \in Promise!PossibleErrors(call)
  /\ \A i \in FilesReached :
       FileErrors(call.entries[i], call.comp) \subseteq Promise!PossibleErrors(call)
  /\ \A i \in DirsReached :
       DirErrors(call.entries[i]) \subseteq Promise!PossibleErrors(call)
<1>1. Promise!PossibleErrors(call) =
        {"OutOfMemory"}
          \cup (UNION {FileErrors(call.entries[i], call.comp) : i \in FilesReached})
          \cup (UNION {DirErrors(call.entries[i]) : i \in DirsReached})
  BY SameFormat DEF Promise!PossibleErrors, FilesReached, DirsReached, Files, Dirs
<1> DEFINE OfFiles == UNION {FileErrors(call.entries[i], call.comp) : i \in FilesReached}
           OfDirs == UNION {DirErrors(call.entries[i]) : i \in DirsReached}
<1>2. /\ \A i \in FilesReached : FileErrors(call.entries[i], call.comp) \subseteq OfFiles
      /\ \A i \in DirsReached : DirErrors(call.entries[i]) \subseteq OfDirs
  OBVIOUS
<1>3. Promise!PossibleErrors(call) = {"OutOfMemory"} \cup OfFiles \cup OfDirs
  BY <1>1
<1> HIDE DEF OfFiles, OfDirs
<1> QED BY <1>2, <1>3

-----------------------------------------------------------------------------
(* Steps.                                                                  *)

LEMMA InitResult == Init => ResultInv
<1> SUFFICES ASSUME Init PROVE ResultInv
  OBVIOUS
<1>1. FilesBuilt = {} /\ FilesHashed = {} /\ DirsBuilt = {}
  BY DEF Init, FilesBuilt, FilesHashed, DirsBuilt
<1>2. SlotInv
  BY DEF Init, SlotInv, ResultFits, NoResult
<1>3. HashInv
  <2>1. DOMAIN fileHashes = {}
    BY DEF Init
  <2> QED BY <1>1, <2>1 DEF HashInv
<1>4. elements = [i \in DOMAIN call.entries |-> elements[i]]
  BY DEF Init
<1>5. ElementsInv /\ ParentsInv /\ OutcomeInv
  BY <1>1, <1>4 DEF Init, ElementsInv, ParentsInv, OutcomeInv
<1> QED BY <1>2, <1>3, <1>5 DEF ResultInv

(* A step of main that neither builds nor returns anything.                *)
LEMMA StillKeepsResult ==
  ASSUME ResultInv,
         UNCHANGED <<call, outcome, results, elements, fileHashes, parentHashes>>,
         pc # "returned", pc' # "returned",
         pc' \in {"dirs", "assemble"} => pc \in {"dirs", "assemble"},
         FilesBuilt' = FilesBuilt, FilesHashed' = FilesHashed, DirsBuilt' = DirsBuilt
  PROVE  ResultInv'
<1>1. SlotInv'
  BY DEF ResultInv, SlotInv, ResultFits
<1>2. ElementsInv'
  BY DEF ResultInv, ElementsInv, ContainerOf, DirHash
<1>3. HashInv'
  BY DEF ResultInv, HashInv, ContainerOf, PathOf
<1>4. ParentsInv'
  <2>1. \A q : HashesUnder(q)' = HashesUnder(q)
    BY DEF HashesUnder
  <2> QED BY <2>1 DEF ResultInv, ParentsInv
<1>5. OutcomeInv'
  BY DEF ResultInv, OutcomeInv
<1> QED BY <1>1, <1>2, <1>3, <1>4, <1>5 DEF ResultInv

(* A return: nothing is said of what was built any more.                   *)
LEMMA ReturnKeepsResult ==
  ASSUME ResultInv, call' = call, pc' = "returned", OutcomeInv',
         \A s \in Slots(call) : ResultFits(s)'
  PROVE  ResultInv'
<1>1. FilesBuilt' = {} /\ DirsBuilt' = {}
  BY DEF FilesBuilt, DirsBuilt
<1> QED BY <1>1 DEF ResultInv, SlotInv, ElementsInv, HashInv, ParentsInv

LEMMA FailKeepsResult ==
  ASSUME ResultInv, NEW e, FailWith(e), e \in Promise!PossibleErrors(call)
  PROVE  ResultInv'
<1>1. /\ UNCHANGED <<call, results>> /\ pc' = "returned"
      /\ outcome' = [status |-> "error", error |-> e]
  BY DEF FailWith, Leave, poolVars
<1>2. OutcomeInv'
  BY <1>1 DEF OutcomeInv
<1>3. \A s \in Slots(call) : ResultFits(s)'
  BY <1>1 DEF ResultInv, SlotInv, ResultFits
<1> QED BY <1>1, <1>2, <1>3, ReturnKeepsResult

-----------------------------------------------------------------------------
(* Workers.                                                                *)

LEMMA WorkerKeepsResult ==
  ASSUME PoolInv, HeapInv, ResultInv, NEW w \in Workers(call), Worker(w)
  PROVE  ResultInv'
<1> USE DEF argVars, mainVars, builtVars, progressVars
<1>1. /\ UNCHANGED <<call, outcome, pc, pos, elements, fileHashes, parentHashes>>
      /\ pc \notin TailPhases \cup {"returned"}
  <2>1. UNCHANGED <<call, outcome, pc, pos, elements, fileHashes, parentHashes>>
    BY DEF Worker, ClaimSlot, SerializeSlot, SerializeFails, CountFile, CountBytes,
       MainWaits
  <2> QED BY <2>1, WorkerFrame
<1>2. FilesBuilt' = FilesBuilt /\ FilesHashed' = FilesHashed /\ DirsBuilt' = DirsBuilt
  BY <1>1 DEF FilesBuilt, FilesHashed, DirsBuilt, Files, Dirs
<1>3. ElementsInv' /\ HashInv' /\ ParentsInv' /\ OutcomeInv'
  <2>1. ElementsInv'
    BY <1>1, <1>2 DEF ResultInv, ElementsInv, ContainerOf, DirHash
  <2>2. HashInv'
    BY <1>1, <1>2 DEF ResultInv, HashInv, ContainerOf, PathOf
  <2>3. ParentsInv' /\ OutcomeInv'
    BY <1>1 DEF ResultInv, ParentsInv, OutcomeInv, TailPhases
  <2> QED BY <2>1, <2>2, <2>3
<1>4. SlotInv'
  <2>1. CASE UNCHANGED results
    BY <1>1, <2>1 DEF ResultInv, SlotInv, ResultFits
  <2>2. CASE SerializeSlot(w) \/ SerializeFails(w)
    <3>1. wslot[w] \in Slots(call) /\ ~Completed(wslot[w])
      BY <2>2 DEF PoolInv, ClaimInv, SlotsHeldOnce, TypeOK, PoolTypeOK, Holds,
         SerializeSlot, SerializeFails
    <3>2. /\ DOMAIN results = Slots(call)
          /\ DOMAIN results[wslot[w]] = {"bytes", "hash", "owned", "err"}
      BY <3>1 DEF PoolInv, TypeOK, ResultsTypeOK
    <3>3. \A s \in Slots(call) \ {wslot[w]} : results'[s] = results[s]
      BY <2>2, <3>1, <3>2 DEF SerializeSlot, SerializeFails
    <3>4. ASSUME NEW s \in Slots(call), s = wslot[w]
          PROVE  ResultFits(s)'
      <4>1. CASE SerializeSlot(w)
        BY <1>1, <3>2, <3>4, <4>1 DEF SerializeSlot, ResultFits
      <4>2. CASE SerializeFails(w)
        BY <1>1, <3>2, <3>4, <4>2, ErrorsTyped
           DEF SerializeFails, ErrorRecorded, ResultFits
      <4> QED BY <2>2, <4>1, <4>2
    <3>5. \A s \in Slots(call) \ {wslot[w]} : ResultFits(s)'
      BY <1>1, <3>3 DEF ResultInv, SlotInv, ResultFits
    <3> QED BY <1>1, <3>4, <3>5 DEF SlotInv
  <2> QED BY <2>1, <2>2 DEF Worker, ClaimSlot, CountFile, CountBytes
<1> QED BY <1>3, <1>4 DEF ResultInv

-----------------------------------------------------------------------------
(* Steps of main that build nothing.                                       *)

(* The entries with a slot below n are the files before the one of slot n, *)
(* and all files once n is the number of files.                            *)
LEMMA SlotOrder ==
  ASSUME call \in Calls
  PROVE  /\ \A s \in Slots(call) : EntryIndex(call, s) \in Files
         /\ \A i \in Files : \E s \in Slots(call) : EntryIndex(call, s) = i
         /\ \A s, t \in Slots(call) : EntryIndex(call, s) = EntryIndex(call, t) => s = t
         /\ \A s, t \in Slots(call) :
              EntryIndex(call, s) < EntryIndex(call, t) => s < t
<1> DEFINE f == fileSlots(call)
<1>1. /\ f \in Bijection(Slots(call), Files)
      /\ \A s, t \in Slots(call) : s < t => EntryIndex(call, s) < EntryIndex(call, t)
      /\ \A s : EntryIndex(call, s) = f[s]
  BY FileSlotsBijective DEF EntryIndex, Files
<1> HIDE DEF f
<1>2. /\ \A s \in Slots(call) : f[s] \in Files
      /\ \A i \in Files : \E s \in Slots(call) : f[s] = i
      /\ \A s, t \in Slots(call) : f[s] = f[t] => s = t
  BY <1>1 DEF Bijection, Injection, Surjection, IsInjective
<1>3. ASSUME NEW s \in Slots(call), NEW t \in Slots(call), f[s] < f[t]
      PROVE  s < t
  <2>1. s \in Int /\ t \in Int
    BY DEF Slots
  <2>2. f[s] \in Int /\ f[t] \in Int
    BY <1>2, FilesFinite DEF Files
  <2>3. s # t
    BY <1>3, <2>2
  <2>4. ~(t < s)
    BY <1>1, <1>3, <2>2
  <2> QED BY <2>1, <2>3, <2>4
<1> QED BY <1>1, <1>2, <1>3

LEMMA QuietKeepsResult ==
  ASSUME PoolInv, HeapInv, ResultInv,
         \/ Begin \/ SpawnWorker \/ SpawnFails
         \/ PollTest \/ PollLoadFiles \/ PollCallback \/ JoinWorkers
         \/ CollectDone \/ SequentialSkipsDir \/ SequentialDone
         \/ DirsSkipFile \/ DirsDone
  PROVE  ResultInv'
<1> USE DEF argVars, builtVars, poolVars, heapVars, progressVars, ControlOnly
<1>1. UNCHANGED <<call, outcome, results, elements, fileHashes, parentHashes>>
  BY DEF Begin, SpawnWorker, SpawnFails, PollTest, PollLoadFiles, PollCallback,
     JoinWorkers, CollectDone, SequentialSkipsDir, SequentialDone, DirsSkipFile, DirsDone
<1>2. /\ call \in Calls /\ pos \in Nat
      /\ Files \subseteq Nat /\ Dirs \subseteq Nat
      /\ \A i \in Files \cup Dirs : i <= Len(call.entries)
      /\ Len(call.entries) \in Nat
      /\ Files \cap Dirs = {}
  <2>1. call \in Calls /\ pos \in Nat
    BY DEF PoolInv, TypeOK, MainTypeOK
  <2>2. Len(call.entries) \in Nat /\ DOMAIN call.entries = 1 .. Len(call.entries)
    BY <2>1, FilesFinite
  <2> QED BY <2>1, <2>2 DEF Files, Dirs, FileIndices, DirIndices, IsFile, IsDir
<1>3. Files' = Files /\ Dirs' = Dirs
  BY <1>1 DEF Files, Dirs
<1>4. CASE \/ SpawnWorker \/ SpawnFails \/ PollTest \/ PollLoadFiles \/ PollCallback
  <2>1. pc \in PoolPhases \ {"collect"} /\ pc' \in PoolPhases \ {"collect"}
    BY <1>4 DEF SpawnWorker, SpawnFails, PollTest, PollLoadFiles, PollCallback, PoolPhases
  <2>2. FilesBuilt' = FilesBuilt /\ FilesHashed' = FilesHashed /\ DirsBuilt' = DirsBuilt
    BY <2>1, <1>3 DEF PoolPhases, FilesBuilt, FilesHashed, DirsBuilt
  <2> QED BY <1>1, <2>1, <2>2, StillKeepsResult DEF PoolPhases
<1>5. CASE Begin \/ JoinWorkers
  <2>1. /\ pc \in {"begin", "join"}
        /\ \/ pc' = "spawn"
           \/ pc' = "sequential" /\ pos' = 1
           \/ pc' = "collect" /\ pos' = 0
    <3>1. CASE Begin
      BY <3>1 DEF Begin
    <3>2. CASE JoinWorkers
      <4>1. pc = "join" /\ pc' = "collect" /\ pos' = pos
        BY <3>2 DEF JoinWorkers
      <4>2. pos = 0
        BY <4>1 DEF HeapInv, CollectInv, PoolPhases
      <4> QED BY <4>1, <4>2
    <3> QED BY <1>5, <3>1, <3>2
  <2>2. FilesBuilt = {} /\ FilesHashed = {} /\ DirsBuilt = {}
    BY <2>1 DEF FilesBuilt, FilesHashed, DirsBuilt
  <2>3. FilesBuilt' = {}
    <3>1. \A i \in Files : ~(i < 1)
      BY <1>2, FilesFinite DEF Files
    <3>2. \A s \in Slots(call) : ~(s < 0)
      BY DEF Slots
    <3> QED BY <1>1, <1>3, <2>1, <3>1, <3>2 DEF FilesBuilt
  <2>4. FilesHashed' = {} /\ DirsBuilt' = {}
    BY <2>1, <2>3 DEF FilesHashed, DirsBuilt
  <2> QED BY <1>1, <2>1, <2>2, <2>3, <2>4, StillKeepsResult
<1>6. CASE CollectDone
  <2>1. pc = "collect" /\ pos = FileCount(call) /\ pc' = "parents"
    BY <1>6 DEF CollectDone
  <2>2. \A i \in Files : \E s \in Slots(call) : s < pos /\ EntryIndex(call, s) = i
    <3>1. \A s \in Slots(call) : s < pos
      BY <1>2, <2>1, ArgumentTypes DEF Slots
    <3> QED BY <1>2, <3>1, SlotOrder
  <2>3. FilesBuilt = Files /\ FilesBuilt' = Files
    BY <1>3, <2>1, <2>2 DEF FilesBuilt
  <2>4. FilesHashed = Files /\ FilesHashed' = Files
    BY <2>1, <2>3 DEF FilesHashed
  <2>5. DirsBuilt' = DirsBuilt
    BY <2>1 DEF DirsBuilt
  <2> QED BY <1>1, <2>1, <2>3, <2>4, <2>5, StillKeepsResult
<1>7. CASE SequentialSkipsDir \/ SequentialDone
  <2>1. /\ pc = "sequential" /\ pc' \in {"sequential", "parents"}
        /\ pc' = "sequential" => pos' = pos + 1 /\ pos \in Dirs
        /\ pc' = "parents" => pos > Len(call.entries)
    BY <1>7 DEF SequentialSkipsDir, SequentialDone, Dirs
  <2>2. FilesBuilt = {i \in Files : i < pos}
    BY <2>1 DEF FilesBuilt
  <2>3. FilesBuilt' = FilesBuilt
    <3>1. CASE pc' = "sequential"
      <4>1. FilesBuilt' = {i \in Files : i < pos + 1}
        BY <1>3, <2>1, <3>1 DEF FilesBuilt
      <4>2. \A i \in Files : i < pos + 1 <=> i < pos
        BY <1>2, <2>1, <3>1
      <4> QED BY <2>2, <4>1, <4>2
    <3>2. CASE pc' = "parents"
      <4>1. FilesBuilt' = Files
        BY <1>3, <3>2 DEF FilesBuilt
      <4>2. \A i \in Files : i < pos
        BY <1>2, <2>1, <3>2
      <4> QED BY <2>2, <4>1, <4>2
    <3> QED BY <2>1, <3>1, <3>2
  <2>4. FilesHashed = FilesBuilt /\ FilesHashed' = FilesBuilt'
    BY <2>1 DEF FilesHashed
  <2>5. DirsBuilt' = DirsBuilt
    BY <2>1 DEF DirsBuilt
  <2> QED BY <1>1, <2>1, <2>3, <2>4, <2>5, StillKeepsResult
<1>8. CASE DirsSkipFile \/ DirsDone
  <2>1. /\ pc = "dirs" /\ pc' \in {"dirs", "assemble"}
        /\ pc' = "dirs" => pos' = pos + 1 /\ pos \in Files
        /\ pc' = "assemble" => pos > Len(call.entries)
    BY <1>8 DEF DirsSkipFile, DirsDone, Files
  <2>2. FilesBuilt = Files /\ FilesBuilt' = Files
    BY <1>3, <2>1 DEF FilesBuilt
  <2>3. FilesHashed = Files /\ FilesHashed' = Files
    BY <2>1, <2>2 DEF FilesHashed
  <2>4. DirsBuilt = {i \in Dirs : i < pos}
    BY <2>1 DEF DirsBuilt
  <2>5. DirsBuilt' = DirsBuilt
    <3>1. CASE pc' = "dirs"
      <4>1. DirsBuilt' = {i \in Dirs : i < pos + 1}
        BY <1>3, <2>1, <3>1 DEF DirsBuilt
      <4>2. \A i \in Dirs : i < pos + 1 <=> i < pos
        BY <1>2, <2>1, <3>1
      <4> QED BY <2>4, <4>1, <4>2
    <3>2. CASE pc' = "assemble"
      <4>1. DirsBuilt' = Dirs
        BY <1>3, <3>2 DEF DirsBuilt
      <4>2. \A i \in Dirs : i < pos
        BY <1>2, <2>1, <3>2
      <4> QED BY <2>4, <4>1, <4>2
    <3> QED BY <2>1, <3>1, <3>2
  <2> QED BY <1>1, <2>1, <2>2, <2>3, <2>5, StillKeepsResult
<1> QED BY <1>4, <1>5, <1>6, <1>7, <1>8

-----------------------------------------------------------------------------
(* Steps of main that build or return.                                     *)

LEMMA EntryParts ==
  ASSUME call \in Calls
  PROVE  /\ Files \subseteq DOMAIN call.entries /\ Dirs \subseteq DOMAIN call.entries
         /\ DOMAIN call.entries = 1 .. Len(call.entries) /\ Len(call.entries) \in Nat
         /\ \A i \in DOMAIN call.entries :
              /\ i \in Files <=> IsFile(call.entries[i])
              /\ i \in Dirs <=> IsDir(call.entries[i])
              /\ i \in Files <=> i \notin Dirs
              /\ PathOf(i) \in Seq(STRING) \ {<<>>}
<1>1. DOMAIN call.entries = 1 .. Len(call.entries) /\ Len(call.entries) \in Nat
  BY FilesFinite
<1>2. \A i \in DOMAIN call.entries : IsEntry(call.entries[i])
  BY CallsAssumption
<1> QED BY <1>1, <1>2
        DEF Files, Dirs, FileIndices, DirIndices, IsFile, IsDir, IsEntry, PathOf

LEMMA FailuresKeepResult ==
  ASSUME PoolInv, HeapInv, ResultInv,
         AllocationFails \/ Drain \/ SequentialFails \/ DirFails
  PROVE  ResultInv'
<1>1. call \in Calls /\ pos \in Nat
  BY DEF PoolInv, TypeOK, MainTypeOK
<1>2. CASE AllocationFails \/ Drain
  BY <1>2, PossibleErrorsAre, FailKeepsResult DEF AllocationFails, OutOfMemoryAt, Drain
<1>3. CASE SequentialFails
  <2>1. pc = "sequential" /\ pos \in Files
    BY <1>3 DEF SequentialFails, Files
  <2>2. pos \in FilesReached
    BY <2>1 DEF FilesReached, ResultInv, ElementsInv, FilesBuilt
  <2> QED BY <1>3, <2>2, PossibleErrorsAre, FailKeepsResult DEF SequentialFails
<1>4. CASE DirFails
  <2>1. pc = "dirs" /\ pos \in Dirs
    BY <1>4 DEF DirFails, Dirs
  <2>2. pos \in DirsReached
    BY <2>1 DEF DirsReached, ResultInv, ElementsInv, FilesBuilt, DirsBuilt
  <2> QED BY <1>4, <2>2, PossibleErrorsAre, FailKeepsResult DEF DirFails
<1> QED BY <1>2, <1>3, <1>4

LEMMA CollectFailuresKeepResult ==
  ASSUME PoolInv, HeapInv, ResultInv, CollectError \/ CollectFails
  PROVE  ResultInv'
<1>1. /\ call \in Calls /\ pos \in Nat /\ FileCount(call) \in Nat
      /\ DOMAIN results = Slots(call)
      /\ \A s \in Slots(call) : DOMAIN results[s] = {"bytes", "hash", "owned", "err"}
  BY FilesFinite DEF PoolInv, TypeOK, MainTypeOK, ResultsTypeOK
<1>2. /\ call' = call /\ pc = "collect" /\ pc' = "returned" /\ pos \in Slots(call)
      /\ \A s \in Slots(call) : /\ results'[s].bytes = results[s].bytes
                                /\ results'[s].hash = results[s].hash
                                /\ results'[s].err = results[s].err
  BY <1>1 DEF CollectError, CollectFails, Leave, poolVars, Slots
<1>3. \A s \in Slots(call) : ResultFits(s)'
  BY <1>2 DEF ResultInv, SlotInv, ResultFits
<1>4. OutcomeInv'
  <2>1. CASE CollectError
    <3>1. EntryIndex(call, pos) \in FilesReached
      <4>1. EntryIndex(call, pos) \in Files
        BY <1>1, <1>2, SlotOrder
      <4>2. ASSUME NEW j \in Files, j < EntryIndex(call, pos)
            PROVE  j \in FilesBuilt
        BY <1>1, <1>2, <4>2, SlotOrder DEF FilesBuilt
      <4> QED BY <4>1, <4>2 DEF FilesReached, ResultInv, ElementsInv
    <3>2. results[pos].err \in FileErrors(call.entries[EntryIndex(call, pos)], call.comp)
      BY <1>2, <2>1 DEF CollectError, ResultInv, SlotInv, ResultFits, FileAt
    <3>3. results[pos].err \in Promise!PossibleErrors(call)
      BY <3>1, <3>2, PossibleErrorsAre
    <3>4. outcome' = [status |-> "error", error |-> results[pos].err]
      BY <2>1 DEF CollectError, Leave
    <3> QED BY <1>2, <3>3, <3>4 DEF OutcomeInv
  <2>2. CASE CollectFails
    <3>1. outcome' = [status |-> "error", error |-> "OutOfMemory"]
      BY <2>2 DEF CollectFails
    <3> QED BY <1>2, <3>1, PossibleErrorsAre DEF OutcomeInv
  <2> QED BY <2>1, <2>2
<1> QED BY <1>2, <1>3, <1>4, ReturnKeepsResult

(* Storing a container keeps entry_elements a function on the entries.     *)
LEMMA StoredElement ==
  ASSUME NEW D, elements = [k \in D |-> elements[k]], NEW i, NEW e,
         elements' = [elements EXCEPT ![i] = e]
  PROVE  elements' = [k \in D |-> elements'[k]]
OBVIOUS

LEMMA CollectSlotKeepsResult ==
  ASSUME PoolInv, HeapInv, ResultInv, CollectSlot
  PROVE  ResultInv'
<1> DEFINE i == EntryIndex(call, pos)
<1>1. /\ call \in Calls /\ pos \in Nat /\ FileCount(call) \in Nat
      /\ DOMAIN results = Slots(call) /\ DOMAIN elements = DOMAIN call.entries
      /\ \A s \in Slots(call) : DOMAIN results[s] = {"bytes", "hash", "owned", "err"}
  BY FilesFinite DEF PoolInv, TypeOK, MainTypeOK, ResultsTypeOK
<1>2. /\ UNCHANGED <<call, outcome, pc, parentHashes>> /\ pc = "collect"
      /\ pos' = pos + 1 /\ pos \in Slots(call)
      /\ elements' = [elements EXCEPT ![i] = results[pos].bytes]
      /\ fileHashes' = put(fileHashes, PathOf(i), results[pos].hash)
      /\ results[pos].err = NoError
  BY <1>1 DEF CollectSlot, argVars, PathOf, Slots
<1>3. \A s \in Slots(call) : /\ results'[s].bytes = results[s].bytes
                             /\ results'[s].hash = results[s].hash
                             /\ results'[s].err = results[s].err
  BY <1>1, <1>2 DEF CollectSlot
<1>4. /\ FileSerializable(call.entries[i], call.comp)
      /\ results[pos].bytes = ContainerOf(i)
      /\ results[pos].hash = Checksum(ContainerOf(i))
  <2>1. Completed(pos)
    <3>1. UsesPool(call)
      BY <1>2 DEF PoolInv, PathInv, PoolPhases
    <3> QED BY <1>2, <3>1, CollectSeesAll DEF CollectSeesEverySlot, InPoolTail
  <2> QED BY <1>2, <2>1 DEF ResultInv, SlotInv, ResultFits, Completed, ContainerOf, FileAt
<1>5. SlotInv'
  BY <1>2, <1>3 DEF ResultInv, SlotInv, ResultFits
<1>6. i \in Files /\ i \notin FilesBuilt /\ i \in DOMAIN elements
  BY <1>1, <1>2, SlotOrder, EntryParts DEF FilesBuilt, Slots
<1>7. FilesBuilt' = FilesBuilt \cup {i} /\ DirsBuilt' = {} /\ DirsBuilt = {}
  <2>1. FilesBuilt = {k \in Files : \E s \in Slots(call) :
                                     s < pos /\ EntryIndex(call, s) = k}
    BY <1>2 DEF FilesBuilt
  <2>2. FilesBuilt' = {k \in Files : \E s \in Slots(call) :
                                      s < pos + 1 /\ EntryIndex(call, s) = k}
    BY <1>2 DEF FilesBuilt, Files
  <2>3. \A s \in Slots(call) : s < pos + 1 <=> s < pos \/ s = pos
    BY <1>1, <1>2 DEF Slots
  <2>4. DirsBuilt' = {} /\ DirsBuilt = {}
    BY <1>2 DEF DirsBuilt
  <2> QED BY <1>2, <1>6, <2>1, <2>2, <2>3, <2>4
<1>8. FilesHashed = FilesBuilt /\ FilesHashed' = FilesBuilt'
  BY <1>2 DEF FilesHashed
<1> HIDE DEF i
<1>9. ElementsInv'
  <2>1. \A k \in FilesBuilt : k \in DOMAIN elements /\ k # i
    BY <1>1, <1>6, EntryParts DEF FilesBuilt
  <2>2. \A k \in FilesBuilt : /\ FileSerializable(call.entries[k], call.comp)
                              /\ elements'[k] = ContainerOf(k)
    BY <1>2, <2>1 DEF ResultInv, ElementsInv
  <2>3. FileSerializable(call.entries[i], call.comp) /\ elements'[i] = ContainerOf(i)
    BY <1>2, <1>4, <1>6
  <2>4. elements' = [k \in DOMAIN call.entries |-> elements'[k]]
    BY <1>2, StoredElement DEF ResultInv, ElementsInv
  <2> QED BY <1>2, <1>7, <2>2, <2>3, <2>4 DEF ElementsInv, ContainerOf
<1>10. HashInv'
  <2>1. /\ DOMAIN fileHashes = {PathOf(k) : k \in FilesBuilt}
        /\ Regular(call) =>
             \A k \in FilesBuilt : fileHashes[PathOf(k)] = Checksum(ContainerOf(k))
    BY <1>2, <1>8 DEF ResultInv, HashInv
  <2>2. DOMAIN fileHashes' = {PathOf(k) : k \in FilesBuilt \cup {i}}
    BY <1>2, <2>1 DEF put
  <2>3. ASSUME Regular(call), NEW k \in FilesBuilt \cup {i}
        PROVE  fileHashes'[PathOf(k)] = Checksum(ContainerOf(k))
    <3>1. CASE k = i
      BY <1>2, <1>4, <3>1 DEF put
    <3>2. CASE k # i
      <4>1. PathOf(k) # PathOf(i)
        BY <1>6, <2>3, <3>2 DEF Regular, FilesBuilt, Files, PathOf
      <4> QED BY <1>2, <2>1, <2>3, <3>2, <4>1 DEF put
    <3> QED BY <3>1, <3>2
  <2> QED BY <1>2, <1>7, <1>8, <2>2, <2>3 DEF HashInv, PathOf, ContainerOf
<1>11. ParentsInv' /\ OutcomeInv'
  BY <1>2 DEF ResultInv, ParentsInv, OutcomeInv
<1> QED BY <1>5, <1>9, <1>10, <1>11 DEF ResultInv

LEMMA SequentialSerializeKeepsResult ==
  ASSUME PoolInv, HeapInv, ResultInv, SequentialSerialize
  PROVE  ResultInv'
<1>1. /\ call \in Calls /\ pos \in Nat /\ DOMAIN elements = DOMAIN call.entries
  BY DEF PoolInv, TypeOK, MainTypeOK
<1>2. /\ UNCHANGED <<call, outcome, pos, results, fileHashes, parentHashes>>
      /\ pc = "sequential" /\ pc' = "record" /\ pos \in Files
      /\ FileSerializable(call.entries[pos], call.comp)
      /\ elements' = [elements EXCEPT ![pos] = ContainerOf(pos)]
  BY DEF SequentialSerialize, argVars, poolVars, Files, ContainerOf
<1>3. Files' = Files /\ Files \subseteq DOMAIN elements /\ Files \subseteq Nat
  BY <1>1, <1>2, EntryParts DEF Files
<1>4. FilesBuilt' = FilesBuilt \cup {pos} /\ pos \notin FilesBuilt
  <2>1. FilesBuilt = {k \in Files : k < pos} /\ FilesBuilt' = {k \in Files : k <= pos}
    BY <1>2, <1>3 DEF FilesBuilt
  <2>2. \A k \in Files : k <= pos <=> k < pos \/ k = pos
    BY <1>1, <1>3
  <2>3. ~(pos < pos)
    BY <1>1
  <2> QED BY <1>2, <2>1, <2>2, <2>3
<1>5. /\ FilesHashed = FilesBuilt /\ FilesHashed' = FilesHashed
      /\ DirsBuilt = {} /\ DirsBuilt' = {}
  BY <1>2, <1>4 DEF FilesHashed, DirsBuilt
<1>6. SlotInv'
  BY <1>2 DEF ResultInv, SlotInv, ResultFits
<1>7. ElementsInv'
  <2>1. \A k \in FilesBuilt : k \in DOMAIN elements /\ k # pos
    BY <1>3, <1>4 DEF FilesBuilt
  <2>2. \A k \in FilesBuilt : /\ FileSerializable(call.entries[k], call.comp)
                              /\ elements'[k] = ContainerOf(k)
    BY <1>2, <2>1 DEF ResultInv, ElementsInv
  <2>3. elements'[pos] = ContainerOf(pos)
    BY <1>2, <1>3
  <2>4. elements' = [k \in DOMAIN call.entries |-> elements'[k]]
    BY <1>2, StoredElement DEF ResultInv, ElementsInv
  <2> QED BY <1>2, <1>4, <1>5, <2>2, <2>3, <2>4 DEF ElementsInv, ContainerOf
<1>8. HashInv'
  BY <1>2, <1>5 DEF ResultInv, HashInv, PathOf, ContainerOf
<1>9. ParentsInv' /\ OutcomeInv'
  BY <1>2 DEF ResultInv, ParentsInv, OutcomeInv
<1> QED BY <1>6, <1>7, <1>8, <1>9 DEF ResultInv

LEMMA SequentialRecordKeepsResult ==
  ASSUME PoolInv, HeapInv, ResultInv, SequentialRecord
  PROVE  ResultInv'
<1>1. /\ call \in Calls /\ pos \in Nat
  BY DEF PoolInv, TypeOK, MainTypeOK
<1>2. /\ UNCHANGED <<call, outcome, results, elements, parentHashes>>
      /\ pc = "record" /\ pc' = "sequential" /\ pos' = pos + 1 /\ pos \in Files
      /\ fileHashes' = put(fileHashes, PathOf(pos), Checksum(elements[pos]))
  BY DEF SequentialRecord, argVars, poolVars, PoolInv, TypeOK, MainTypeOK, Files, PathOf
<1>3. Files' = Files /\ Files \subseteq Nat
  BY <1>1, <1>2, EntryParts DEF Files
<1>4. FilesBuilt' = FilesBuilt /\ pos \in FilesBuilt
  <2>1. FilesBuilt = {k \in Files : k <= pos} /\ FilesBuilt' = {k \in Files : k < pos + 1}
    BY <1>2, <1>3 DEF FilesBuilt
  <2>2. \A k \in Files : k <= pos <=> k < pos + 1
    BY <1>1, <1>3
  <2>3. pos <= pos
    BY <1>1
  <2> QED BY <1>2, <2>1, <2>2, <2>3
<1>5. /\ FilesHashed = FilesBuilt \ {pos} /\ FilesHashed' = FilesBuilt
      /\ DirsBuilt = {} /\ DirsBuilt' = {}
  BY <1>2, <1>4 DEF FilesHashed, DirsBuilt
<1>6. SlotInv'
  BY <1>2 DEF ResultInv, SlotInv, ResultFits
<1>7. ElementsInv'
  BY <1>2, <1>4, <1>5 DEF ResultInv, ElementsInv, ContainerOf
<1>8. HashInv'
  <2>1. /\ DOMAIN fileHashes = {PathOf(k) : k \in FilesBuilt \ {pos}}
        /\ Regular(call) =>
             \A k \in FilesBuilt \ {pos} : fileHashes[PathOf(k)] = Checksum(ContainerOf(k))
    BY <1>2, <1>5 DEF ResultInv, HashInv
  <2>2. DOMAIN fileHashes' = {PathOf(k) : k \in FilesBuilt}
    BY <1>2, <1>4, <2>1 DEF put
  <2>3. ASSUME Regular(call), NEW k \in FilesBuilt
        PROVE  fileHashes'[PathOf(k)] = Checksum(ContainerOf(k))
    <3>1. CASE k = pos
      <4>1. elements[pos] = ContainerOf(pos)
        BY <1>4 DEF ResultInv, ElementsInv
      <4> QED BY <1>2, <3>1, <4>1 DEF put
    <3>2. CASE k # pos
      <4>1. PathOf(k) # PathOf(pos)
        BY <1>2, <2>3, <3>2 DEF Regular, FilesBuilt, Files, PathOf
      <4> QED BY <1>2, <2>1, <2>3, <3>2, <4>1 DEF put
    <3> QED BY <3>1, <3>2
  <2> QED BY <1>2, <1>4, <1>5, <2>2, <2>3 DEF HashInv, PathOf, ContainerOf
<1>9. ParentsInv' /\ OutcomeInv'
  BY <1>2 DEF ResultInv, ParentsInv, OutcomeInv
<1> QED BY <1>6, <1>7, <1>8, <1>9 DEF ResultInv

LEMMA BuildParentsKeepsResult ==
  ASSUME PoolInv, HeapInv, ResultInv, BuildParents
  PROVE  ResultInv'
<1>1. /\ UNCHANGED <<call, outcome, results, elements, fileHashes>>
      /\ pc = "parents" /\ pc' = "dirs" /\ pos' = 1 /\ call \in Calls
  BY DEF BuildParents, argVars, poolVars, PoolInv, TypeOK, MainTypeOK
<1>2. FilesBuilt' = FilesBuilt /\ FilesHashed' = FilesHashed /\ DirsBuilt = {}
  BY <1>1 DEF FilesBuilt, FilesHashed, DirsBuilt, Files
<1>3. DirsBuilt' = {}
  <2>1. \A i \in Dirs : ~(i < 1)
    BY <1>1, EntryParts
  <2> QED BY <1>1, <2>1 DEF DirsBuilt, Dirs
<1>4. SlotInv'
  BY <1>1 DEF ResultInv, SlotInv, ResultFits
<1>5. ElementsInv'
  BY <1>1, <1>2, <1>3 DEF ResultInv, ElementsInv, ContainerOf
<1>6. HashInv'
  BY <1>1, <1>2 DEF ResultInv, HashInv, PathOf, ContainerOf
<1>7. ParentsInv'
  <2>1. \A q : HashesUnder(q)' = HashesUnder(q)
    BY <1>1 DEF HashesUnder
  <2> QED BY <1>1, <2>1 DEF BuildParents, ParentsInv
<1>8. OutcomeInv'
  BY <1>1 DEF ResultInv, OutcomeInv
<1> QED BY <1>4, <1>5, <1>6, <1>7, <1>8 DEF ResultInv

LEMMA SerializeDirKeepsResult ==
  ASSUME PoolInv, HeapInv, ResultInv, SerializeDir
  PROVE  ResultInv'
<1>1. /\ call \in Calls /\ pos \in Nat /\ DOMAIN elements = DOMAIN call.entries
  BY DEF PoolInv, TypeOK, MainTypeOK
<1>2. /\ UNCHANGED <<call, outcome, pc, results, fileHashes, parentHashes>>
      /\ pc = "dirs" /\ pos' = pos + 1 /\ pos \in Dirs
      /\ DirSerializable(call.entries[pos])
      /\ elements' = [elements EXCEPT ![pos] =
                        DirContainer(call.entries[pos], DirHash(call.entries[pos]))]
  BY DEF SerializeDir, argVars, poolVars, Dirs
<1>3. /\ Files' = Files /\ Dirs' = Dirs /\ Dirs \subseteq Nat
      /\ Dirs \subseteq DOMAIN elements /\ Files \subseteq DOMAIN elements
      /\ pos \notin Files
  BY <1>1, <1>2, EntryParts DEF Files, Dirs
<1>4. DirsBuilt' = DirsBuilt \cup {pos} /\ pos \notin DirsBuilt
  <2>1. DirsBuilt = {k \in Dirs : k < pos} /\ DirsBuilt' = {k \in Dirs : k < pos + 1}
    BY <1>2, <1>3 DEF DirsBuilt
  <2>2. \A k \in Dirs : k < pos + 1 <=> k < pos \/ k = pos
    BY <1>1, <1>3
  <2>3. ~(pos < pos)
    BY <1>1
  <2> QED BY <1>2, <2>1, <2>2, <2>3
<1>5. /\ FilesBuilt = Files /\ FilesBuilt' = Files
      /\ FilesHashed = Files /\ FilesHashed' = Files
  BY <1>2, <1>3 DEF FilesBuilt, FilesHashed
<1>6. SlotInv'
  BY <1>2 DEF ResultInv, SlotInv, ResultFits
<1>7. ElementsInv'
  <2>0. \A d : DirHash(d)' = DirHash(d)
    BY <1>2 DEF DirHash
  <2>1. \A k \in FilesBuilt : /\ FileSerializable(call.entries[k], call.comp)
                              /\ elements'[k] = ContainerOf(k)
    BY <1>2, <1>3, <1>5 DEF ResultInv, ElementsInv
  <2>2. \A k \in DirsBuilt : k \in DOMAIN elements /\ k # pos
    BY <1>3, <1>4 DEF DirsBuilt
  <2>3. \A k \in DirsBuilt :
          /\ DirSerializable(call.entries[k])
          /\ elements'[k] = DirContainer(call.entries[k], DirHash(call.entries[k]))
    BY <1>2, <2>2 DEF ResultInv, ElementsInv
  <2>4. elements'[pos] = DirContainer(call.entries[pos], DirHash(call.entries[pos]))
    BY <1>2, <1>3
  <2>5. elements' = [k \in DOMAIN call.entries |-> elements'[k]]
    BY <1>2, StoredElement DEF ResultInv, ElementsInv
  <2> QED BY <1>2, <1>4, <1>5, <2>0, <2>1, <2>3, <2>4, <2>5 DEF ElementsInv, ContainerOf
<1>8. HashInv'
  BY <1>2, <1>5 DEF ResultInv, HashInv, PathOf, ContainerOf
<1>9. ParentsInv'
  <2>1. \A q : HashesUnder(q)' = HashesUnder(q)
    BY <1>2 DEF HashesUnder
  <2> QED BY <1>2, <2>1 DEF ResultInv, ParentsInv
<1>10. OutcomeInv'
  BY <1>2 DEF ResultInv, OutcomeInv
<1> QED BY <1>6, <1>7, <1>8, <1>9, <1>10 DEF ResultInv

-----------------------------------------------------------------------------
(* The archive that is assembled.                                          *)

(* For a regular call, the hashes gathered under a directory's path are    *)
(* those of its direct children, in entry order.                           *)
LEMMA ChildrenUnder ==
  ASSUME call \in Calls, Regular(call), DOMAIN fileHashes = {PathOf(k) : k \in Files},
         \A k \in Files : fileHashes[PathOf(k)] = Checksum(ContainerOf(k)),
         NEW i \in Dirs
  PROVE  /\ HashesUnder(PathOf(i)) = ChildHashes(i)
         /\ PathOf(i) \in {ParentPath(p) : p \in {q \in DOMAIN fileHashes : HasParent(q)}}
              <=> Children(i) # {}
<1> DEFINE Under == {k \in Files : /\ PathOf(k) \in DOMAIN fileHashes
                                   /\ HasParent(PathOf(k))
                                   /\ ParentPath(PathOf(k)) = PathOf(i)}
<1>1. ASSUME NEW k \in Files
      PROVE  /\ PathOf(k) \in DOMAIN fileHashes
             /\ isDirectChild(PathOf(i), PathOf(k)) <=>
                  HasParent(PathOf(k)) /\ ParentPath(PathOf(k)) = PathOf(i)
  <2> DEFINE p == PathOf(i)
             q == PathOf(k)
  <2>1. /\ p \in Seq(STRING) /\ p # <<>> /\ q \in Seq(STRING) /\ q # <<>>
    BY EntryParts
  <2>2. Len(p) \in Nat \ {0} /\ Len(q) \in Nat \ {0}
    <3> HIDE DEF p, q
    <3> QED BY <2>1
  <2>3. Len(Front(q)) = Len(q) - 1
    <3> HIDE DEF p, q
    <3> QED BY <2>1, <2>2 DEF Front
  <2>4. HasParent(q) => Last(q) # ""
    BY DEF Regular, Files, PathOf
  <2>5. isDirectChild(p, q) <=> HasParent(q) /\ ParentPath(q) = p
    <3> HIDE DEF p, q
    <3>1. ASSUME isDirectChild(p, q)
          PROVE  HasParent(q) /\ ParentPath(q) = p
      <4>1. Len(q) = Len(p) + 1 /\ Front(q) = p
        BY <3>1, Zenon DEF isDirectChild
      <4>2. HasParent(q)
        BY <2>2, <4>1 DEF HasParent
      <4> QED BY <4>1, <4>2 DEF ParentPath
    <3>2. ASSUME HasParent(q), ParentPath(q) = p
          PROVE  isDirectChild(p, q)
      <4>1. Front(q) = p
        BY <3>2 DEF ParentPath
      <4>2. Len(q) = Len(p) + 1
        BY <2>2, <2>3, <4>1
      <4> QED BY <2>4, <3>2, <4>1, <4>2, Zenon DEF isDirectChild
    <3> QED BY <3>1, <3>2
  <2> QED BY <2>5
<1>2. Under = Children(i)
  BY <1>1 DEF Children
<1>3. HashesUnder(PathOf(i)) =
        [k \in DOMAIN Listed(Under) |-> fileHashes[PathOf(Listed(Under)[k])]]
  BY DEF HashesUnder, PathOf, Files
<1>4. \A k \in DOMAIN Listed(Children(i)) : Listed(Children(i))[k] \in Files
  BY ChildrenListed DEF Children
<1>5. HashesUnder(PathOf(i)) = ChildHashes(i)
  BY <1>2, <1>3, <1>4 DEF ChildHashes
<1>6. PathOf(i) \in {ParentPath(p) : p \in {q \in DOMAIN fileHashes : HasParent(q)}}
        <=> Under # {}
  OBVIOUS
<1> QED BY <1>2, <1>5, <1>6

(* A DIR gets the Merkle hash of its children.                             *)
LEMMA DirHashIsMerkle ==
  ASSUME call \in Calls, Regular(call), ResultInv, pc = "assemble", NEW i \in Dirs
  PROVE  DirHash(call.entries[i]) = MerkleOf(i)
<1> DEFINE parents == {ParentPath(p) : p \in {q \in DOMAIN fileHashes : HasParent(q)}}
<1>1. FilesHashed = Files
  BY DEF FilesHashed, FilesBuilt
<1>2. /\ HashesUnder(PathOf(i)) = ChildHashes(i)
      /\ PathOf(i) \in parents <=> Children(i) # {}
  BY <1>1, ChildrenUnder DEF ResultInv, HashInv
<1>3. parentHashes = [parent \in parents |-> HashesUnder(parent)]
  BY DEF ResultInv, ParentsInv
<1>4. ChildHashes(i) = <<>> <=> Children(i) = {}
  BY ChildrenListed
<1> HIDE DEF parents
<1>5. CASE Children(i) # {}
  BY <1>2, <1>3, <1>4, <1>5 DEF DirHash, MerkleOf, PathOf
<1>6. CASE Children(i) = {}
  <2>1. call.entries[i].xh = ZeroHash
    BY <1>6 DEF Regular, Children, Files, Dirs, PathOf
  <2> QED BY <1>2, <1>3, <1>6, <2>1 DEF DirHash, MerkleOf, PathOf
<1> QED BY <1>5, <1>6

LEMMA AssembleKeepsResult ==
  ASSUME PoolInv, HeapInv, ResultInv, Assemble
  PROVE  ResultInv'
<1>1. /\ UNCHANGED <<call, results>> /\ pc = "assemble" /\ pc' = "returned"
      /\ outcome' = [status |-> "ok", archive |-> Archive(call.entries, elements)]
      /\ call \in Calls /\ DOMAIN elements = DOMAIN call.entries
  BY DEF Assemble, Leave, poolVars, PoolInv, TypeOK, MainTypeOK
<1>2. FilesBuilt = Files /\ DirsBuilt = Dirs
  BY <1>1 DEF FilesBuilt, DirsBuilt
<1>3. Promise!AllSerializable(call)
  BY <1>1, <1>2, PromisedParts DEF ResultInv, ElementsInv
<1>4. ASSUME Regular(call)
      PROVE  Archive(call.entries, elements) = Promise!Promised(call)
  <2> DEFINE e(i) == IF i \in Files THEN ContainerOf(i)
                                    ELSE DirContainer(call.entries[i], MerkleOf(i))
  <2>1. \A i \in DOMAIN call.entries : elements[i] = e(i)
    <3>1. ASSUME NEW i \in DOMAIN call.entries, i \in Files
          PROVE  elements[i] = ContainerOf(i)
      BY <1>2, <3>1 DEF ResultInv, ElementsInv
    <3>2. ASSUME NEW i \in DOMAIN call.entries, i \notin Files
          PROVE  elements[i] = DirContainer(call.entries[i], MerkleOf(i))
      <4>1. i \in Dirs
        BY <1>1, <3>2, EntryParts
      <4> QED BY <1>1, <1>2, <1>4, <4>1, DirHashIsMerkle DEF ResultInv, ElementsInv
    <3> QED BY <3>1, <3>2
  <2>2. elements = [i \in DOMAIN call.entries |-> elements[i]]
    BY <1>1 DEF ResultInv, ElementsInv
  <2>3. Promise!Promised(call) = Archive(call.entries, [i \in DOMAIN call.entries |-> e(i)])
    BY <1>1, PromisedParts
  <2> HIDE DEF e
  <2>4. elements = [i \in DOMAIN call.entries |-> e(i)]
    BY <2>1, <2>2
  <2> QED BY <2>3, <2>4
<1>5. OutcomeInv'
  BY <1>1, <1>3, <1>4 DEF OutcomeInv
<1>6. \A s \in Slots(call) : ResultFits(s)'
  BY <1>1 DEF ResultInv, SlotInv, ResultFits
<1> QED BY <1>1, <1>5, <1>6, ReturnKeepsResult

-----------------------------------------------------------------------------
LEMMA ResultStep == PoolInv /\ HeapInv /\ ResultInv /\ [Next]_vars => ResultInv'
<1> SUFFICES ASSUME PoolInv, HeapInv, ResultInv, [Next]_vars PROVE ResultInv'
  OBVIOUS
<1>1. CASE Main
  BY <1>1, QuietKeepsResult, FailuresKeepResult, CollectFailuresKeepResult,
     CollectSlotKeepsResult, SequentialSerializeKeepsResult, SequentialRecordKeepsResult,
     BuildParentsKeepsResult, SerializeDirKeepsResult, AssembleKeepsResult DEF Main
<1>2. CASE \E w \in Workers(call) : Worker(w)
  BY <1>2, WorkerKeepsResult
<1>3. CASE UNCHANGED vars
  <2>1. UNCHANGED <<call, outcome, pc, pos, results, elements, fileHashes, parentHashes>>
    BY <1>3 DEF vars, argVars, mainVars, builtVars, poolVars
  <2>2. FilesBuilt' = FilesBuilt /\ FilesHashed' = FilesHashed /\ DirsBuilt' = DirsBuilt
    BY <2>1 DEF FilesBuilt, FilesHashed, DirsBuilt, Files, Dirs
  <2>3. CASE pc # "returned"
    BY <2>1, <2>2, <2>3, StillKeepsResult
  <2>4. CASE pc = "returned"
    <3>1. OutcomeInv'
      BY <2>1 DEF ResultInv, OutcomeInv
    <3>2. \A s \in Slots(call) : ResultFits(s)'
      BY <2>1 DEF ResultInv, SlotInv, ResultFits
    <3> QED BY <2>1, <2>4, <3>1, <3>2, ReturnKeepsResult
  <2> QED BY <2>3, <2>4
<1> QED BY <1>1, <1>2, <1>3 DEF Next, Finished

LEMMA ResultInvariant == Spec => []ResultInv
BY InitResult, ResultStep, PoolInvariant, HeapInvariant, PTL DEF Spec

-----------------------------------------------------------------------------
(* What follows from the invariant of the result.                          *)

(* The hypothesis of what is said of the bytes returned: the code trusts   *)
(* its caller with it.                                                     *)
RegularCalls == \A c \in Calls : Regular(c)

(* What a call returns does not depend on the number of threads or on how  *)
(* they were scheduled: the promised archive, or an error the entries cause*)
(* when taken in order.                                                    *)
THEOREM ResultCorrect == RegularCalls => (Spec => []ResultAsPromised)
<1> SUFFICES ASSUME RegularCalls PROVE Spec => []ResultAsPromised
  OBVIOUS
<1>1. PoolInv /\ ResultInv => ResultAsPromised
  BY DEF RegularCalls, PoolInv, TypeOK, MainTypeOK, ResultInv, OutcomeInv, ResultAsPromised
<1> QED BY <1>1, PoolInvariant, ResultInvariant, PTL

(* Every DIR of the promised archive passes verifyMerkleAt.                *)
LEMMA PromisedVerifies ==
  ASSUME call \in Calls, NEW i \in Dirs
  PROVE  verifyMerkleAt(Promise!Promised(call), i)
<1> DEFINE e(k) == IF k \in Files THEN ContainerOf(k)
                                  ELSE DirContainer(call.entries[k], MerkleOf(k))
           archive == Promise!Promised(call)
           S == {k \in DOMAIN archive.body :
                   /\ archive.body[k].type = "file"
                   /\ isDirectChild(PathOf(i), archive.body[k].path)}
<1>1. archive.body = [k \in DOMAIN call.entries |-> e(k)]
  BY PromisedParts DEF Archive
<1>2. \A k \in DOMAIN call.entries :
        /\ e(k).type = "file" <=> k \in Files
        /\ k \in Files => e(k).path = PathOf(k)
  BY DEF FileContainer, DirContainer, ContainerOf, PathOf
<1>3. i \notin Files /\ i \in DOMAIN call.entries /\ Files \subseteq DOMAIN call.entries
  BY EntryParts
<1>4. archive.body[i] = DirContainer(call.entries[i], MerkleOf(i))
  BY <1>1, <1>3
<1>5. S = Children(i)
  <2> HIDE DEF e, archive
  <2> QED BY <1>1, <1>2, <1>3 DEF Children
<1>6. ChildChecksums(archive, PathOf(i)) = ChildHashes(i)
  <2>1. ChildChecksums(archive, PathOf(i)) =
          [k \in DOMAIN Listed(S) |-> Checksum(archive.body[Listed(S)[k]])]
    BY DEF ChildChecksums
  <2>2. \A k \in DOMAIN Listed(Children(i)) :
          archive.body[Listed(Children(i))[k]] = ContainerOf(Listed(Children(i))[k])
    <3>1. \A k \in DOMAIN Listed(Children(i)) : Listed(Children(i))[k] \in Files
      BY ChildrenListed DEF Children
    <3> HIDE DEF archive
    <3> QED BY <1>1, <1>3, <3>1
  <2> HIDE DEF S, archive
  <2> QED BY <1>5, <2>1, <2>2 DEF ChildHashes
<1>7. archive.body[i].path = PathOf(i) /\ archive.body[i].xh = MerkleOf(i)
  BY <1>4 DEF DirContainer, PathOf
<1>8. ChildHashes(i) = <<>> <=> Children(i) = {}
  BY ChildrenListed
<1> HIDE DEF archive
<1>9. verifyMerkleAt(archive, i) <=>
        archive.body[i].xh =
          IF ChildChecksums(archive, archive.body[i].path) = <<>> THEN ZeroHash
          ELSE computeMerkleHash(ChildChecksums(archive, archive.body[i].path))
  BY Zenon DEF verifyMerkleAt
<1>10. verifyMerkleAt(archive, i)
  BY <1>6, <1>7, <1>8, <1>9 DEF MerkleOf
<1> QED BY <1>10 DEF archive

(* Every DIR of a fresh archive passes the reader's Merkle verification.   *)
THEOREM FreshArchiveCorrect == RegularCalls => (Spec => []FreshArchiveVerifies)
<1> SUFFICES ASSUME RegularCalls PROVE Spec => []FreshArchiveVerifies
  OBVIOUS
<1>1. PoolInv /\ ResultInv => FreshArchiveVerifies
  BY PromisedVerifies DEF RegularCalls, PoolInv, TypeOK, MainTypeOK, ResultInv, OutcomeInv,
     FreshArchiveVerifies, Dirs
<1> QED BY <1>1, PoolInvariant, ResultInvariant, PTL

(* The outcome is set by the step that returns, and by no other.           *)
LEMMA OutcomeSetOnce ==
  ASSUME [Next]_vars, outcome' # outcome
  PROVE  /\ pc # "returned"
         /\ \/ \E e : outcome' = [status |-> "error", error |-> e]
            \/ \E a : outcome' = [status |-> "ok", archive |-> a]
<1> USE DEF argVars
<1>1. Next
  BY DEF vars
<1>2. CASE Finished
  BY <1>2 DEF Finished, vars
<1>3. CASE \E w \in Workers(call) : Worker(w)
  BY <1>3 DEF Worker, ClaimSlot, SerializeSlot, SerializeFails, CountFile, CountBytes,
     MainWaits
<1>4. Main => pc # "returned"
  BY DEF Main, AllocationFails, OutOfMemoryAt, Drain, SequentialFails, DirFails, Begin,
     SpawnWorker, SpawnFails, PollTest, PollLoadFiles, PollCallback, JoinWorkers,
     CollectError, CollectSlot, CollectFails, CollectDone, SequentialSerialize,
     SequentialRecord, SequentialSkipsDir, SequentialDone, BuildParents, SerializeDir,
     DirsSkipFile, DirsDone, Assemble
<1>5. CASE Main /\ \E e : FailWith(e)
  <2>1. \E e : outcome' = [status |-> "error", error |-> e]
    BY <1>5 DEF FailWith, Leave
  <2> QED BY <1>4, <1>5, <2>1
<1>6. CASE CollectError \/ CollectFails \/ Assemble
  BY <1>6 DEF CollectError, CollectFails, Assemble, Leave
<1>7. CASE /\ Main /\ ~\E e : FailWith(e)
           /\ ~CollectError /\ ~CollectFails /\ ~Assemble
  BY <1>7 DEF Main, AllocationFails, OutOfMemoryAt, Drain, SequentialFails, DirFails,
     Begin, SpawnWorker, SpawnFails, PollTest, PollLoadFiles, PollCallback, JoinWorkers,
     CollectSlot, CollectDone, SequentialSerialize, SequentialRecord, SequentialSkipsDir,
     SequentialDone, BuildParents, SerializeDir, DirsSkipFile, DirsDone, ControlOnly
<1> QED BY <1>1, <1>2, <1>3, <1>5, <1>6, <1>7 DEF Next

(* The call implements the safety of its abstract specification: it begins *)
(* as that does, and every step returns what it promises or is a stutter.  *)
THEOREM RefinesArchiveCreate ==
  RegularCalls => (Spec => Promise!Init /\ [][Promise!Next]_<<call, outcome>>)
<1> SUFFICES ASSUME RegularCalls
             PROVE  Spec => Promise!Init /\ [][Promise!Next]_<<call, outcome>>
  OBVIOUS
<1>1. Init => Promise!Init
  BY DEF Init, Promise!Init, Promise!Running
<1>2. PoolInv /\ ResultInv /\ ResultInv' /\ [Next]_vars => [Promise!Next]_<<call, outcome>>
  <2> SUFFICES ASSUME PoolInv, ResultInv, ResultInv', [Next]_vars
               PROVE  [Promise!Next]_<<call, outcome>>
    OBVIOUS
  <2>1. call' = call /\ call \in Calls
    BY CallFixed DEF PoolInv, TypeOK, MainTypeOK
  <2>2. CASE outcome' = outcome
    BY <2>1, <2>2
  <2>3. CASE outcome' # outcome
    <3>1. /\ pc # "returned" /\ outcome = Promise!Running
          /\ \/ \E e : outcome' = [status |-> "error", error |-> e]
             \/ \E a : outcome' = [status |-> "ok", archive |-> a]
      BY <2>3, OutcomeSetOnce DEF ResultInv, OutcomeInv, Promise!Running
    <3>2. CASE \E e : outcome' = [status |-> "error", error |-> e]
      <4>1. PICK e : outcome' = [status |-> "error", error |-> e]
        BY <3>2
      <4>2. e \in Promise!PossibleErrors(call)
        BY <2>1, <4>1 DEF ResultInv, OutcomeInv
      <4> QED BY <2>1, <3>1, <4>1, <4>2 DEF Promise!Next, Promise!Fail, Promise!Failed
    <3>3. CASE \E a : outcome' = [status |-> "ok", archive |-> a]
      <4>1. PICK a : outcome' = [status |-> "ok", archive |-> a]
        BY <3>3
      <4>2. Promise!AllSerializable(call) /\ a = Promise!Promised(call)
        BY <2>1, <4>1 DEF ResultInv, OutcomeInv, RegularCalls
      <4> QED BY <2>1, <3>1, <4>1, <4>2
              DEF Promise!Next, Promise!Succeed, Promise!Returned
    <3> QED BY <3>1, <3>2, <3>3
  <2> QED BY <2>2, <2>3
<1> QED BY <1>1, <1>2, PoolInvariant, ResultInvariant, PTL DEF Spec

-----------------------------------------------------------------------------
(* Progress.                                                               *)

(* The slots whose file, and whose bytes, the workers have counted: those  *)
(* with a result that no worker has yet to count.                          *)
FilesCounted ==
  {s \in Slots(call) :
     /\ Completed(s)
     /\ \A w \in Workers(call) : wpc[w] = "countFile" => wslot[w] # s}
BytesCounted ==
  {s \in Slots(call) :
     /\ Completed(s)
     /\ \A w \in Workers(call) : wpc[w] \in {"countFile", "countBytes"} => wslot[w] # s}
SizesIn(S) ==
  [i \in DOMAIN call.entries |->
     IF \E s \in S : EntryIndex(call, s) = i THEN call.entries[i].size ELSE 0]

(* The shared counters say how many slots are counted, and their bytes.    *)
CountInv ==
  /\ \A w \in Workers(call) :
       wpc[w] \in {"countFile", "countBytes"} => Completed(wslot[w])
  /\ aFiles = Cardinality(FilesCounted)
  /\ aBytes = Total(SizesIn(BytesCounted))

(* What was reported is not above what main will report next.              *)
Polling == {"poll", "loadFiles", "callback", "join"}
ReportsOnlyCounts == UsesPool(call) \/ call.comp = NoComp
ReportInv ==
  ReportsOnlyCounts =>
    /\ seenFiles <= aFiles
    /\ IF pc \in Polling
       THEN /\ report.entries <= entriesDone + seenFiles
            /\ report.bytes <= bytesDone + aBytes
       ELSE report.entries <= entriesDone /\ report.bytes <= bytesDone
ReportRises ==
  ReportsOnlyCounts => report'.entries >= report.entries /\ report'.bytes >= report.bytes

-----------------------------------------------------------------------------
LEMMA SizesSummed ==
  ASSUME call \in Calls, NEW S \in SUBSET Slots(call)
  PROVE  /\ SizesIn(S) \in Seq(Nat) /\ Len(SizesIn(S)) = Len(call.entries)
         /\ Total(SizesIn(S)) <= TotalFileBytes(call)
<1>1. /\ Len(call.entries) \in Nat /\ DOMAIN call.entries = 1 .. Len(call.entries)
      /\ \A i \in DOMAIN call.entries : call.entries[i].size \in Nat
  BY ArgumentTypes
<1>2. SizesIn(S) \in Seq(Nat) /\ Len(SizesIn(S)) = Len(call.entries)
  <2> DEFINE size(i) == IF \E s \in S : EntryIndex(call, s) = i
                        THEN call.entries[i].size ELSE 0
  <2>1. \A i \in 1 .. Len(call.entries) : size(i) \in Nat
    BY <1>1
  <2>2. SizesIn(S) = [i \in 1 .. Len(call.entries) |-> size(i)]
    BY <1>1 DEF SizesIn
  <2> HIDE DEF size
  <2> QED BY <1>1, <2>1, <2>2
<1>3. FileSizes(call) \in Seq(Nat) /\ Len(FileSizes(call)) = Len(call.entries)
  BY <1>1 DEF FileSizes
<1>4. ASSUME NEW i \in 1 .. Len(call.entries)
      PROVE  SizesIn(S)[i] <= FileSizes(call)[i]
  <2>1. CASE \E s \in S : EntryIndex(call, s) = i
    <3>1. IsFile(call.entries[i])
      BY <2>1, SlotOrder DEF Files, FileIndices
    <3>2. SizesIn(S)[i] = call.entries[i].size /\ FileSizes(call)[i] = call.entries[i].size
      BY <1>1, <2>1, <3>1 DEF SizesIn, FileSizes
    <3> QED BY <1>1, <3>2
  <2>2. CASE ~\E s \in S : EntryIndex(call, s) = i
    <3>1. SizesIn(S)[i] = 0
      BY <1>1, <2>2 DEF SizesIn
    <3>2. FileSizes(call)[i] \in Nat
      BY <1>3
    <3> QED BY <3>1, <3>2
  <2> QED BY <2>1, <2>2
<1> QED BY <1>2, <1>3, <1>4, SumsMonotone DEF TotalFileBytes

(* Counting one more slot adds its file's bytes.                           *)
LEMMA SizesAdded ==
  ASSUME call \in Calls, NEW S \in SUBSET Slots(call),
         NEW s \in Slots(call), s \notin S
  PROVE  Total(SizesIn(S \cup {s})) = Total(SizesIn(S)) + FileAt(call, s).size
<1> DEFINE k == EntryIndex(call, s)
           a == SizesIn(S)
           b == SizesIn(S \cup {s})
           d == call.entries[k].size
<1>1. /\ DOMAIN call.entries = 1 .. Len(call.entries)
      /\ k \in DOMAIN call.entries /\ d \in Nat
  BY ArgumentTypes
<1>2. /\ a \in Seq(Nat) /\ b \in Seq(Nat)
      /\ Len(a) = Len(call.entries) /\ Len(b) = Len(call.entries)
  BY SizesSummed
<1>3. ~\E t \in S : EntryIndex(call, t) = k
  BY SlotOrder
<1>4. a[k] = 0 /\ b[k] = d
  BY <1>1, <1>3 DEF SizesIn
<1>5. \A i \in DOMAIN call.entries : i # k => b[i] = a[i]
  BY <1>1 DEF SizesIn
<1>6. FileAt(call, s).size = d
  BY DEF FileAt
<1> HIDE DEF a, b, d, k
<1>7. /\ Len(a) = Len(b) /\ k \in 1 .. Len(a) /\ b[k] = a[k] + d
      /\ \A i \in 1 .. Len(a) : i # k => b[i] = a[i]
  BY <1>1, <1>2, <1>4, <1>5
<1>8. Total(b) = Total(a) + d
  BY <1>1, <1>2, <1>7, SumsRaisedAt
<1> QED BY <1>6, <1>8 DEF a, b

LEMMA CountersBounded ==
  ASSUME PoolInv, CountInv
  PROVE  aFiles <= FileCount(call) /\ aBytes <= TotalFileBytes(call)
<1>1. call \in Calls /\ FileCount(call) \in Nat
  BY ArgumentTypes DEF PoolInv, TypeOK, MainTypeOK
<1>2. IsFiniteSet(Slots(call)) /\ Cardinality(Slots(call)) = FileCount(call)
  BY <1>1, FS_Interval DEF Slots
<1>3. FilesCounted \subseteq Slots(call) /\ BytesCounted \subseteq Slots(call)
  BY DEF FilesCounted, BytesCounted
<1>4. Cardinality(FilesCounted) <= Cardinality(Slots(call))
  BY <1>2, <1>3, FS_Subset
<1> QED BY <1>1, <1>2, <1>3, <1>4, SizesSummed DEF CountInv

-----------------------------------------------------------------------------
(* The counters.                                                           *)

LEMMA InitCount == Init => CountInv
<1> SUFFICES ASSUME Init PROVE CountInv
  OBVIOUS
<1>1. \A s \in Slots(call) : ~Completed(s)
  BY DEF Init, Completed, NoResult
<1>2. \A w \in Workers(call) : wpc[w] = "idle"
  BY DEF Init
<1>3. FilesCounted = {} /\ BytesCounted = {}
  BY <1>1 DEF FilesCounted, BytesCounted
<1>4. Total(SizesIn({})) = 0
  <2>1. call \in Calls
    BY DEF Init
  <2>2. SizesIn({}) \in Seq(Nat) /\ Len(SizesIn({})) = Len(call.entries)
    BY <2>1, SizesSummed
  <2>3. \A i \in 1 .. Len(call.entries) : SizesIn({})[i] = 0
    BY <2>1, ArgumentTypes DEF SizesIn
  <2> QED BY <2>2, <2>3, SumsOfZeros
<1> QED BY <1>2, <1>3, <1>4, FS_EmptySet DEF Init, CountInv

(* A step that completes no slot and moves no worker that has to count.    *)
LEMMA StillKeepsCount ==
  ASSUME CountInv, UNCHANGED <<call, aFiles, aBytes>>,
         \A s \in Slots(call) : Completed(s)' <=> Completed(s),
         \A w \in Workers(call) : Holds(w) => wslot[w] \in Slots(call),
         \A w \in Workers(call) :
           \/ wpc'[w] = wpc[w] /\ wslot'[w] = wslot[w]
           \/ {wpc[w], wpc'[w]} \cap {"countFile", "countBytes"} = {}
  PROVE  CountInv'
<1>1. FilesCounted' = FilesCounted /\ BytesCounted' = BytesCounted
  BY DEF FilesCounted, BytesCounted
<1>2. SizesIn(BytesCounted)' = SizesIn(BytesCounted)
  BY <1>1 DEF SizesIn
<1>3. ASSUME NEW w \in Workers(call), wpc'[w] \in {"countFile", "countBytes"},
             NEW s, s = wslot'[w]
      PROVE  Completed(s)'
  <2>1. /\ wpc[w] \in {"countFile", "countBytes"} /\ s = wslot[w] /\ s \in Slots(call)
        /\ Completed(s)
    BY <1>3 DEF CountInv, Holds
  <2> QED BY <2>1
<1> QED BY <1>1, <1>2, <1>3 DEF CountInv, Completed

LEMMA WorkerKeepsCount ==
  ASSUME PoolInv, CountInv, NEW w \in Workers(call), Worker(w)
  PROVE  CountInv' /\ aFiles' >= aFiles /\ aBytes' >= aBytes
<1> DEFINE t == wslot[w]
<1>1. /\ call' = call /\ call \in Calls /\ aFiles \in Nat /\ aBytes \in Nat
      /\ \A v \in Workers(call) : v # w => wpc'[v] = wpc[v] /\ wslot'[v] = wslot[v]
      /\ \A v \in Workers(call) : Holds(v) => wslot[v] \in Slots(call)
      /\ DOMAIN wpc = Workers(call)
  BY WorkerFrame DEF PoolInv, TypeOK, MainTypeOK, PoolTypeOK
<1>2. \A v \in Workers(call) : v # w /\ Holds(v) /\ Holds(w) => wslot[v] # t
  BY DEF PoolInv, ClaimInv, SlotsHeldOnce
<1>3. ASSUME SerializeSlot(w) \/ SerializeFails(w)
      PROVE  CountInv' /\ UNCHANGED <<aFiles, aBytes>>
  <2>1. /\ wpc[w] = "serialize" /\ wpc'[w] = "countFile" /\ Holds(w)
        /\ UNCHANGED <<aFiles, aBytes, wslot>> /\ t \in Slots(call) /\ ~Completed(t)
    BY <1>1, <1>3
       DEF SerializeSlot, SerializeFails, AfterErrorCount, Holds, PoolInv, ClaimInv,
           SlotsHeldOnce
  <2>2. /\ DOMAIN results = Slots(call)
        /\ DOMAIN results[t] = {"bytes", "hash", "owned", "err"}
    BY <2>1 DEF PoolInv, TypeOK, ResultsTypeOK
  <2>3. \A s \in Slots(call) : s # t => results'[s] = results[s]
    BY <1>3, <2>2 DEF SerializeSlot, SerializeFails
  <2>4. results'[t].bytes # Empty \/ results'[t].err # NoError
    <3>1. CASE SerializeSlot(w)
      <4>1. \A f, comp : FileContainer(f, comp) # Empty
        BY DEF FileContainer, Empty
      <4> QED BY <2>1, <2>2, <3>1, <4>1 DEF SerializeSlot
    <3>2. CASE SerializeFails(w)
      BY <2>1, <2>2, <3>2, ErrorsTyped DEF SerializeFails, ErrorRecorded
    <3> QED BY <1>3, <3>1, <3>2
  <2>5. \A s \in Slots(call) : Completed(s)' <=> Completed(s) \/ s = t
    BY <2>3, <2>4 DEF Completed
  <2>6. FilesCounted' = FilesCounted
    BY <1>1, <2>1, <2>5 DEF FilesCounted
  <2>7. BytesCounted' = BytesCounted
    BY <1>1, <2>1, <2>5 DEF BytesCounted
  <2>8. SizesIn(BytesCounted)' = SizesIn(BytesCounted)
    BY <1>1, <2>7 DEF SizesIn
  <2>9. ASSUME NEW v \in Workers(call), wpc'[v] \in {"countFile", "countBytes"},
               NEW s, s = wslot'[v]
        PROVE  Completed(s)'
    <3>1. CASE v = w
      BY <2>1, <2>5, <2>9, <3>1
    <3>2. CASE v # w
      BY <1>1, <2>1, <2>5, <2>9, <3>2 DEF CountInv, Holds
    <3> QED BY <3>1, <3>2
  <2> QED BY <1>1, <2>1, <2>6, <2>8, <2>9 DEF CountInv, Completed
<1>4. ASSUME CountFile(w)
      PROVE  CountInv' /\ aFiles' = aFiles + 1 /\ aBytes' = aBytes
  <2>1. /\ wpc[w] = "countFile" /\ wpc'[w] = "countBytes" /\ Holds(w)
        /\ UNCHANGED <<aBytes, wslot, results>> /\ aFiles' = aFiles + 1
        /\ t \in Slots(call) /\ Completed(t)
    BY <1>1, <1>4 DEF CountFile, Holds, CountInv
  <2>2. \A s : Completed(s)' <=> Completed(s)
    BY <2>1 DEF Completed
  <2>3. FilesCounted' = FilesCounted \cup {t} /\ t \notin FilesCounted
    BY <1>1, <1>2, <2>1, <2>2 DEF FilesCounted, Holds
  <2>4. BytesCounted' = BytesCounted
    BY <1>1, <2>1, <2>2 DEF BytesCounted
  <2>5. Cardinality(FilesCounted') = Cardinality(FilesCounted) + 1
    <3>1. IsFiniteSet(Slots(call))
      BY <1>1, ArgumentTypes, FS_Interval DEF Slots
    <3>2. FilesCounted \subseteq Slots(call)
      BY DEF FilesCounted
    <3>3. IsFiniteSet(FilesCounted)
      BY <3>1, <3>2, FS_Subset
    <3> QED BY <2>3, <3>3, FS_AddElement
  <2>6. SizesIn(BytesCounted)' = SizesIn(BytesCounted)
    BY <1>1, <2>4 DEF SizesIn
  <2>7. ASSUME NEW v \in Workers(call), wpc'[v] \in {"countFile", "countBytes"},
               NEW s, s = wslot'[v]
        PROVE  Completed(s)'
    BY <1>1, <2>1, <2>2, <2>7 DEF CountInv
  <2> QED BY <1>1, <2>1, <2>5, <2>6, <2>7 DEF CountInv, Completed
<1>5. ASSUME CountBytes(w)
      PROVE  CountInv' /\ aFiles' = aFiles /\ aBytes' >= aBytes
  <2>1. /\ wpc[w] = "countBytes" /\ wpc'[w] = "claim" /\ Holds(w)
        /\ UNCHANGED <<aFiles, wslot, results>> /\ aBytes' = aBytes + FileAt(call, t).size
        /\ t \in Slots(call) /\ Completed(t)
    BY <1>1, <1>5 DEF CountBytes, Holds, CountInv
  <2>2. \A s : Completed(s)' <=> Completed(s)
    BY <2>1 DEF Completed
  <2>3. FilesCounted' = FilesCounted
    BY <1>1, <2>1, <2>2 DEF FilesCounted
  <2>4. BytesCounted' = BytesCounted \cup {t} /\ t \notin BytesCounted
    BY <1>1, <1>2, <2>1, <2>2 DEF BytesCounted, Holds
  <2>5. Total(SizesIn(BytesCounted)') = Total(SizesIn(BytesCounted)) + FileAt(call, t).size
    <3>1. BytesCounted \subseteq Slots(call)
      BY DEF BytesCounted
    <3>2. Total(SizesIn(BytesCounted \cup {t})) =
            Total(SizesIn(BytesCounted)) + FileAt(call, t).size
      BY <1>1, <2>1, <2>4, <3>1, SizesAdded
    <3>3. SizesIn(BytesCounted)' = SizesIn(BytesCounted \cup {t})
      BY <1>1, <2>4 DEF SizesIn
    <3> QED BY <3>2, <3>3
  <2>6. FileAt(call, t).size \in Nat
    BY <1>1, <2>1, ArgumentTypes DEF FileAt
  <2>7. ASSUME NEW v \in Workers(call), wpc'[v] \in {"countFile", "countBytes"},
               NEW s, s = wslot'[v]
        PROVE  Completed(s)'
    BY <1>1, <2>1, <2>2, <2>7 DEF CountInv
  <2> QED BY <1>1, <2>1, <2>3, <2>5, <2>6, <2>7 DEF CountInv, Completed
<1>6. ASSUME ClaimSlot(w)
      PROVE  CountInv' /\ UNCHANGED <<aFiles, aBytes>>
  <2>1. /\ wpc[w] = "claim" /\ wpc'[w] \in {"serialize", "exited"}
        /\ UNCHANGED <<aFiles, aBytes, results>>
    BY <1>1, <1>6 DEF ClaimSlot
  <2>2. \A s : Completed(s)' <=> Completed(s)
    BY <2>1 DEF Completed
  <2> QED BY <1>1, <2>1, <2>2, StillKeepsCount
<1> QED BY <1>1, <1>3, <1>4, <1>5, <1>6 DEF Worker

LEMMA MainKeepsCounters == Main => UNCHANGED <<aFiles, aBytes>>
<1> USE DEF poolVars
<1>1. \A e : FailWith(e) => UNCHANGED <<aFiles, aBytes>>
  BY DEF FailWith
<1>2. ControlOnly => UNCHANGED <<aFiles, aBytes>>
  BY DEF ControlOnly
<1> QED
  BY <1>1, <1>2
     DEF Main, AllocationFails, OutOfMemoryAt, Drain, SequentialFails, DirFails, Begin,
     SpawnWorker, SpawnFails, PollTest, PollLoadFiles, PollCallback, JoinWorkers,
     CollectError, CollectSlot, CollectFails, CollectDone, SequentialSerialize,
     SequentialRecord, SequentialSkipsDir, SequentialDone, BuildParents, SerializeDir,
     DirsSkipFile, DirsDone, Assemble

LEMMA CountStep == PoolInv /\ CountInv /\ [Next]_vars => CountInv'
<1> SUFFICES ASSUME PoolInv, CountInv, [Next]_vars PROVE CountInv'
  OBVIOUS
<1>1. /\ TypeOK /\ call' = call
      /\ \A w \in Workers(call) : Holds(w) => wslot[w] \in Slots(call)
  BY CallFixed DEF PoolInv, TypeOK, PoolTypeOK
<1>2. CASE Main /\ QuietStep
  <2>1. UNCHANGED <<aFiles, aBytes, wpc, wslot>>
    BY <1>2, MainKeepsCounters DEF QuietStep
  <2>2. \A s \in Slots(call) : Completed(s)' <=> Completed(s)
    BY <1>2 DEF QuietStep, Completed
  <2> QED BY <1>1, <2>1, <2>2, StillKeepsCount
<1>3. CASE SpawnWorker \/ SpawnFails
  <2>1. /\ UNCHANGED <<aFiles, aBytes, wslot, results>>
        /\ \A w \in Workers(call) :
             wpc'[w] = wpc[w] \/ (wpc[w] = "idle" /\ wpc'[w] = "claim")
    <3>1. CASE SpawnWorker
      <4>1. spawned + 1 \in Workers(call) /\ wpc[spawned + 1] = "idle"
        BY <1>1, <3>1, ArgumentTypes
           DEF SpawnWorker, TypeOK, MainTypeOK, Workers, PoolInv, SpawnInv
      <4> QED BY <1>1, <3>1, <4>1 DEF SpawnWorker, TypeOK, PoolTypeOK
    <3>2. CASE SpawnFails
      BY <3>2 DEF SpawnFails
    <3> QED BY <1>3, <3>1, <3>2
  <2>2. \A s : Completed(s)' <=> Completed(s)
    BY <2>1 DEF Completed
  <2> QED BY <1>1, <2>1, <2>2, StillKeepsCount
<1>4. CASE \E w \in Workers(call) : Worker(w)
  BY <1>4, WorkerKeepsCount
<1>5. CASE UNCHANGED vars
  <2>1. UNCHANGED <<aFiles, aBytes, wpc, wslot, results>>
    BY <1>5 DEF vars, poolVars
  <2>2. \A s : Completed(s)' <=> Completed(s)
    BY <2>1 DEF Completed
  <2> QED BY <1>1, <2>1, <2>2, StillKeepsCount
<1> QED BY <1>1, <1>2, <1>3, <1>4, <1>5, MainQuiet DEF Next, Finished

LEMMA CountInvariant == Spec => []CountInv
BY InitCount, CountStep, PoolInvariant, PTL DEF Spec

-----------------------------------------------------------------------------
(* The reports.                                                            *)

(* A step that reports nothing, outside the poll loop.                     *)
LEMMA StillKeepsReport ==
  ASSUME ReportInv, UNCHANGED <<call, seenFiles, entriesDone, bytesDone, report,
                                aFiles, aBytes>>,
         pc' \in Polling <=> pc \in Polling
  PROVE  ReportInv' /\ report' = report
BY DEF ReportInv, ReportsOnlyCounts

LEMMA ReportStep ==
  PoolInv /\ CountInv /\ ReportInv /\ [Next]_vars => ReportInv' /\ ReportRises
<1> SUFFICES ASSUME PoolInv, CountInv, ReportInv, [Next]_vars
             PROVE  ReportInv' /\ ReportRises
  OBVIOUS
<1> USE DEF Polling
<1>1. /\ call' = call /\ call \in Calls /\ pos \in Nat
      /\ seenFiles \in Nat /\ entriesDone \in Nat /\ bytesDone \in Nat
      /\ report.entries \in Nat /\ report.bytes \in Nat
      /\ aFiles \in Nat /\ aBytes \in Nat
      /\ FileCount(call) \in Nat /\ TotalFileBytes(call) \in Nat
  BY CallFixed, ArgumentTypes DEF PoolInv, TypeOK, MainTypeOK, PoolTypeOK
<1>2. aFiles <= FileCount(call) /\ aBytes <= TotalFileBytes(call)
  BY CountersBounded
<1>3. report' = report => ReportRises
  BY <1>1 DEF ReportRises
<1>4. CASE \/ AllocationFails \/ Drain \/ SequentialFails \/ DirFails
           \/ CollectError \/ CollectFails \/ Assemble
  <2>1. ASSUME NEW e, FailWith(e)
        PROVE  /\ UNCHANGED <<seenFiles, entriesDone, bytesDone, report>>
               /\ pc' = "returned"
    BY <2>1 DEF FailWith, Leave, progressVars
  <2>2. /\ UNCHANGED <<seenFiles, entriesDone, bytesDone, report>>
        /\ pc \notin Polling /\ pc' = "returned"
    BY <1>4, <2>1
       DEF AllocationFails, OutOfMemoryAt, Drain, SequentialFails, DirFails, CollectError,
           CollectFails, Assemble, Leave, progressVars
  <2>3. UNCHANGED <<aFiles, aBytes>>
    BY <1>4, MainKeepsCounters DEF Main
  <2> QED BY <1>1, <1>3, <2>2, <2>3, StillKeepsReport
<1>5. CASE \/ Begin \/ SpawnFails \/ CollectSlot \/ CollectDone
           \/ SequentialSkipsDir \/ SequentialDone \/ BuildParents
           \/ DirsSkipFile \/ DirsDone
  <2>1. /\ UNCHANGED <<seenFiles, entriesDone, bytesDone, report>>
        /\ pc \notin Polling /\ pc' \notin Polling
    BY <1>5
       DEF Begin, SpawnFails, CollectSlot, CollectDone, SequentialSkipsDir,
           SequentialDone, BuildParents, DirsSkipFile, DirsDone, ControlOnly, progressVars
  <2>2. UNCHANGED <<aFiles, aBytes>>
    BY <1>5, MainKeepsCounters DEF Main
  <2> QED BY <1>1, <1>3, <2>1, <2>2, StillKeepsReport
<1>6. CASE SpawnWorker
  BY <1>1, <1>6 DEF SpawnWorker, progressVars, ReportInv, ReportsOnlyCounts, ReportRises
<1>7. CASE PollTest
  BY <1>1, <1>3, <1>7, StillKeepsReport DEF PollTest, ControlOnly, progressVars, poolVars
<1>8. CASE PollLoadFiles
  <2>1. /\ pc = "loadFiles" /\ pc' = "callback" /\ seenFiles' = aFiles
        /\ UNCHANGED <<entriesDone, bytesDone, report, aFiles, aBytes>>
    BY <1>8 DEF PollLoadFiles, progressVars, poolVars
  <2> QED BY <1>1, <2>1 DEF ReportInv, ReportsOnlyCounts, ReportRises
<1>9. CASE PollCallback
  <2>1. /\ pc = "callback" /\ pc' = "poll"
        /\ report' = [entries |-> entriesDone + seenFiles, bytes |-> bytesDone + aBytes]
        /\ UNCHANGED <<seenFiles, entriesDone, bytesDone, aFiles, aBytes>>
    BY <1>9 DEF PollCallback, poolVars
  <2> QED BY <1>1, <2>1 DEF ReportInv, ReportsOnlyCounts, ReportRises
<1>10. CASE JoinWorkers
  <2>1. /\ pc = "join" /\ pc' = "collect" /\ UNCHANGED <<seenFiles, aFiles, aBytes>>
        /\ entriesDone' = entriesDone + FileCount(call)
        /\ bytesDone' = bytesDone + TotalFileBytes(call)
        /\ report'.entries = entriesDone' /\ report'.bytes = bytesDone'
    BY <1>10 DEF JoinWorkers, FilesAdded, poolVars
  <2> QED BY <1>1, <1>2, <2>1 DEF ReportInv, ReportsOnlyCounts, ReportRises
<1>11. CASE SequentialSerialize
  <2>1. /\ pc = "sequential" /\ pc' = "record"
        /\ UNCHANGED <<seenFiles, entriesDone, bytesDone, aFiles, aBytes>>
        /\ ReportsOnlyCounts => report' = report
    BY <1>11
       DEF SequentialSerialize, Compresses, poolVars, ReportsOnlyCounts, PoolInv, PathInv
  <2> QED BY <1>1, <2>1 DEF ReportInv, ReportsOnlyCounts, ReportRises
<1>12. CASE SequentialRecord
  <2>1. /\ pc = "record" /\ pc' = "sequential"
        /\ UNCHANGED <<seenFiles, aFiles, aBytes>>
        /\ entriesDone' = entriesDone + 1
        /\ bytesDone' = bytesDone + call.entries[pos].size
        /\ report'.entries = entriesDone' /\ report'.bytes = bytesDone'
    BY <1>12 DEF SequentialRecord, poolVars
  <2>2. call.entries[pos].size \in Nat
    BY <1>1, <2>1, ArgumentTypes DEF PoolInv, TypeOK, MainTypeOK, FileIndices
  <2> QED BY <1>1, <2>1, <2>2 DEF ReportInv, ReportsOnlyCounts, ReportRises
<1>13. CASE SerializeDir
  <2>1. /\ pc = "dirs" /\ pc' = "dirs"
        /\ UNCHANGED <<seenFiles, bytesDone, aFiles, aBytes>>
        /\ entriesDone' = entriesDone + 1
        /\ report'.entries = entriesDone' /\ report'.bytes = bytesDone
    BY <1>13 DEF SerializeDir, poolVars
  <2> QED BY <1>1, <2>1 DEF ReportInv, ReportsOnlyCounts, ReportRises
<1>14. CASE \E w \in Workers(call) : Worker(w)
  <2>1. PICK w \in Workers(call) : Worker(w)
    BY <1>14
  <2>2. aFiles' >= aFiles /\ aBytes' >= aBytes /\ aFiles' \in Nat /\ aBytes' \in Nat
    BY <2>1, WorkerKeepsCount, StepTyped DEF PoolInv, TypeOK, PoolTypeOK
  <2>3. UNCHANGED <<pc, seenFiles, entriesDone, bytesDone, report>>
    BY <2>1
       DEF Worker, ClaimSlot, SerializeSlot, SerializeFails, CountFile, CountBytes,
           MainWaits, mainVars, progressVars
  <2> QED BY <1>1, <2>2, <2>3 DEF ReportInv, ReportsOnlyCounts, ReportRises
<1>15. CASE UNCHANGED vars
  <2>1. UNCHANGED <<pc, seenFiles, entriesDone, bytesDone, report, aFiles, aBytes>>
    BY <1>15 DEF vars, mainVars, progressVars, poolVars
  <2> QED BY <1>1, <1>3, <2>1, StillKeepsReport
<1> QED BY <1>4, <1>5, <1>6, <1>7, <1>8, <1>9, <1>10, <1>11, <1>12, <1>13, <1>14, <1>15
        DEF Next, Main, Finished

LEMMA ReportInvariant == Spec => []ReportInv
<1>1. Init => ReportInv
  BY DEF Init, ReportInv, Polling
<1> QED BY <1>1, ReportStep, PoolInvariant, CountInvariant, PTL DEF Spec

(* In a call that compresses on the pool, and in one that does not         *)
(* compress, the counts the progress callback reports never go back.       *)
THEOREM ProgressCorrect == Spec => ProgressNeverGoesBack
<1>1. PoolInv /\ CountInv /\ ReportInv /\ [Next]_vars =>
        [UsesPool(call) \/ call.comp = NoComp =>
           /\ report'.entries >= report.entries
           /\ report'.bytes >= report.bytes]_vars
  BY ReportStep DEF ReportRises, ReportsOnlyCounts
<1> QED BY <1>1, PoolInvariant, CountInvariant, ReportInvariant, PTL
        DEF Spec, ProgressNeverGoesBack
=============================================================================
