----------------------------- MODULE FullArchive -----------------------------
(***************************************************************************)
(* createFullArchive (mini_blar.zig): one call that serializes its FILE    *)
(* entries, concurrently on a pool of worker threads when compression is   *)
(* on and there is more than one thread and more than one file, then hashes*)
(* and serializes its DIR entries and assembles the archive.               *)
(*                                                                         *)
(* The main thread and the workers share next_slot, the two progress       *)
(* counters and file_results; each atomic access and each region between   *)
(* two of them is one step.  Buffers from page_allocator are <<slot, n>>.  *)
(* The caller's allocator is released by `defer` on every return and is    *)
(* not tracked.                                                            *)
(***************************************************************************)
EXTENDS ArchiveFormat

CONSTANTS
  Calls,       \* the calls considered: [entries, comp, threads]
  CpuCount,    \* std.Thread.getCpuCount(), used when threads = 0
  FileBuffers  \* buffers serializeFileEntry leaves in to_free

VARIABLES
  call, outcome,              \* arguments; what the call has returned
  pc, pos,                    \* main: program counter, loop index
  spawned,                    \* main: workers started so far
  seenFiles,                  \* main: atomic_files_done as last loaded
  entriesDone, bytesDone,     \* main: entries_done, bytes_done
  report,                     \* arguments of the latest progress callback
  elements,                   \* entry_elements
  fileHashes,                 \* file_hashes, path -> hash
  parentHashes,               \* parent_child_hashes, path -> hashes
  nextSlot, aFiles, aBytes,   \* next_slot, atomic_files_done, _bytes_done
  results,                    \* file_results
  wpc, wslot,                 \* workers: program counter, slot in hand
  pages, parallelToFree       \* live page_allocator buffers; the owned list

argVars == <<call, outcome>>
mainVars == <<pc, pos, spawned, seenFiles>>
progressVars == <<entriesDone, bytesDone, report>>
builtVars == <<elements, fileHashes, parentHashes>>
poolVars == <<nextSlot, aFiles, aBytes, results, wpc, wslot>>
heapVars == <<pages, parallelToFree>>
vars == <<argVars, mainVars, progressVars, builtVars, poolVars, heapVars>>

-----------------------------------------------------------------------------
(* What the arguments determine.                                           *)

FileCount(c) == Cardinality(FileIndices(c.entries))
Slots(c) == 0 .. FileCount(c) - 1

(* file_slots: slot -> index of the entry with that many files before it.  *)
fileSlots(c) == [s \in Slots(c) |-> Nth(FileIndices(c.entries), s)]

EntryIndexIgnoringDirs(c, slot) == slot + 1
EntryIndex(c, slot) == fileSlots(c)[slot]
FileAt(c, slot) == c.entries[EntryIndex(c, slot)]

FileSizes(c) ==
  [i \in DOMAIN c.entries |-> IF IsFile(c.entries[i]) THEN c.entries[i].size ELSE 0]
TotalFileBytes(c) == Total(FileSizes(c))

ResolvedThreads(c) == IF c.threads = 0 THEN CpuCount ELSE c.threads
UsesPool(c) == ResolvedThreads(c) > 1 /\ FileCount(c) > 1 /\ c.comp # NoComp

NumWorkers(c) ==
  IF ResolvedThreads(c) < FileCount(c) THEN ResolvedThreads(c) ELSE FileCount(c)
Workers(c) == 1 .. NumWorkers(c)

(* HashMap.put: the value of a key that is there is replaced.              *)
put(map, key, value) ==
  [k \in DOMAIN map \cup {key} |-> IF k = key THEN value ELSE map[k]]

SlotBuffers(slot) == {slot} \X (1 .. FileBuffers)

NoResult == [bytes |-> Empty, hash |-> ZeroHash, owned |-> {}, err |-> NoError]

ASSUME ConstantsAssumption ==
  /\ CpuCount \in Nat \ {0}
  /\ FileBuffers \in Nat \ {0}

(* threads is a u8; entries is a slice.                                    *)
ASSUME CallsAssumption ==
  \A c \in Calls :
    /\ c.entries \in Seq({c.entries[i] : i \in DOMAIN c.entries})
    /\ \A i \in DOMAIN c.entries : IsEntry(c.entries[i])
    /\ c.comp \in CompIds
    /\ c.threads \in 0 .. 255

-----------------------------------------------------------------------------
Init ==
  /\ call \in Calls
  /\ outcome = [status |-> "running"]
  /\ pc = "begin" /\ pos = 0
  /\ spawned = 0 /\ seenFiles = 0
  /\ entriesDone = 0 /\ bytesDone = 0
  /\ report = [entries |-> 0, bytes |-> 0]
  /\ elements = [i \in DOMAIN call.entries |-> Empty]
  /\ fileHashes = <<>> /\ parentHashes = <<>>
  /\ nextSlot = 0 /\ aFiles = 0 /\ aBytes = 0
  /\ results = [s \in Slots(call) |-> NoResult]
  /\ wpc = [w \in Workers(call) |-> "idle"]
  /\ wslot = [w \in Workers(call) |-> 0]
  /\ pages = {} /\ parallelToFree = {}

(* Steps that move only pc or pos, and what no worker touches.             *)
ControlOnly ==
  UNCHANGED <<argVars, spawned, seenFiles, progressVars, builtVars, poolVars,
              heapVars>>
MainWaits ==
  UNCHANGED <<argVars, mainVars, progressVars, builtVars, parallelToFree>>

(* Leaving the function: `defer` frees what parallel_to_free owns.         *)
Leave(result, livePages) ==
  /\ outcome' = result
  /\ pc' = "returned"
  /\ pages' = livePages \ parallelToFree
  /\ parallelToFree' = {}

FailWith(e) ==
  /\ Leave([status |-> "error", error |-> e], pages)
  /\ UNCHANGED <<call, pos, spawned, seenFiles, progressVars, builtVars, poolVars>>

(* An allocation by the caller's allocator fails somewhere in phase `at`.  *)
OutOfMemoryAt(at) == pc = at /\ FailWith("OutOfMemory")

(* Count the files, pre-allocate entry_elements (and, for the pool,        *)
(* file_slots, file_results and workers), and choose the path.             *)
Begin ==
  /\ pc = "begin"
  /\ pc' = IF UsesPool(call) THEN "spawn" ELSE "sequential"
  /\ pos' = IF UsesPool(call) THEN 0 ELSE 1
  /\ ControlOnly

-----------------------------------------------------------------------------
(* The pool: the main thread.                                              *)

SpawnWorker ==
  /\ pc = "spawn"
  /\ spawned < NumWorkers(call)
  /\ spawned' = spawned + 1
  /\ wpc' = [wpc EXCEPT ![spawned + 1] = "claim"]
  /\ pc' = IF spawned' = NumWorkers(call) THEN "poll" ELSE "spawn"
  /\ UNCHANGED <<argVars, pos, seenFiles, progressVars, builtVars, nextSlot,
                 aFiles, aBytes, results, wslot, heapVars>>

QueueUnchanged == nextSlot
QueueExhausted == nextSlot + FileCount(call)

(* Thread.spawn fails: mark the remaining slots taken so that the workers  *)
(* already running exit.                                                   *)
SpawnFails ==
  /\ pc = "spawn"
  /\ spawned < NumWorkers(call)
  /\ nextSlot' = QueueExhausted
  /\ pc' = "drain"
  /\ UNCHANGED <<argVars, pos, spawned, seenFiles, progressVars, builtVars,
                 aFiles, aBytes, results, wpc, wslot, heapVars>>

NoneAwaited == TRUE
AllExited == \A w \in 1 .. spawned : wpc[w] = "exited"

(* Join the workers spawned before the failure, then return OutOfMemory.   *)
Drain == pc = "drain" /\ AllExited /\ FailWith("OutOfMemory")

(* The poll loop: test the counter, then load it again for the callback,   *)
(* then load the byte counter and call back.                               *)
PollTest ==
  /\ pc = "poll"
  /\ pc' = IF aFiles < FileCount(call) THEN "loadFiles" ELSE "join"
  /\ UNCHANGED pos
  /\ ControlOnly

PollLoadFiles ==
  /\ pc = "loadFiles"
  /\ seenFiles' = aFiles
  /\ pc' = "callback"
  /\ UNCHANGED <<argVars, pos, spawned, progressVars, builtVars, poolVars,
                 heapVars>>

PollCallback ==
  /\ pc = "callback"
  /\ report' = [entries |-> entriesDone + seenFiles, bytes |-> bytesDone + aBytes]
  /\ pc' = "poll"
  /\ UNCHANGED <<argVars, pos, spawned, seenFiles, entriesDone, bytesDone,
                 builtVars, poolVars, heapVars>>

FilesNotAdded == entriesDone
FilesAdded == entriesDone + FileCount(call)

(* Join every worker and report the final file and byte counts.            *)
JoinWorkers ==
  /\ pc = "join"
  /\ AllExited
  /\ pc' = "collect"
  /\ entriesDone' = FilesAdded
  /\ bytesDone' = bytesDone + TotalFileBytes(call)
  /\ report' = [entries |-> FilesAdded, bytes |-> bytesDone']
  /\ UNCHANGED <<argVars, pos, spawned, seenFiles, builtVars, poolVars, heapVars>>

-----------------------------------------------------------------------------
(* The pool: worker w.                                                     *)

CursorKept == nextSlot
CursorAdvanced == nextSlot + 1

SlotAtMostCount == nextSlot <= FileCount(call)
SlotInRange == nextSlot < FileCount(call)

(* next.fetchAdd(1): take the next slot, or exit when there is none left.  *)
ClaimSlot(w) ==
  /\ wpc[w] = "claim"
  /\ nextSlot' = CursorAdvanced
  /\ wslot' = [wslot EXCEPT ![w] = nextSlot]
  /\ wpc' = [wpc EXCEPT ![w] = IF SlotInRange THEN "serialize" ELSE "exited"]
  /\ UNCHANGED <<aFiles, aBytes, results, pages>>
  /\ MainWaits

BuffersFreed(slot) == {}
BuffersPublished(slot) == SlotBuffers(slot)

(* serializeFileEntry succeeds: publish bytes, hash and owned buffers.     *)
SerializeSlot(w) ==
  LET slot == wslot[w]
      file == FileAt(call, slot)
      bytes == FileContainer(file, call.comp)
  IN  /\ wpc[w] = "serialize"
      /\ FileSerializable(file, call.comp)
      /\ results' = [results EXCEPT ![slot] =
                       [bytes |-> bytes, hash |-> Checksum(bytes),
                        owned |-> SlotBuffers(slot), err |-> NoError]]
      /\ pages' = pages \cup BuffersPublished(slot)
      /\ wpc' = [wpc EXCEPT ![w] = "countFile"]
      /\ UNCHANGED <<nextSlot, aFiles, aBytes, wslot>>
      /\ MainWaits

ErrorDropped(e) == NoError
ErrorRecorded(e) == e
AfterErrorClaim == "claim"
AfterErrorCount == "countFile"

(* serializeFileEntry fails: record the error and free local_to_free.  When*)
(* the failing allocation is to_free.append itself, the buffer that was to *)
(* be appended is in no list and stays allocated.                          *)
SerializeFails(w) ==
  LET slot == wslot[w]
      file == FileAt(call, slot)
  IN  /\ wpc[w] = "serialize"
      /\ \E e \in FileErrors(file, call.comp) :
           /\ results' = [results EXCEPT ![slot].err = ErrorRecorded(e)]
           /\ \/ UNCHANGED pages
              \/ e = "OutOfMemory" /\ pages' = pages \cup {<<slot, 1>>}
      /\ wpc' = [wpc EXCEPT ![w] = AfterErrorCount]
      /\ UNCHANGED <<nextSlot, aFiles, aBytes, wslot>>
      /\ MainWaits

CountFile(w) ==
  /\ wpc[w] = "countFile"
  /\ aFiles' = aFiles + 1
  /\ wpc' = [wpc EXCEPT ![w] = "countBytes"]
  /\ UNCHANGED <<nextSlot, aBytes, results, wslot, pages>>
  /\ MainWaits

CountBytes(w) ==
  /\ wpc[w] = "countBytes"
  /\ aBytes' = aBytes + FileAt(call, wslot[w]).size
  /\ wpc' = [wpc EXCEPT ![w] = "claim"]
  /\ UNCHANGED <<nextSlot, aFiles, results, wslot, pages>>
  /\ MainWaits

Worker(w) ==
  \/ ClaimSlot(w)
  \/ SerializeSlot(w)
  \/ SerializeFails(w)
  \/ CountFile(w)
  \/ CountBytes(w)

-----------------------------------------------------------------------------
(* Collecting the results in slot order; pos is the slot.                  *)

OwnedByResults == UNION {results[s].owned : s \in Slots(call)}

(* The first slot with an error: free what every result still owns, return *)
(* that error.                                                             *)
CollectError ==
  /\ pc = "collect" /\ pos < FileCount(call)
  /\ results[pos].err # NoError
  /\ Leave([status |-> "error", error |-> results[pos].err],
           pages \ OwnedByResults)
  /\ results' = [s \in Slots(call) |-> [results[s] EXCEPT !.owned = {}]]
  /\ UNCHANGED <<call, pos, spawned, seenFiles, progressVars, builtVars, nextSlot,
                 aFiles, aBytes, wpc, wslot>>

StillOwned(s) == results[s].owned
OwnedAfterTransfer(s) == {}
AllButLastMoved(s) == {b \in results[s].owned : b[2] < FileBuffers}
Moved(s) == results[s].owned

(* A good slot: store its bytes and hash, move its buffers to              *)
(* parallel_to_free and empty its own list.                                *)
CollectSlot ==
  LET i == EntryIndex(call, pos)
  IN  /\ pc = "collect" /\ pos < FileCount(call)
      /\ results[pos].err = NoError
      /\ elements' = [elements EXCEPT ![i] = results[pos].bytes]
      /\ fileHashes' = put(fileHashes, call.entries[i].path, results[pos].hash)
      /\ parallelToFree' = parallelToFree \cup Moved(pos)
      /\ results' = [results EXCEPT ![pos].owned = OwnedAfterTransfer(pos)]
      /\ pos' = pos + 1
      /\ UNCHANGED <<argVars, pc, spawned, seenFiles, progressVars, parentHashes,
                     nextSlot, aFiles, aBytes, wpc, wslot, pages>>

(* file_hashes.put or an append to parallel_to_free runs out of memory     *)
(* after some of the slot's buffers have moved: `try` returns at once.     *)
CollectFails ==
  /\ pc = "collect" /\ pos < FileCount(call)
  /\ results[pos].err = NoError
  /\ \E n \in 0 .. FileBuffers - 1 :
       LET moved == {b \in results[pos].owned : b[2] <= n}
       IN  /\ outcome' = [status |-> "error", error |-> "OutOfMemory"]
           /\ pages' = pages \ (parallelToFree \cup moved)
  /\ pc' = "returned"
  /\ parallelToFree' = {}
  /\ UNCHANGED <<call, pos, spawned, seenFiles, progressVars, builtVars, poolVars>>

CollectDone ==
  /\ pc = "collect" /\ pos = FileCount(call)
  /\ pc' = "parents"
  /\ UNCHANGED pos
  /\ ControlOnly

-----------------------------------------------------------------------------
(* The sequential path; pos is the entry index.                            *)

(* compressContainer is handed the raw DATA container: the content behind  *)
(* a length, type, checksum and value header and before 8 checksum bytes.  *)
DataOverhead == 17
CompressProgress(f) ==
  [entries |-> f.size + DataOverhead, bytes |-> f.size + DataOverhead]

(* Serialize the file; while it compresses, the compression module calls   *)
(* the caller's progress function with its own two numbers, at the end     *)
(* (length, length).                                                       *)
SequentialSerialize ==
  /\ pc = "sequential" /\ pos \in FileIndices(call.entries)
  /\ LET file == call.entries[pos]
     IN  /\ FileSerializable(file, call.comp)
         /\ elements' = [elements EXCEPT ![pos] = FileContainer(file, call.comp)]
         /\ report' = IF Compresses(file, call.comp) THEN CompressProgress(file)
                                                     ELSE report
  /\ pc' = "record"
  /\ UNCHANGED <<argVars, pos, spawned, seenFiles, entriesDone, bytesDone,
                 fileHashes, parentHashes, poolVars, heapVars>>

(* A file fails (a last compression callback before that is left out).     *)
SequentialFails ==
  /\ pc = "sequential" /\ pos \in FileIndices(call.entries)
  /\ \E e \in FileErrors(call.entries[pos], call.comp) : FailWith(e)

(* Put the file's hash and report progress.                                *)
SequentialRecord ==
  /\ pc = "record"
  /\ LET file == call.entries[pos]
     IN  /\ fileHashes' = put(fileHashes, file.path, Checksum(elements[pos]))
         /\ entriesDone' = entriesDone + 1
         /\ bytesDone' = bytesDone + file.size
         /\ report' = [entries |-> entriesDone', bytes |-> bytesDone']
  /\ pos' = pos + 1
  /\ pc' = "sequential"
  /\ UNCHANGED <<argVars, spawned, seenFiles, elements, parentHashes, poolVars,
                 heapVars>>

SequentialSkipsDir ==
  /\ pc = "sequential" /\ pos \in DirIndices(call.entries)
  /\ pos' = pos + 1
  /\ UNCHANGED pc
  /\ ControlOnly

SequentialDone ==
  /\ pc = "sequential" /\ pos > Len(call.entries)
  /\ pc' = "parents"
  /\ UNCHANGED pos
  /\ ControlOnly

-----------------------------------------------------------------------------
(* Phase 2, the directories, and phase 3, the archive.                     *)

(* The hashes listed under a parent path, in entry order.                  *)
HashesUnder(parent) ==
  LET path(i) == call.entries[i].path
      children == Listed({i \in FileIndices(call.entries) :
                            /\ path(i) \in DOMAIN fileHashes /\ HasParent(path(i))
                            /\ ParentPath(path(i)) = parent})
  IN  [k \in DOMAIN children |-> fileHashes[path(children[k])]]

BuildParents ==
  /\ pc = "parents"
  /\ parentHashes' = [parent \in {ParentPath(p) : p \in
                                    {q \in DOMAIN fileHashes : HasParent(q)}} |->
                       HashesUnder(parent)]
  /\ pos' = 1
  /\ pc' = "dirs"
  /\ UNCHANGED <<argVars, spawned, seenFiles, progressVars, elements, fileHashes,
                 poolVars, heapVars>>

(* The xh64 a DIR is written with: the Merkle hash if it has child hashes, *)
(* else what the caller passed.                                            *)
DirHash(d) ==
  IF d.path \in DOMAIN parentHashes /\ parentHashes[d.path] # <<>>
  THEN computeMerkleHash(parentHashes[d.path])
  ELSE d.xh

SerializeDir ==
  /\ pc = "dirs" /\ pos \in DirIndices(call.entries)
  /\ LET dir == call.entries[pos]
     IN  /\ DirSerializable(dir)
         /\ elements' = [elements EXCEPT ![pos] = DirContainer(dir, DirHash(dir))]
  /\ entriesDone' = entriesDone + 1
  /\ report' = [entries |-> entriesDone', bytes |-> bytesDone]
  /\ pos' = pos + 1
  /\ UNCHANGED <<argVars, pc, spawned, seenFiles, bytesDone, fileHashes,
                 parentHashes, poolVars, heapVars>>

DirFails ==
  /\ pc = "dirs" /\ pos \in DirIndices(call.entries)
  /\ \E e \in DirErrors(call.entries[pos]) : FailWith(e)

DirsSkipFile ==
  /\ pc = "dirs" /\ pos \in FileIndices(call.entries)
  /\ pos' = pos + 1
  /\ UNCHANGED pc
  /\ ControlOnly

DirsDone ==
  /\ pc = "dirs" /\ pos > Len(call.entries)
  /\ pc' = "assemble"
  /\ UNCHANGED pos
  /\ ControlOnly

Assemble ==
  /\ pc = "assemble"
  /\ Leave([status |-> "ok", archive |-> Archive(call.entries, elements)], pages)
  /\ UNCHANGED <<call, pos, spawned, seenFiles, progressVars, builtVars, poolVars>>

AllocationFails ==
  \E at \in {"begin", "record", "parents", "assemble"} : OutOfMemoryAt(at)

-----------------------------------------------------------------------------
Main ==
  \/ Begin \/ AllocationFails
  \/ SpawnWorker \/ SpawnFails \/ Drain
  \/ PollTest \/ PollLoadFiles \/ PollCallback \/ JoinWorkers
  \/ CollectError \/ CollectSlot \/ CollectFails \/ CollectDone
  \/ SequentialSerialize \/ SequentialFails \/ SequentialRecord
  \/ SequentialSkipsDir \/ SequentialDone
  \/ BuildParents \/ SerializeDir \/ DirFails \/ DirsSkipFile \/ DirsDone
  \/ Assemble

(* The call is over and no worker is left running.                         *)
Finished == pc = "returned" /\ AllExited /\ UNCHANGED vars

Next == Main \/ (\E w \in Workers(call) : Worker(w)) \/ Finished

(* The operating system runs every runnable thread.                        *)
Fairness ==
  /\ WF_vars(Main)
  /\ \A w \in UNION {Workers(c) : c \in Calls} :
       WF_vars(w \in Workers(call) /\ Worker(w))

Spec == Init /\ [][Next]_vars /\ Fairness

-----------------------------------------------------------------------------
(* Properties.                                                             *)

Holds(w) == wpc[w] \in {"serialize", "countFile", "countBytes"}
Completed(s) == results[s].bytes # Empty \/ results[s].err # NoError
InPoolTail == UsesPool(call) /\ pc \in {"collect", "parents", "dirs", "assemble"}

(* The types of the state: what main keeps, what the workers share and     *)
(* keep, the results, and the buffers.                                     *)
MainTypeOK ==
  /\ call \in Calls
  /\ pc \in {"begin", "spawn", "drain", "poll", "loadFiles", "callback", "join",
             "collect", "sequential", "record", "parents", "dirs", "assemble",
             "returned"}
  /\ pos \in Nat /\ seenFiles \in Nat
  /\ pc = "record" => pos \in FileIndices(call.entries)
  /\ spawned \in 0 .. NumWorkers(call)
  /\ entriesDone \in Nat /\ bytesDone \in Nat
  /\ report \in [entries : Nat, bytes : Nat]
  /\ DOMAIN elements = DOMAIN call.entries
PoolTypeOK ==
  /\ nextSlot \in Nat /\ aFiles \in Nat /\ aBytes \in Nat
  /\ wpc \in [Workers(call) ->
              {"idle", "claim", "serialize", "countFile", "countBytes", "exited"}]
  /\ wslot \in [Workers(call) -> Nat]
  /\ \A w \in Workers(call) : Holds(w) => wslot[w] \in Slots(call)
ResultsTypeOK ==
  /\ DOMAIN results = Slots(call)
  /\ \A s \in Slots(call) :
       /\ DOMAIN results[s] = {"bytes", "hash", "owned", "err"}
       /\ results[s].owned \subseteq SlotBuffers(s)
       /\ results[s].err \in Errors \cup {NoError}
AllBuffers(c) == UNION {SlotBuffers(s) : s \in Slots(c)}
HeapTypeOK ==
  pages \subseteq AllBuffers(call) /\ parallelToFree \subseteq AllBuffers(call)

TypeOK == MainTypeOK /\ PoolTypeOK /\ ResultsTypeOK /\ HeapTypeOK

(* No two workers ever hold the same slot, and a slot that a worker is     *)
(* about to serialize has no result yet: file_results needs no lock (the   *)
(* claim by next.fetchAdd in worker_fn).                                   *)
SlotsHeldOnce ==
  /\ \A w1, w2 \in Workers(call) :
       w1 # w2 /\ Holds(w1) /\ Holds(w2) => wslot[w1] # wslot[w2]
  /\ \A w \in Workers(call) : wpc[w] = "serialize" => ~Completed(wslot[w])

(* Once main goes on after the join, every file has a result, whatever     *)
(* the workers did and in whatever order (the join before file_results is  *)
(* read).                                                                  *)
CollectSeesEverySlot ==
  InPoolTail => \A s \in Slots(call) : Completed(s)

(* No worker runs while main reads the results without a lock, and none is *)
(* left behind when the function returns and the shared counters, on its   *)
(* stack, are gone, also after a failed spawn.                             *)
NoWorkerOutlivesPool ==
  InPoolTail \/ pc = "returned" =>
    \A w \in Workers(call) : wpc[w] \in {"idle", "exited"}

(* Every page_allocator buffer a list names is live and in one list only:  *)
(* it is freed at most once, on every return path.                         *)
BuffersOwnedOnce ==
  pc # "returned" =>
    /\ parallelToFree \subseteq pages
    /\ \A s \in Slots(call) : /\ results[s].owned \subseteq pages
                              /\ results[s].owned \cap parallelToFree = {}

(* A collected element points into a buffer that stays live and owned      *)
(* until the archive has been assembled from it.                           *)
CollectedBytesLive ==
  UsesPool(call) /\ pc \in {"parents", "dirs", "assemble"} =>
    \A s \in Slots(call) : SlotBuffers(s) \subseteq pages \cap parallelToFree

(* A call that succeeds leaves no page_allocator buffer behind.            *)
SuccessReleasesBuffers == outcome.status = "ok" => pages = {}

(* "Clean up all results on error": whenever the call fails, no result     *)
(* still owns a live buffer.                                               *)
ErrorReleasesResults ==
  outcome.status = "error" =>
    \A s \in Slots(call) : results[s].owned \cap pages = {}

(* After a failed spawn no worker takes another file: each finishes the    *)
(* one in hand and exits.                                                  *)
NoClaimAfterSpawnFailure ==
  [][pc = "drain" => \A w \in Workers(call) :
       ~(wpc[w] = "claim" /\ wpc'[w] = "serialize")]_vars

(* In a call that compresses on the pool, and in one that does not         *)
(* compress, the counts the progress callback reports never go back, from  *)
(* the poll loop through the final report to the directories.              *)
ProgressNeverGoesBack ==
  [][UsesPool(call) \/ call.comp = NoComp =>
       /\ report'.entries >= report.entries
       /\ report'.bytes >= report.bytes]_vars

(* What "every DIR verifies" needs of the caller: FILE paths are unique and*)
(* do not end in a slash, and a DIR without direct child FILEs comes with  *)
(* xh64 zero.                                                              *)
Regular(c) ==
  LET path(i) == c.entries[i].path
      F == FileIndices(c.entries)
  IN  /\ \A i, j \in F : i # j => path(i) # path(j)
      /\ \A i \in F : HasParent(path(i)) => Last(path(i)) # ""
      /\ \A d \in DirIndices(c.entries) :
           (\A i \in F : ~isDirectChild(path(d), path(i))) =>
             c.entries[d].xh = ZeroHash

(* Every DIR of a fresh archive passes the reader's Merkle verification.   *)
FreshArchiveVerifies ==
  outcome.status = "ok" =>
    \A i \in DirIndices(call.entries) : verifyMerkleAt(outcome.archive, i)

Promise == INSTANCE ArchiveCreate
             WITH Calls <- Calls, call <- call, outcome <- outcome

(* What a call returns does not depend on the number of threads or on how  *)
(* they were scheduled: it is the promised archive, or an error the entries*)
(* cause when taken in order (results are collected in slot order and the  *)
(* first slot with an error wins).                                         *)
ResultAsPromised ==
  /\ outcome.status = "ok" => /\ Promise!AllSerializable(call)
                              /\ outcome.archive = Promise!Promised(call)
  /\ outcome.status = "error" => outcome.error \in Promise!PossibleErrors(call)

(* The call implements its specification: it returns once, what it         *)
(* promises, and it does return (no worker and no poll loop keeps it       *)
(* waiting for ever).                                                      *)
KeepsPromise == Promise!Spec
=============================================================================
