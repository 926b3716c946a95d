# mini_blar: verification development

TLA+ models, TLC runs and TLAPS proofs for mini_blar, the archive library and
command-line tool in `src/`. Line numbers are those of `src/src/mini_blar.zig`
unless another file is named.

## 1. The system

| Component | Source | State | Operations |
|---|---|---|---|
| Archive writer with worker pool | `createFullArchive` 565-895 | a call's locals: `entry_elements`, `file_hashes`, `parent_child_hashes`, two owner lists; on the pool path `next_slot`, two progress counters, `file_results`, the worker threads | one call; spawn, claim, serialize, count, poll, join, collect, hash directories, assemble |
| Flat writer | `createArchive` 523-552 | a call's locals | one call |
| FILE and DIR serialization | `serializeFileEntry` 122-354, `serializeDirEntry` 357-517, `computeMerkleHash` 88-97, `isDirectChild` 102-109 | none | pure functions that may fail |
| Reader | `ArchiveReader` 915-1188 | the buffer | verify, find, content, metadata, Merkle check |
| Compression | `compression_zstd.zig`, `compression_stub.zig` | none | compress a container, decompress one after checking it |
| Multithreaded compression | `zig-pkg/zstdz-*/lib/compress/zstdmt_compress.c`, under `compress` of `compression_zstd.zig` | round buffer, table of jobs, serial state of long distance matching, pools of buffers and contexts | cut the input into jobs, compress them, flush in order, shut down |
| Thread pool | `zig-pkg/zstdz-*/lib/common/pool.c` | circular queue, thread limit and capacity, two condition variables | create, add, tryAdd, resize, joinJobs, free |
| BLIP containers | `zig-pkg/blip-*/src/{leaf,container,array,dict}.zig` | none | layout (fixed points), headers, key search |
| C API | `c_api.zig`, `blar.h` | none: every function parses the buffer again | wrappers |
| Command line | `miniblar.c`, `blar_common.h` | the file system | create, list, extract, verify, info, cat |

How they interact: the command line calls the C API, which calls the writer
(never with compression) or the reader. The writer calls the serializers (on
worker threads when it compresses on more than one thread), these call the BLIP
containers and the compression module, and for a large input the compression
module starts a second layer of threads: zstd's own pool. The writer calls back into its caller
(progress, phase), and hands the caller's progress function to the compression
module too. The reader uses the containers and the decompressor.

What is hard:

* **Concurrency.** `createFullArchive` starts its own worker threads. They share
  a counter of slots, two progress counters and an array of results with no
  lock; the main thread polls the counters, joins, and then reads the results.
  zstd's workers read a round buffer that the main thread goes on filling,
  take turns at long distance matching, and sleep on condition variables.
* **Partial failure.** A thread may fail to start after others have; one file
  may fail while others succeed; an allocation may fail in the middle of
  collecting; each of these returns through the same two `defer` blocks while
  buffers have one of three owners.
* **Ordering.** Results arrive in any order and must be reported in entry order;
  a Merkle hash depends on the order of the children; the reader recomputes it
  by another method than the writer.
* **Boundaries.** Lengths that contain themselves, offsets of an index that
  depend on the size of the index, binary search with unsigned bounds.
* **Damage.** An archive is read from a file that may have changed since; each
  reader checks some lengths, some order and some checksum, none checks all.
* **The file system.** The command line tests, reads, stats and writes in
  separate steps, in place.

What makes each component correct: for the pool, no slot is served twice or
lost, no thread outlives the call, every buffer has one owner and the result is
that of the sequential path; for the Merkle hashes, that writer and reader
agree; for the containers, that the layout loops reach a fixed point and the
search finds what is there; for the reader, that nothing is decoded before it is
verified, that what a checksum approves is what was written, and that it looks
for the keys the writer writes; for the compression, that the bytes do not depend
on the number or the order of the workers; for the thread pool, that every job
accepted is run once, in order, and nobody sleeps over work; for the command line,
that a failing step does not lose or mix up files.

## 2. Modules

| Module | Contents |
|---|---|
| `ArchiveFormat` | entries, paths, hashes, FILE and DIR containers as values, the errors of serialization, the archive, the reader's Merkle check |
| `ArchiveCreate` | abstract specification: what one call of `createFullArchive` promises |
| `FullArchive` | `createFullArchive`, both paths, one action per atomic step; its properties; the refinement |
| `MCFullArchive` | the calls TLC checks |
| `ContainerLayout` | how a leaf, array or dict is laid out in bytes, the passes that find the layout, and the ranges its readers compute |
| `DictSearch` | `findKey` |
| `ContainerRead` | composition: a container is serialized, then read and searched |
| `ArchiveReader` | an archive as a tree of containers, one flipped bit, the read calls of the C API |
| `JobPool` | abstract specification: what a thread pool promises |
| `ThreadPool` | `pool.c`; implements `JobPool` |
| `CompressStream` | abstract specification: what `compress` promises for a large input |
| `MTCompress` | `compress` and `zstdmt_compress.c`, on an instance of `JobPool`; implements `CompressStream` |
| `MC...` | the instances TLC checks, one module for each of `ContainerRead`, `ArchiveReader`, `ThreadPool`, `MTCompress` |
| `MiniblarCli` | `create` and `extract` of the command line, any number of processes over one file system |
| `MCMiniblarCli` | the file system and the commands TLC checks |
| `Lists`, `Lists_proofs` | sums over a list, the indices that satisfy a condition in their order; lemmas about both |
| `FullArchive_proofs` | type correctness, inductive invariants of the pool, the buffers, the result and the progress, and what follows; the steps of the refinement |
| `ThreadPool_proofs` | inductive invariant of the thread pool, its safety properties, the steps of its refinement |
| `MTCompress_proofs` | inductive invariant of the multithreaded compression: jobs, round buffer, pools, queue and turns; its safety properties but the output |
| `MTCompressOutput_proofs` | inductive invariant of what the ranges, the blocks and the output hold; the steps of the refinement |
| `ContainerRead_proofs` | the layout loops as least fixed points, readers and search |
| `ArchiveReader_proofs` | reading back after at most one flip, for every set of archives |
| `MiniblarCli_proofs` | inductive invariant of create and extract, and what follows |

### Correspondence

A *call* is the record `[entries, comp, threads]`. `pc` is where the main thread
is, `pos` its loop index. Worker `w` has `wpc[w]` and `wslot[w]`.

| Code | Model |
|---|---|
| 600-678: count, pre-allocate, choose the path | `Begin` |
| 733-749 `Thread.spawn`; 749-752 its failure; 753-754 join and return | `SpawnWorker`, `SpawnFails`, `Drain` |
| 760 / 762 / 763: the loop reads the first counter twice and the second once | `PollTest`, `PollLoadFiles`, `PollCallback` |
| 769-774 join, final report | `JoinWorkers` |
| 696-697 `next.fetchAdd` | `ClaimSlot` |
| 698-726 / 702-719 | `SerializeSlot` / `SerializeFails` |
| 727, 728 (and 707, 708) | `CountFile`, `CountBytes` |
| 777-799 collecting, its error return, its failing allocations | `CollectSlot`, `CollectError`, `CollectFails`, `CollectDone` |
| 802-829 the sequential path | `SequentialSerialize`, `SequentialRecord`, `SequentialFails`, `SequentialSkipsDir`, `SequentialDone` |
| 831-858 parents and hashes | `BuildParents` |
| 861-878 directories | `SerializeDir`, `DirFails`, `DirsSkipFile`, `DirsDone` |
| 879-895 | `Assemble` |
| `try` on the caller's allocator | `AllocationFails` |
| the two `defer` blocks 574-586 | `Leave` |

`MiniblarCli` (lines of `miniblar.c`; `proc[p]` holds the place and the local
variables of process `p`, `fs` the files, `job[p]` its command):

| Code | Model |
|---|---|
| 135-142 the test for the output | `CheckOutput` |
| 147-163, 166, 187 per input: directory?, `read_file`, `stat` | `CheckInput`, `OpenInput`, `ReadInput`, `StatInput` |
| 199-214 `blar_archive_create_full` | `Build` |
| 216-224 `write_file` | `OpenOutput`, `WriteOutput`, `CloseOutput` |
| 269-281 | `OpenArchive`, `ReadArchive`, `MakeOutDir`, `CountEntries` |
| 283-310 per entry | `TakeEntry`, `OpenTarget`, `ContentFails`, `WriteTarget`, `CloseTarget` |
| 312-323; 326 | `RestoreMetadata`; `ExtractDone` |

A file is a sequence of blocks read and written one at a time; each block says of
which content it is a piece, so mixtures are told apart. Argument parsing is
represented by its result (the output name with its extension); a failing
`calloc` ends like an unreadable input. `mkdir -p` is one step. Left out: times,
extended attributes, permissions (a failing `open` is a choice), links, and paths
longer than the buffer of 287. No other program removes files.

`ContainerLayout` (`place` is the next step, `outer` and `inner` count the passes;
the other variables have the code's names, `starts` is where elements really begin):

| Code | Model |
|---|---|
| `dict.zig` 175-186 | `Validate` |
| `array.zig` 79-102, `dict.zig` 92-117: one pass of the inner loop | `InnerPass` |
| `array.zig` 104-106, `dict.zig` 119-128 | `OuterPass` |
| the writing after it; for a leaf `leaf.zig` 21-41 | `Write` |
| `elementBytesAt`, `keyAt`, `valueAt`, `payloadSlice` | operators of these names |
| `dict.zig` 379-392 | `DictSearch`: `StartSearch`, `Probe`, `NoMore` |

Payload bytes are abstracted to their number; keys to numbers in their order.
Lengths stay below 2^64. The kind MAP, segments and the check of the order of
keys in debug builds are left out: mini_blar does not use the first two.

`ArchiveReader`: `written` is the tree of containers as serialized, `stored` what
the reader finds. `BitFlip` changes one container in one place: a bit of a sigil or
of an attribute's value, its length, its index, its payload or its checksum. It
may happen before a call; `answer` keeps what one call gave. The read functions
of the C API are the actions, the functions of the reader operators of the same
names. Assumed: checksums are injective; a flip in an index is over-approximated
by any offset in place of one; an ENC attribute never parses, as no header
here is long enough for its salt and nonce; a damaged key sorts before all others.
Metadata is the path and one other text, forks are left out.

`ThreadPool` (lines of `pool.c`). A region under `queueMutex` is one step;
`cond_wait` ends a step and puts its caller to sleep; `tpc[t]` and `cpc` say where a
thread and the client are:

| Code | Model |
|---|---|
| 71-84 a thread tests, sleeps or returns; 85-92 takes a job | `ThreadSleeps`, `ThreadExits`, `PopJob` |
| 94 the job; 96-100 | `RunJob`, `FinishJob` |
| 115-157 | `Create`, `CreateThread`, `CreateThreadFails`, `CreateDone` |
| 283-307 | `Add`, `AddSleeps`, `TryAdd`, `TryAddRefused` |
| 192-198, 213-250 | `JoinJobsSleeps`, `JoinJobsDone`, `Resize` |
| 163-187 | `Shutdown`, `Broadcast`, `Join` |
| `pthread_cond_wait` returning for no reason | `SpuriousWakeup`, `ClientSpuriousWakeup` |

All pools of the library have one client, the thread that created them.

`MTCompress` (lines of `zstdmt_compress.c`; `mpc`, `wpc[w]` are places). The input is
a sequence of units, one unit what a worker compresses between two reports. The
round buffer holds numbers of units; a block of output names all the encoder could
look at for it (prefix, source so far, matches of the long distance matcher), so a
buffer overwritten too early gives a different block:

| Code | Model |
|---|---|
| `compression_zstd.zig` 115-137, `ZSTD_compressStream2` 6509-6511 | `StartCall`, `StartFails` |
| 1580-1611 scan of the jobs in use | `ScanJobs`, `ScanSkipped` |
| 1684-1732 the next range of the round buffer | `RangeInUse`, `WrapRange`, `TakeRange` |
| 1884-1896 | `LoadInput` |
| 1404-1500 | `CreateJob`, `NoJobToCreate` |
| `ZSTDMT_flushProduced` | `FlushProduced`, `FlushError` |
| after an error, and `ZSTDMT_freeCCtx` | `WaitForJob`, `ReleaseAfterError`, `FreeCCtx`, `Return` |
| 692-820 the job | `GetResources`, `NoResources`, `GenSequences`, `CompressPiece`, `CompressLast`, `CompressFails`, `EnsureFinished`, `ReleaseResources`, `Report`; `Begin`, `End` are the pool's |

Waits on the condition variables of jobs and of the serial state are guards: the
code signals after every change their loops test, and `job_cond` and
`ldmWindowCond` have one waiter. `compress` makes a new context for each call and
sets no dictionary, so dictionaries, reuse of a context, rsyncable and flushing
without end are left out. An empty last block, and a full table met at the end
of the frame with input left, cannot occur under `compress` and are not modelled
either.

Abstractions of the library's model. A path is the sequence of its components. A serialized container
is the record of what it holds, and `xxHash64` is injective (collisions are not
modelled). Content is a name and a size. A serialization is one step: it touches
nothing shared before it publishes its result. The second `catch` of a worker
(712-719: parsing the header of the container just written) has the effect of
the first and is the same action. Atomics are sequentially consistent: the code
uses acquire and release on them, and the results are read only after a join.
The caller's allocator releases everything in `defer` on every return and is not
tracked; the buffers of `page_allocator`, which have three successive owners
(`local_to_free`, `to_free_items`, `parallel_to_free`), are. The phase callback
and the test for a null progress function are left out: they change nothing.
Intermediate progress calls of the compression module are left out, its last one
is not.

## 3. Runs

Twelve runs. `PoolSafety`, `CreateRefines`, `ErrorLeak` and `StaleHash` are of
`MCFullArchive`, with `CpuCount = 2` (used by calls with `threads = 0`) and
`CompressionEnabled = TRUE`; the runs `Cli...` of `MCMiniblarCli`.

| Run | Shows |
|---|---|
| `PoolSafety` | Five pool calls with three files, most with a directory, on two and three workers: files and directories in mixed order, a file with a duplicate fork key between two good ones, an already compressed file, a directory with duplicate xattrs. Every interleaving, a spawn failing at every point (with two others running in one call), out-of-memory at every allocation. All safety properties of the pool. |
| `CreateRefines` | Thirteen calls on both paths (no compression, one thread, one file, no files, unsupported codec, nested directories, directories whose path ends in a slash or is empty, failing entries; pool calls of two files): `FullArchive` implements `ArchiveCreate`, including that it returns. |
| `CliFiles` | Two processes in nine pairings (an archive extracted while it is created, and while it is replaced; an output that is also an input; a create that replaces another's input; two creates of one output; two extractions into one directory; names that are file and directory, or occur twice; an archive that contains its own name), interleaved at every system call, every call failing, every process killed anywhere. |
| `PoolThreads` | `ThreadPool` with one or three threads, a queue of none or two places, up to four jobs, one resize up or down at any time, threads that cannot be created, spurious wakeups: it implements `JobPool` and its calls return. |
| `MTPieces` | `MTCompress`, two workers: seven jobs that go one and a half times round the buffer; six with long distance matching over two jobs; three with a failure at any place. What the threads share is never touched too early, the output is the right one. |
| `MTPromise` | `MTCompress` implements `CompressStream`, with termination: four jobs on two workers with a failure anywhere; eight on one worker round the buffer with matching, chunks that end within a job, and a failure. |
| `Containers` | Leaves, arrays and dicts with sizes around each place where an encoded number grows by a byte, up to 129 elements, every order of up to three keys, and a search of every key and of missing ones. |
| `ReadBack` | An archive with a directory, a compressed and a plain file, one with two files of one path, and an empty one; every flip, every read call at every index. |
| `ErrorLeak`, `StaleHash`, `CliOwners`, `CliMode` | Disagreements, section 5. |

The properties:

* `SlotsHeldOnce`, `CollectSeesEverySlot`: no slot is held twice, none is lost.
* `NoWorkerOutlivesPool`: when main reads the results or has returned, no worker
  runs, also after a failed spawn. `NoClaimAfterSpawnFailure`: then no worker
  takes another file.
* `BuffersOwnedOnce`, `CollectedBytesLive`, `SuccessReleasesBuffers`: no buffer is
  freed twice, used after it is freed, or left behind by a call that succeeds.
* `ResultAsPromised`: the archive and the error are those the entries determine
  when taken in order. This is the "archive bytes are deterministic and
  independent of `num_threads`" of `src/README.md`, for the pool.
* `ProgressNeverGoesBack`: reports from two counters that workers advance
  separately, and the final report, never decrease.
* `FreshArchiveVerifies`: the reader's Merkle check accepts what the writer wrote,
  although the writer cuts a path at its last slash (846) and the reader tests for a
  prefix (102-109). Preconditions, met by all calls of `CreateRefines`: paths are
  unique, no FILE path ends in a slash, and `xh64` is zero. Section 5 tells what happens
  without them.
* `KeepsPromise`: the refinement of `ArchiveCreate`, with its liveness.

Of the thread pool:

* `NobodySleepsOverWork`: no wakeup is lost, neither a thread's nor the client's,
  although each condition variable serves sleepers of several kinds.
* `FreeLeavesNothing`: `POOL_free` leaves no thread and no job that was accepted
  and not run, also after a resize that retired threads. `JoinJobsWaits`: "Waits for
  all queued jobs to finish executing" (`pool.h`).
* `CallsReturn`, `KeepsPromise`: every call returns; accepted jobs are begun once, in
  order, and go on being begun.

Of the multithreaded compression:

* `OutputBeginsFrame`: what has been flushed is at all times the beginning of the one
  frame the input determines ("Output bytes never depend on num_threads", for a
  given number of workers at least one).
* `PiecesInUseKept`: main never changes a part of the round buffer that a job still
  refers to. `ReleasedJobsAreIdle`: no description of a job is cleared or used again
  while a worker has it in hand. `PoolsNeverOverflow`: "note: should not happen".
* `KeepsPromise`: the call returns an error or the whole frame, and it returns.

Of the containers:

* `WrittenAsLaidOut`: what is written fills the buffer to the byte, and the index
  leads to the elements. `ReadAsWritten`: readers get exactly the bytes of an element.
* `LoopsSettle`: both fixed points are reached before their passes are used up (the
  code goes on in either case). `SearchIsRight`, `CallsFinish`: of `findKey`.

Of the reader of a damaged archive:

* `VerifiedIsAsWritten`: `blar_archive_verify` approves only the archive that was
  written, to the bit. That a flip can turn the attribute announcing the checksum
  into another one, so that none is checked, is what makes it hard.
* `VerifiedEntryWasArchived`: path and content at an index that
  `blar_archive_file_verify` approves were archived together. It does not say of which
  index: the index of the body is not covered by an entry's checksums.
* `DecoderSeesWrittenBytes`: "never feed corrupted bytes to the decoder".
* `UndamagedReadsBack`, `OtherEntriesUnharmed`: an undamaged archive gives back all, and
  damage within one entry leaves the others verifiable and readable.

Of the command line:

* `SuccessLeavesWholeArchive`, `InputsArchivedAsTheyWere`: `EXIT_OK` of create
  means a whole archive on disk, of all inputs in order and as they were, even when
  the output replaces one of them. Both speak of files no other process writes.
* `UnreportedFilesComplete`: what extract wrote without a message is complete.
* `ExtractTakesAllOrNothing`: beside a create that writes the archive for the
  first time, or was killed doing so, extract takes the whole archive or nothing.
  Over an older archive this is not true (pieces of both versions may be read, and
  extract checks no checksum), and nothing in the repository says it is.

Bounds and why they are enough. Workers interact only through `next_slot`, the
counters and their own slots, so two workers and three files show every
conflict of two workers and one that comes back for another slot; three workers
are needed only for a spawn that fails while two run (`ThreeWorkerCalls`). Two buffers per file let a
transfer fail in its middle. The temporal check runs on calls of at most two
compressed files because its cost grows with the number of interleavings;
`ResultAsPromised` covers the larger calls for safety.

For the files: two processes show every conflict between a reader and a writer or
two writers; two or three blocks are enough for a prefix, a mixture and a longer
remainder.

For the thread pool: three threads are the fewest with one that sleeps because of the
limit, one that sleeps for work and one that runs; a queue of two places wraps; the
queue size 0 is the case of direct hand-over that zstd's own pool uses. For the
compression, sizes are scaled down, their relations kept: at level 19 of `compress`
window, overlap and section are all 8 MB, so a section of two units has an overlap of
two; further calls have other relations. Going more than once round the buffer is what
shows an overlap of new input with old prefixes. The wait for the long distance
matcher binds only with the larger windows (one call has it). For the containers the
boundaries lie at 128, 256 and 65536, and the sizes within some bytes of them cover all
sums of header, index and payload that cross one. For the reader one flip is the fault
checksums are for; an index may by it lead anywhere.

`ThreadPool` assumes weak fairness of the client while it is in a function of the pool
and of each thread; the client may stop calling. A mutex and a signal give no stronger
promise and none is needed: the properties hold for every choice of the sleeper a
signal wakes. `MTCompress`: weak fairness of main and of each worker. `ContainerRead`:
one thread that does not stop. `ArchiveReader` states none.

`MiniblarCli` states no fairness: its processes wait for nothing, and no liveness
is claimed. For `FullArchive`: weak fairness of the main thread and of every worker thread, which is
what the operating system's scheduling gives runnable threads (`join` and the
poll loop are enabled waits). No action within a thread is treated more fairly
than another: a failing allocation, a failing spawn and success are choices.

## 4. Proofs

TLAPS checks these theorems for every value of the constants that satisfies the
named assumptions; TLC evaluates the assumptions for the instances it runs.

| Module, theorem | States |
|---|---|
| `FullArchive_proofs` `TypeCorrect` | `Spec => []TypeOK` |
| `FullArchive_proofs` `SlotsHeldOnceCorrect`, `NoWorkerOutlivesPoolCorrect`, `CollectSeesEverySlotCorrect` | the invariants of these names |
| `FullArchive_proofs` `NoClaimAfterSpawnFailureCorrect` | the action property |
| `FullArchive_proofs` `BuffersOwnedOnceCorrect`, `CollectedBytesLiveCorrect`, `SuccessReleasesBuffersCorrect` | the invariants of these names |
| `FullArchive_proofs` `ResultCorrect`, `FreshArchiveCorrect` | if every call is `Regular`: `ResultAsPromised`, `FreshArchiveVerifies` |
| `FullArchive_proofs` `RefinesArchiveCreate` | if every call is `Regular`: every step is a step of `ArchiveCreate` or a stutter |
| `FullArchive_proofs` `ProgressCorrect` | the action property `ProgressNeverGoesBack` |
| `ThreadPool_proofs` `TypeCorrect`, `NoWakeupLost`, `FreeIsComplete`, `JoinJobsIsComplete` | `TypeOK`, `NobodySleepsOverWork`, `FreeLeavesNothing`, `JoinJobsWaits` |
| `ThreadPool_proofs` `RefinesJobPool` | every step is a step of `JobPool` or a stutter |
| `MTCompress_proofs` `Invariant` | the inductive invariant |
| `MTCompress_proofs` `TypeCorrect`, `PoolsSuffice`, `NoJobReleasedInHand`, `PiecesKept` | `TypeOK`, `PoolsNeverOverflow`, `ReleasedJobsAreIdle`, `PiecesInUseKept` |
| `MTCompressOutput_proofs` `OutputRight` | the inductive invariant of the output |
| `MTCompressOutput_proofs` `OutputCorrect` | `OutputBeginsFrame` |
| `MTCompressOutput_proofs` `ImplementsPromise` | every step is a step of `CompressStream` or a stutter |
| `ContainerRead_proofs` `TypeCorrect`, `LoopsAlwaysSettle`, `IndexLeadsToElements`, `ReadersFindWhatWasWritten`, `SearchIsAlwaysRight` | `TypeOK`, `LoopsSettle`, `WrittenAsLaidOut`, `ReadAsWritten`, `SearchIsRight` |
| `ArchiveReader_proofs` `Invariant` | the inductive invariant |
| `ArchiveReader_proofs` `VerifiedArchiveIsAsWritten`, `ApprovedEntryWasArchived`, `DecoderFedWrittenBytes`, `UndamagedArchiveReadsBack`, `OneFlipCostsOneEntry` | `VerifiedIsAsWritten`, `VerifiedEntryWasArchived`, `DecoderSeesWrittenBytes`, `UndamagedReadsBack`, `OtherEntriesUnharmed` |
| `MiniblarCli_proofs` `Invariance` | the inductive invariant |
| `MiniblarCli_proofs` `TypeCorrect`, `ArchiveWhole`, `InputsUnchanged`, `FilesComplete`, `AllOrNothing` | `TypeOK`, `SuccessLeavesWholeArchive`, `InputsArchivedAsTheyWere`, `UnreportedFilesComplete`, `ExtractTakesAllOrNothing` |

Assumptions. `FullArchive`: `ConstantsAssumption` (at least one CPU, at least one
buffer per file), `CallsAssumption` (entries are a sequence of entries, `threads` a
`u8`). Three theorems have the further hypothesis that the calls are `Regular`: FILE paths
are unique and do not end in a slash, and a DIR without direct child FILEs comes with
`xh64` zero. The code checks none of it, so it is no assumption of the model; without it
they are false (section 5: `StaleHash`, duplicate paths, a FILE path that ends in a
slash). `MCFullArchive` has TLC evaluate it for the calls of `PoolSafety` and
`CreateRefines`. `ThreadPool`: numbers of threads, jobs,
resizes and places in the queue are numbers, a pool has at least one thread, and
`NoJob` is no job. `MTCompress`: `CallsAssumption` and `WorkersAssumption` (sizes
are numbers; a section and a chunk hold something and an overlap is no longer than
a section), `NoJobAssumption`, and `LdmAssumption` (section 5). `ContainerRead`:
sizes and keys are numbers, as many values as keys (`InputsAssumption`, `KeysAssumption`).
Sizes of encoded numbers are those of numbers below 2^64 and are at most 9 from there on. `ArchiveReader`: entries are a
sequence of entries, the codec one of those of `ArchiveFormat`. `MiniblarCli`: at the
start what is there lies in a directory (`FilesAssumption`); `Contents` has every block
of the files, and of the files archived in them (`ContentsAssumption`); `Files` has an
absent node at every place a command may look at or write (`JobsAssumption`). Any number
of processes, any commands.

**`FullArchive`.** `FileSlotsBijective`: an entry with `n` files before it has slot
`n`, and counting the files before an entry is injective, so slots and files
correspond one to one. `TypeOK` is inductive by itself. `PoolInv` strengthens
the pool's properties, none of which is inductive: the two paths exclude each
other and after the spawning all workers are started (`PathInv`); the started
workers are the first ones (`SpawnInv`); a slot in hand is below `next_slot` and
a slot at or above it has no result (`ClaimInv`); a slot below it has its result
or a worker at work on it, unless a spawn has failed (`ServedInv`); a worker has
exited only if `next_slot` is at the end (`QueueInv`). Together they give the
main fact: when all workers have exited, all slots are below `next_slot` and no
worker is at work, so all have results. Main's steps other than the spawns are
handled together: they change no worker (`MainQuiet`). `HeapInv` adds that a
good result owns all buffers of its slot until it is collected and
`parallel_to_free` does from then on (`TransferInv`), and that every live buffer
of a slot without error has an owner (`LiveInv`); with `PoolInv` (a collected
slot is complete) it follows that the elements stay live, and that at the return
everything live is in `parallel_to_free`.

`ResultInv` says what has been built when. A result is the container of its slot's file
or one of its errors (`SlotInv`); `FilesBuilt` names the entries whose container is in
`entry_elements` for every place of main on either path (`ElementsInv`), `file_hashes`
has exactly their paths (`HashInv`) and `parent_child_hashes` is made from it
(`ParentsInv`). The pool's part of it: slots are in entry order (`SlotOrder`), so when slot
`pos` turns out to have an error all files before its own are built, hence
serializable, and the error is among those the entries cause in order; when it has none
it is complete (`CollectSeesAll`). At the end the hashes gathered under a directory's path
(cut at the last slash) are those of its direct children (`ChildrenUnder`; this needs
`Regular`), in the same order, as both are listed by index. So the archive is the promised
one, and `PromisedVerifies` shows of the promised one, without a word about threads, that
the reader's check succeeds.

`ProgressNeverGoesBack` rests on `CountInv`: `atomic_files_done` is the number of slots
that have a result and no worker about to count them, `atomic_bytes_done` the sum of
their sizes. As no two workers hold one slot, counting adds one slot that was
not counted; a sum over some slots is at most the sum over all, so the final report
is not below the last one of the loop, whatever moments main chose to read the two
counters (`ReportInv`).

**`ThreadPool`.** `NobodySleepsOverWork` is not inductive: one signal is given per
job, to a sleeper of any kind. `WakeInv` counts: while a thread sleeps, at least as
many threads are about to test the queue as jobs are queued, or enough are awake to
reach the limit. Each step of `pool.c` changes both sides by at most one, which is
proved with lemmas on the cardinality of the set of threads at a place. `QueueInv`
ties the circular buffer to the sequence of jobs (head and tail meet when it is empty
and, if it has more than one place, only then), `LimitInv` counts busy threads, and
`ShutdownInv` says that threads end only in `POOL_free`, and never all while a job is
queued. With `QueueInv` every step maps to a step of `JobPool`: jobs are begun in the
order of the queue.

**`MTCompress`.** The hard part is that main writes the round buffer while workers
read from it, looking only at `inUse`, the oldest job's range. `Geometry` says where
the unfinished jobs lie: each wholly behind main's position or ahead of the section
main has reserved (`Sides`), in their order (`Ordered`), and job `k` at least
`Prepared - k` sections back, counted round the buffer (`Distances`). So a range that
does not overlap the oldest overlaps none. `Described` and `Advanced` tie the table's
descriptions to the jobs, `Taken` the input consumed to the sections prepared.
`PoolsNeverOverflow` needs a bound on the descriptions that may have an output buffer
(`Bounded`, `HeldFrom`): at most `NbWorkers + 4`, of which the oldest is complete;
after an error the table is released while workers still hold jobs, hence the weaker
form `HeldFrom(from)`.

`OutputBeginsFrame` relates the output to the input through everything in between, none
of it visible in the output: a block is right if its job's source and prefix held the
right units when a worker read them, and if the serial step had given the worker the
right matches. `OInv` therefore says, as long as nothing has failed (`Right`): each
unfinished job's source and prefix, the piece main is filling and the prefix of the
next job hold the units of their place in the input (`SourcesInv`, `ContentsInv`); the
serial step serves the jobs in order and skips none (`InTurn`); the window of long
distance matching holds the last units served, in one piece or, after a turn round the
buffer, in two (`WindowInv`); the jobs not yet served follow it in the buffer, clear of
it and of each other (`ServingInv`), which is what main's wait for the matcher keeps
true; the blocks made and those in a worker's hands are those of the frame
(`BlocksInv`, `InWork`); and the output is the blocks of the jobs released and of what
the oldest job has flushed (`OutInv`). That main writes no cell of an unfinished job is
`Geometry` again (`SourcesStay`, `WindowStays`). After a failure nothing is said but
that main meets it (`ErrorsInv`): `Right` is lost for good, as a skipped serial step
leaves the window short (section 5), so success must exclude any failure. `WholeFrame`
shows that the blocks one after the other are the frame that `CompressStream` promises,
so each return maps to its `Finish` or `Fail` and every other step to a stutter.

**`ContainerRead`.** What a pass computes never decreases with the place assumed, so
both loops climb to the least fixed point, and the encoded size of a number below 2^64
has so few values that they reach it before their passes are used up. What an index
offset leads to, and the length a reader computes from two offsets, follow from the
sums of sizes. For the search, a key that is present lies between `lo` and `hi`.
Induction over the elements goes through a lemma that a set of numbers has a least
element, itself from the well-founded order of the finite sets `0 .. n - 1`; the
library's induction theorems cannot be instantiated by these provers.

**`ArchiveReader`.** The invariant forgets which bit flipped (`AtMostOneFlip`): one
container differs, either by one attribute of its header, whose sigil or value has
one bit flipped, or in anything but its header. Then: a header that parses has
ascending sigils, begins with the type and ends with VAL, and a COMP has a
DECOMP_LEN behind it; a case analysis of the bit and the attribute shows that
no such header hides a checksum that was there (`SummedFlipped`, `PackedFlipped`), or
announces a compression that was not (`PlainFlipped`). So what verifies was not hit,
below what verifies nothing was hit, and the rest is reading: every container found
where it was laid out, the keys in their order, the path found by the search. For
`VerifiedEntryWasArchived` the index of the body may lead anywhere, so it is shown
that only what was written as an entry can be taken for one: whatever an index leads
to lies deeper, a leaf has no index, and no flip makes a DICT a FILE or a DIR. The
invariant adds what the answer says (`VerdictStands`): calls change nothing.

**`MiniblarCli`.** `StateInv(U)` has four parts: the file system is a tree
(`TreeInv`) of files whose blocks are in `U` (`FileInv`), and for each process what it
has read and written so far if it creates (`CreateInv`) or extracts (`ExtractInv`).
`U` is closed under taking a block out of an archive; it grows only in `WriteOutput`,
by the blocks of the archive built, hence `IInv == \E U : StateInv(U)`. The
interesting part is interference: a process writes only to files it has opened, whose
`by` says so ever after (`StepOf`, `Grows`). So what is said of another process,
that a file has only its blocks *unless somebody else has opened it*, or that an
archive read is a beginning of what its creator writes (`BeingCreated`), survives
(`OtherCreate`, `OtherExtract`). An archive that was read whole
passed `ArrayReader.init`, which no strict beginning of an archive does: the
header counts the entries.

The invariants hold in TLC on the instances of section 3.

Only model-checked, and why:

* `KeepsPromise` of `FullArchive`, `ThreadPool` and `MTCompress`, `CallsReturn` and
  `CallsFinish`: liveness under fairness is outside the reach of the prover. Of the three
  refinements the initial states and the steps are proved, so what is left to TLC is that
  the calls return.

Every invariant and every action property that a passing run checks is proved (two of
them for `Regular` calls, as the runs check them).

## 5. Disagreements found

* **Leak on two error returns** (`ErrorLeak`): "Clean up all results on error"
  (779) is done when a slot has an error, but not when a thread fails to start
  (753-754) or an allocation fails while collecting (790, 794).
* **Stale hash** (`StaleHash`): a DIR without direct child files keeps the
  caller's `xh64` (865-869), though 58 calls it "auto-computed by
  createFullArchive" and the reader expects zeros (1133).
* **Owners** (`CliOwners`): the owner of an entry (`blar_common.h` 144, 154) is a
  pointer into the static buffer of `getpwuid`, read after all files were looked up:
  with inputs of several owners the earlier entries get a later owner's name. (POSIX
  allows the call to overwrite the buffer; that it does is the model's choice.)
* **Mode and owner are not read back** (`CliMode`): the reader looks for `mo` and
  `ow` (1172, 1182), the writer stores `md` and `un` (187, 257).

Met while modelling, without a run of their own:

* **Duplicate paths.** The hash map keeps the last of two files with one path and
  lists it twice, so the directory's hash is not that of its child FILE checksums (555).
  `StaleHash` with `Calls <- DuplicatePathCalls` shows it.
* **FILE paths that end in a slash.** For a FILE `a/` (which the command line never makes)
  the writer counts its checksum among the children of `a` (846), the reader does not
  (103): the hash of `a` does not verify.
* **Progress arguments.** On the sequential path the caller's
  `(entries_done, bytes_done)` function (558) also receives the compression module's
  `(bytes_done, bytes_total)` (807-811).
* **Overwriting without -f.** "already exists (use -f to overwrite)"
  (`miniblar.c` 138) rests on a `stat` made long before the output is opened, with
  truncation, in 216: two creates of one name both pass it.
* **cat and stored paths.** "either the raw path they fed `create` or the
  normalized form" (`miniblar.c` 407-408) does not hold for `.//a`, stored as `/a`
  (`blar_common.h` 343).
* **Full queue after a resize.** A pool without queue is to be full when no thread is
  free (`pool.c` 255-256), which 262 tests as busy threads *equal to* the limit; after
  a limit is lowered the busy threads may exceed it, and one job is accepted although
  none is free. It waits its turn: no harm, and zstd's users do not shrink a busy pool.
* **A skipped serial step.** A job that failed before its turn has its step skipped
  (`zstdmt_compress.c` 636-653), so later jobs match against a shorter history. Blocks
  flushed before the error is met may differ; `compress` then returns the error and
  frees them. This is why `OutputBeginsFrame` speaks of calls without a failure.
* **Content of a compressed entry.** `blar_archive_file_content` returns the stored,
  compressed bytes (`c_api.zig` 219-233): only `fileContentDecompress` decodes, and the
  C API has no function for it. `blar.h` does not say which to expect.
* **Buffers of long distance matching.** "note: should not happen" (`zstdmt_compress.c`
  268: a buffer released to a full pool is freed) holds only while the window of long
  distance matching is no wider than the sections of all workers. With a wider one
  the round buffer holds more sections, so more jobs are open than the pool has places: a
  call with two units a section, one worker and a window of twelve violates
  `PoolsNeverOverflow`. `compress` cannot make one: only its level 22 matches at
  long distance, with window and section both 2^27. `LdmAssumption` says so.

## 6. Plan

Done: the writer with its pool, its abstract specification, its refinement, and
its safety proofs; create and extract of the command line; the thread pool and the
multithreaded compression with their abstract specifications, safety proofs and
refinements; the containers, the reader on a damaged archive and the command line, with proofs of all
their safety properties. Left:

* `createArchive`, the flat writer (523-552), as an implementation of `ArchiveCreate`.

Not modelled, and why:

* **The codec** (match finding, entropy coding, decoding, the legacy formats: about
  nine tenths of the lines of the repository, all vendored). Sequential functions on
  bytes, table-driven, without control that a small instance would show; taken as
  functions that succeed or fail. A model of a bit-exact coder would be a
  transliteration, so the share of the repository's lines that the modules map stays
  small although its own logic is covered.
* Dictionaries, rsyncable and segments: mini_blar does not use them.
* The other integer encodings of the blip package, its benchmarks, build files and
  shell tests: no state of the program.
* `list`, `info`, `cat` and `verify` of the command line: they only read.
