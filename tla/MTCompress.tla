------------------------------ MODULE MTCompress ------------------------------
(***************************************************************************)
(* compress() of compression_zstd.zig for an input at or above             *)
(* MT_INPUT_THRESHOLD: its loop over 4 MB chunks, the multithreaded branch *)
(* of ZSTD_compressStream2, and zstdmt_compress.c: the main thread cuts the*)
(* input into jobs that live in one round buffer, the workers compress     *)
(* them, the main thread flushes their blocks in order.                    *)
(*                                                                         *)
(* A region under a mutex is one step, so is code that touches only what   *)
(* its thread owns.  The round buffer is shared without a lock: main writes*)
(* where ZSTDMT_tryGetInputRange says no job still reads.                  *)
(*                                                                         *)
(* The pool is JobPool, which ThreadPool is shown to implement.  Waits on  *)
(* the condition variables of jobs and of the serial state are guards: the *)
(* code signals after every change their loops test, and job_cond and      *)
(* ldmWindowCond have one waiter.                                          *)
(***************************************************************************)
EXTENDS Integers, Sequences, FiniteSets, SequencesExt

CONSTANTS
  MaxWorkers,  \* MT_MAX_WORKERS
  Calls,       \* as in CompressStream, with the number of workers; chunk, the
               \* CHUNK_SIZE of compress(); failures, a bound on what fails
  NoJob

ASSUME CallsAssumption ==
  \A x \in Calls :
    /\ x.total \in Nat \ {0} /\ x.section \in Nat \ {0}
    /\ x.overlap \in 0..x.section /\ x.ldm \in Nat
    /\ x.chunk \in Nat \ {0} /\ x.failures \in Nat
    /\ x.workers \in 1..MaxWorkers
ASSUME WorkersAssumption == MaxWorkers \in Nat \ {0}
ASSUME NoJobAssumption == NoJob \notin Nat

(* The only level of compress() with long distance matching has a window   *)
(* of 2^27 and an overlap, so a section, of 2^27 too.                      *)
ASSUME LdmAssumption == \A x \in Calls : x.ldm <= x.section * x.workers

VARIABLES
  call,                        \* the input and the parameters, fixed
  mpc, failed,                 \* main: place; an error was met
  srcOffset, inPos,            \* compress: src_offset; in_buf.pos
  forward,                     \* forwardInputProgress
  inUse,                       \* ZSTDMT_tryGetInputRange: inUse
  inBuff, prefix,              \* mtctx->inBuff
  roundBuff, roundPos,         \* mtctx->roundBuff: contents, pos
  doneJobID, nextJobID, jobReady, frameEnded,    \* mtctx->...
  jobs,                        \* mtctx->jobs
  serialNext, ldmState, ldmWindow,               \* mtctx->serial
  bufPool, cctxPool,           \* idle buffers, idle contexts
  wpc, wctx, wseq, wlast,      \* worker: place; cctx, rawSeqStore, last block
  queue, running, begun, open, \* the pool
  failures,                    \* failures so far
  out, outcome                 \* bytes written to dest_buf; result

NbWorkers == call.workers
Total == call.total
Section == call.section
Overlap == call.overlap
LdmWindow == call.ldm
CallerChunk == call.chunk
MaxFailures == call.failures

Workers == 1..MaxWorkers
Reference == INSTANCE CompressStream WITH result <- <<>>, outcome <- "running"
JobCount == Reference!JobCount(call)
JobIDs == UNION {0 .. Reference!JobCount(x) - 1 : x \in Calls}

callVars == <<call, mpc, failed, srcOffset, inPos, forward, out, outcome>>
inputVars == <<inUse, inBuff, prefix, roundBuff, roundPos>>
frameVars == <<doneJobID, nextJobID, jobReady, frameEnded>>
serialVars == <<serialNext, ldmState, ldmWindow>>
resourceVars == <<bufPool, cctxPool>>
workerVars == <<wpc, wctx, wseq, wlast>>
poolVars == <<queue, running, begun, open>>
vars == <<callVars, inputVars, frameVars, jobs, serialVars, resourceVars,
          workerVars, poolVars, failures>>

Pool == INSTANCE JobPool WITH Threads <- Workers, Jobs <- JobIDs

-----------------------------------------------------------------------------
(* Ranges of the round buffer, and what ZSTDMT_initCStream_internal sizes. *)

Span(start, size) == [start |-> start, size |-> size]
kNullRange == Span(0, 0)
Ends(r) == r.start + r.size
isOverlapped(a, b) ==
  a.size > 0 /\ b.size > 0 /\ a.start < Ends(b) /\ b.start < Ends(a)
Contents(buffer, r) == [i \in 1..r.size |-> buffer[r.start + i - 1]]

SlackBuffers == 2 + (IF Overlap > 0 THEN 1 ELSE 0)
Capacity == Reference!Highest(LdmWindow, Section * NbWorkers) + Section * SlackBuffers
Cells == 0 .. Capacity - 1

(* ZSTDMT_createJobsTable: the power of two above NbWorkers + 2.           *)
Powers(n) ==
  LET power[k \in 0..n] == IF k = 0 THEN 1 ELSE 2 * power[k - 1]
  IN  power
TableSizes ==
  [n \in 1..MaxWorkers |->
     CHOOSE size \in {Powers(n + 2)[k] : k \in 1 .. n + 2} :
       size > n + 2 /\ size \div 2 <= n + 2]
TableSize == TableSizes[NbWorkers]
Slot(id) == id % TableSize
OnePerWorker == NbWorkers             \* SEQ_POOL_MAX_NB_BUFFERS
MaxBuffers == 2 * NbWorkers + 3       \* BUF_POOL_MAX_NB_BUFFERS

UnusedJob ==
  [src |-> kNullRange, prefix |-> kNullRange, id |-> 0, last |-> FALSE,
   consumed |-> 0, blocks |-> <<>>, flushed |-> 0, error |-> FALSE,
   dst |-> FALSE]
NoInBuff == [start |-> -1, filled |-> 0]

Init ==
  /\ call \in Calls
  /\ mpc = "start" /\ failed = FALSE /\ srcOffset = 0 /\ inPos = 0 /\ forward = FALSE
  /\ inUse = kNullRange /\ inBuff = NoInBuff /\ prefix = kNullRange
  /\ roundBuff = [i \in Cells |-> 0] /\ roundPos = 0
  /\ doneJobID = 0 /\ nextJobID = 0 /\ jobReady = FALSE /\ frameEnded = FALSE
  /\ jobs = [s \in 0 .. TableSize - 1 |-> UnusedJob]
  /\ serialNext = 0
  /\ ldmState = [ext |-> kNullRange, pre |-> kNullRange]
  /\ ldmWindow = [ext |-> kNullRange, pre |-> kNullRange]
  /\ bufPool = 0 /\ cctxPool = 1
  /\ wpc = [w \in Workers |-> "idle"] /\ wctx = [w \in Workers |-> FALSE]
  /\ wseq = [w \in Workers |-> <<>>] /\ wlast = [w \in Workers |-> <<>>]
  /\ Pool!Init
  /\ failures = 0
  /\ out = <<>> /\ outcome = "running"

-----------------------------------------------------------------------------
(* compress() and the loop of ZSTD_compressStream2.                        *)

SourceDone == srcOffset >= Total
ThisChunk == Reference!Lowest(Total - srcOffset, CallerChunk)
LastChunk == srcOffset + ThisChunk >= Total
InputLeft == inPos < ThisChunk
UnitAt(pos) == srcOffset + pos + 1
MayFail == failures < MaxFailures
CountFailure == MayFail /\ failures' = failures + 1

(* ZSTD_CCtx_init_compressStream2 makes the context: pools, threads, tables*)
(* and the round buffer, or nothing.                                       *)
StartCall ==
  /\ mpc = "start"
  /\ mpc' = "scan"
  /\ UNCHANGED <<call, failed, srcOffset, inPos, forward, out, outcome, inputVars,
                 frameVars, jobs, serialVars, resourceVars, workerVars,
                 poolVars, failures>>

StartFails ==
  /\ mpc = "start" /\ CountFailure
  /\ mpc' = "free" /\ failed' = TRUE
  /\ UNCHANGED <<call, srcOffset, inPos, forward, out, outcome, inputVars, frameVars,
                 jobs, serialVars, resourceVars, workerVars, poolVars>>

-----------------------------------------------------------------------------
(* ZSTDMT_tryGetInputRange                                                 *)

Completed(job) == job.consumed = job.src.size

(* The mutex of each job is taken in turn; a job completed stays completed,*)
(* so the scan finds what it would find at the moment of its last read.    *)
NothingInUse == kNullRange
ZSTDMT_getInputDataInUse ==
  LET Incomplete == {id \in doneJobID .. nextJobID - 1 : ~Completed(jobs[Slot(id)])}
      First == CHOOSE id \in Incomplete : \A other \in Incomplete : id <= other
      job == jobs[Slot(First)]
  IN  IF nextJobID < Capacity \div Section \/ Incomplete = {} THEN kNullRange
      ELSE IF job.prefix.size = 0 THEN job.src ELSE job.prefix

(* ZSTDMT_compressStream_generic fills the input buffer unless a job waits *)
(* for a worker or the chunk is used up.                                   *)
ScanJobs ==
  /\ mpc = "scan" /\ ~jobReady /\ InputLeft /\ inBuff = NoInBuff
  /\ inUse' = ZSTDMT_getInputDataInUse
  /\ mpc' = "range"
  /\ UNCHANGED <<call, failed, srcOffset, inPos, forward, out, outcome, inBuff, prefix,
                 roundBuff, roundPos, frameVars, jobs, serialVars,
                 resourceVars, workerVars, poolVars, failures>>

ScanSkipped ==
  /\ mpc = "scan" /\ (jobReady \/ ~InputLeft \/ inBuff # NoInBuff)
  /\ forward' = FALSE
  /\ mpc' = IF jobReady \/ ~InputLeft THEN "create" ELSE "load"
  /\ UNCHANGED <<call, failed, srcOffset, inPos, out, outcome, inputVars, frameVars,
                 jobs, serialVars, resourceVars, workerVars, poolVars,
                 failures>>

MustWrap == Capacity - roundPos < Section
WantedRange == IF MustWrap THEN Span(0, prefix.size) ELSE Span(roundPos, Section)

(* ZSTDMT_waitForLdmComplete: ldmWindow is empty while LDM is not enabled. *)
LdmIgnored(r) == TRUE
LdmComplete(r) ==
  ~isOverlapped(r, ldmWindow.ext) /\ ~isOverlapped(r, ldmWindow.pre)

RangeInUse ==
  /\ mpc = "range" /\ isOverlapped(WantedRange, inUse)
  /\ forward' = FALSE
  /\ mpc' = "create"
  /\ UNCHANGED <<call, failed, srcOffset, inPos, out, outcome, inputVars, frameVars,
                 jobs, serialVars, resourceVars, workerVars, poolVars,
                 failures>>

PrefixLeft == roundBuff
MovedPrefix ==
  [i \in Cells |-> IF i < prefix.size THEN roundBuff[prefix.start + i]
                   ELSE roundBuff[i]]
WrapRange ==
  /\ mpc = "range" /\ MustWrap
  /\ ~isOverlapped(WantedRange, inUse) /\ LdmComplete(WantedRange)
  /\ roundBuff' = MovedPrefix
  /\ prefix' = Span(0, prefix.size)
  /\ roundPos' = prefix.size
  /\ UNCHANGED <<callVars, inUse, inBuff, frameVars, jobs, serialVars,
                 resourceVars, workerVars, poolVars, failures>>

TakeRange ==
  /\ mpc = "range" /\ ~MustWrap
  /\ ~isOverlapped(WantedRange, inUse) /\ LdmComplete(WantedRange)
  /\ inBuff' = [start |-> roundPos, filled |-> 0]
  /\ mpc' = "load"
  /\ UNCHANGED <<call, failed, srcOffset, inPos, forward, out, outcome, inUse, prefix,
                 roundBuff, roundPos, frameVars, jobs, serialVars,
                 resourceVars, workerVars, poolVars, failures>>

(* The copy into inBuff; toLoad is that of findSynchronizationPoint without*)
(* the option rsyncable, which is never set.                               *)
WholeChunk == ThisChunk - inPos
ToLoad == Reference!Lowest(ThisChunk - inPos, Section - inBuff.filled)
LoadInput ==
  /\ mpc = "load"
  /\ LET toLoad == ToLoad
         to == inBuff.start + inBuff.filled
     IN  /\ roundBuff' = [i \in Cells |->
                            IF to <= i /\ i < to + toLoad
                            THEN UnitAt(inPos + i - to) ELSE roundBuff[i]]
         /\ inPos' = inPos + toLoad
         /\ inBuff' = [inBuff EXCEPT !.filled = @ + toLoad]
         /\ forward' = (toLoad > 0)
  /\ mpc' = "create"
  /\ UNCHANGED <<call, failed, srcOffset, out, outcome, inUse, prefix, roundPos,
                 frameVars, jobs, serialVars, resourceVars, workerVars,
                 poolVars, failures>>

-----------------------------------------------------------------------------
(* ZSTDMT_createCompressionJob                                             *)

TableFull == nextJobID > doneJobID + TableSize - 1

(* endOp, once the input left has turned ZSTD_e_end into ZSTD_e_flush.     *)
EndOfLastCall == LastChunk
EndFrame == LastChunk /\ ~InputLeft
MustFlush == LastChunk
MustCreate ==
  \/ jobReady
  \/ inBuff.filled >= Section
  \/ MustFlush /\ inBuff.filled > 0
  \/ EndFrame /\ ~frameEnded

PreparedJob ==
  [src |-> Span(inBuff.start, inBuff.filled), prefix |-> prefix,
   id |-> nextJobID, last |-> EndFrame, consumed |-> 0, blocks |-> <<>>,
   flushed |-> 0, error |-> FALSE, dst |-> FALSE]
NextPrefix ==
  LET size == Reference!Lowest(inBuff.filled, Overlap)
  IN  IF EndFrame THEN kNullRange
      ELSE Span(inBuff.start + inBuff.filled - size, size)

(* POOL_tryAdd on a queue of size 0.                                       *)
WorkerAvailable == Cardinality(Pool!Busy) # NbWorkers /\ queue = <<>>

PrepareJob ==
  IF jobReady
  THEN UNCHANGED <<jobs, inBuff, prefix, roundPos, frameEnded>>
  ELSE /\ jobs' = [jobs EXCEPT ![Slot(nextJobID)] = PreparedJob]
       /\ inBuff' = NoInBuff
       /\ prefix' = NextPrefix
       /\ roundPos' = roundPos + inBuff.filled
       /\ frameEnded' = (frameEnded \/ EndFrame)

CreateJob ==
  /\ mpc = "create" /\ MustCreate /\ ~TableFull
  /\ PrepareJob
  /\ \/ /\ WorkerAvailable
        /\ Pool!Accept(nextJobID)
        /\ nextJobID' = nextJobID + 1 /\ jobReady' = FALSE
     \/ /\ ~WorkerAvailable
        /\ jobReady' = TRUE
        /\ UNCHANGED <<nextJobID, poolVars>>
  /\ mpc' = "flush"
  /\ UNCHANGED <<call, failed, srcOffset, inPos, forward, out, outcome, inUse, roundBuff,
                 doneJobID, serialVars, resourceVars, workerVars, failures>>

NoJobToCreate ==
  /\ mpc = "create" /\ ~(MustCreate /\ ~TableFull)
  /\ mpc' = "flush"
  /\ UNCHANGED <<call, failed, srcOffset, inPos, forward, out, outcome, inputVars,
                 frameVars, jobs, serialVars, resourceVars, workerVars,
                 poolVars, failures>>

-----------------------------------------------------------------------------
(* ZSTDMT_flushProduced                                                    *)

Oldest == jobs[Slot(doneJobID)]

(* It blocks only if nothing was loaded, and until the oldest job has a    *)
(* block to flush, has failed or is complete.                              *)
MayFlush ==
  \/ forward
  \/ doneJobID = nextJobID
  \/ Oldest.error
  \/ Oldest.flushed # Len(Oldest.blocks)
  \/ Completed(Oldest)

Flushed == Completed(Oldest) /\ Oldest.blocks # <<>>
AfterFlush(job) ==
  IF Flushed
  THEN [job EXCEPT !.flushed = Len(job.blocks), !.dst = FALSE, !.blocks = <<>>]
  ELSE [job EXCEPT !.flushed = Len(job.blocks)]

(* ZSTDMT_releaseBuffer keeps a buffer while the pool has room.            *)
WithReleased(pool, n) == Reference!Lowest(pool + n, MaxBuffers)

(* What ZSTDMT_compressStream_generic returns is 0 only if all is flushed. *)
NothingRemains(done) ==
  /\ ~InputLeft
  /\ done = nextJobID \/ jobs[Slot(doneJobID)].src.size = 0
  /\ ~jobReady /\ inBuff.filled = 0
  /\ MustFlush => frameEnded

(* compress() goes on to its next chunk when this one is taken, and to the *)
(* end of the frame when the last one is flushed.                          *)
ChunkOver(done) == IF LastChunk THEN NothingRemains(done) ELSE ~InputLeft
NextCall(done) ==
  IF ChunkOver(done)
  THEN /\ srcOffset' = srcOffset + ThisChunk /\ inPos' = 0
       /\ mpc' = IF srcOffset' >= Total THEN "free" ELSE "scan"
  ELSE /\ mpc' = "scan"
       /\ UNCHANGED <<srcOffset, inPos>>

FlushProduced ==
  /\ mpc = "flush" /\ MayFlush /\ ~Oldest.error
  /\ IF doneJobID = nextJobID
     THEN UNCHANGED <<out, jobs, bufPool, doneJobID>> /\ NextCall(doneJobID)
     ELSE /\ out' = out \o SubSeq(Oldest.blocks, Oldest.flushed + 1, Len(Oldest.blocks))
          /\ jobs' = [jobs EXCEPT ![Slot(doneJobID)] = AfterFlush(@)]
          /\ bufPool' = IF Flushed THEN WithReleased(bufPool, 1) ELSE bufPool
          /\ doneJobID' = IF Flushed THEN doneJobID + 1 ELSE doneJobID
          /\ NextCall(doneJobID')
  /\ UNCHANGED <<call, failed, forward, outcome, inputVars, nextJobID, jobReady,
                 frameEnded, serialVars, cctxPool, workerVars, poolVars,
                 failures>>

ErrorUnseen ==
  /\ mpc = "flush" /\ MayFlush /\ Oldest.error
  /\ mpc' = "waitAll"
  /\ UNCHANGED <<call, failed, srcOffset, inPos, forward, out, outcome, inputVars,
                 frameVars, jobs, serialVars, resourceVars, workerVars,
                 poolVars, failures>>
FlushError ==
  /\ mpc = "flush" /\ MayFlush /\ Oldest.error
  /\ mpc' = "waitAll" /\ failed' = TRUE
  /\ UNCHANGED <<call, srcOffset, inPos, forward, out, outcome, inputVars, frameVars,
                 jobs, serialVars, resourceVars, workerVars, poolVars,
                 failures>>

-----------------------------------------------------------------------------
(* The end of the call.                                                    *)

(* ZSTDMT_waitForAllJobsCompleted                                          *)
CountJob ==
  /\ mpc = "waitAll" /\ doneJobID < nextJobID
  /\ doneJobID' = doneJobID + 1
  /\ UNCHANGED <<callVars, inputVars, nextJobID, jobReady, frameEnded, jobs,
                 serialVars, resourceVars, workerVars, poolVars, failures>>
WaitForJob ==
  /\ mpc = "waitAll" /\ doneJobID < nextJobID /\ Completed(Oldest)
  /\ doneJobID' = doneJobID + 1
  /\ UNCHANGED <<callVars, inputVars, nextJobID, jobReady, frameEnded, jobs,
                 serialVars, resourceVars, workerVars, poolVars, failures>>

HeldBuffers == Cardinality({s \in DOMAIN jobs : jobs[s].dst})
ZSTDMT_releaseAllJobResources ==
  /\ jobs' = [s \in DOMAIN jobs |-> UnusedJob]
  /\ bufPool' = WithReleased(bufPool, HeldBuffers)
  /\ inBuff' = NoInBuff

ReleaseAfterError ==
  /\ mpc = "waitAll" /\ doneJobID = nextJobID
  /\ ZSTDMT_releaseAllJobResources
  /\ mpc' = "free"
  /\ UNCHANGED <<call, failed, srcOffset, inPos, forward, out, outcome, inUse, prefix,
                 roundBuff, roundPos, frameVars, serialVars, cctxPool,
                 workerVars, poolVars, failures>>

(* ZSTDMT_freeCCtx: POOL_free shuts the pool down and joins the workers,   *)
(* then the rest is freed.                                                 *)
FreeCCtx ==
  /\ mpc = "free"
  /\ Pool!Close
  /\ mpc' = "join"
  /\ UNCHANGED <<call, failed, srcOffset, inPos, forward, out, outcome, inputVars,
                 frameVars, jobs, serialVars, resourceVars, workerVars,
                 failures>>

AllJoined == queue = <<>> /\ \A w \in Workers : wpc[w] = "idle"
Return ==
  /\ mpc = "join" /\ AllJoined
  /\ ZSTDMT_releaseAllJobResources
  /\ outcome' = IF failed THEN "error" ELSE "ok"
  /\ mpc' = "returned"
  /\ UNCHANGED <<call, failed, srcOffset, inPos, forward, out, inUse, prefix, roundBuff,
                 roundPos, frameVars, serialVars, cctxPool, workerVars,
                 poolVars, failures>>

Main ==
  \/ StartCall \/ StartFails
  \/ ScanJobs \/ ScanSkipped \/ RangeInUse \/ WrapRange \/ TakeRange \/ LoadInput
  \/ CreateJob \/ NoJobToCreate \/ FlushProduced \/ FlushError
  \/ WaitForJob \/ ReleaseAfterError \/ FreeCCtx \/ Return

-----------------------------------------------------------------------------
(* ZSTDMT_compressionJob                                                   *)

SlotOf(w) == Slot(running[w])
JobOf(w) == jobs[SlotOf(w)]
mainVars == <<callVars, inputVars, frameVars>>

JOB_ERROR(w) ==
  /\ CountFailure
  /\ jobs' = [jobs EXCEPT ![SlotOf(w)].error = TRUE]
  /\ wpc' = [wpc EXCEPT ![w] = "ensure"]

Begin(w) ==
  /\ w <= NbWorkers
  /\ Pool!BeginJob(w)
  /\ wpc' = [wpc EXCEPT ![w] = "resources"]
  /\ UNCHANGED <<mainVars, jobs, serialVars, resourceVars, wctx, wseq, wlast,
                 failures>>

(* A context and a buffer, from the pools or new; the sequences of LDM come*)
(* from a pool like that of the contexts.                                  *)
GetCCtx(w) ==
  /\ wctx' = [wctx EXCEPT ![w] = TRUE]
  /\ cctxPool' = Reference!Highest(cctxPool - 1, 0)
GetResources(w) ==
  /\ wpc[w] = "resources"
  /\ GetCCtx(w)
  /\ bufPool' = Reference!Highest(bufPool - 1, 0)
  /\ jobs' = [jobs EXCEPT ![SlotOf(w)].dst = TRUE]
  /\ wpc' = [wpc EXCEPT ![w] = "serial"]
  /\ UNCHANGED <<mainVars, serialVars, wseq, wlast, poolVars, failures>>

NoResources(w) ==
  /\ wpc[w] = "resources" /\ JOB_ERROR(w)
  /\ \/ cctxPool = 0 /\ UNCHANGED <<wctx, cctxPool>>
     \/ bufPool = 0 /\ GetCCtx(w)
  /\ UNCHANGED <<mainVars, serialVars, bufPool, wseq, wlast, poolVars>>

(* ZSTD_window_update: the window takes in src.                            *)
WindowWith(window, src) ==
  LET moved == src.start # Ends(window.pre)
      ext == IF moved THEN window.pre ELSE window.ext
      cut == IF isOverlapped(src, ext) THEN Reference!Lowest(Ends(ext), Ends(src))
             ELSE ext.start
  IN  [ext |-> Span(cut, Ends(ext) - cut),
       pre |-> IF moved THEN src ELSE Span(window.pre.start, window.pre.size + src.size)]

(* ZSTD_window_enforceMaxDist, at the end of a piece of src, `after` units *)
(* before the end of the window.                                           *)
Enforced(window, after) ==
  LET excess == Reference!Highest(0, window.ext.size + window.pre.size - after - LdmWindow)
      fromExt == Reference!Lowest(excess, window.ext.size)
      fromPre == excess - fromExt
  IN  [ext |-> Span(window.ext.start + fromExt, window.ext.size - fromExt),
       pre |-> Span(window.pre.start + fromPre, window.pre.size - fromPre)]

(* ZSTD_ldm_generateSequences: what the matches of each piece may refer to.*)
SeenAt(window, after) ==
  Contents(roundBuff, window.ext)
    \o Contents(roundBuff, [window.pre EXCEPT !.size = @ - after])
SerialStep(w) ==
  LET src == JobOf(w).src
      full == WindowWith(ldmState, src)
      At(c) == Enforced(full, src.size - c)
  IN  /\ wseq' = [wseq EXCEPT ![w] =
                    [c \in 1..src.size |-> SeenAt(At(c), src.size - c)]]
      /\ ldmState' = At(src.size)
      /\ ldmWindow' = At(src.size)

(* ZSTDMT_serialState_genSequences: jobs take their turn in order; one that*)
(* was skipped does nothing but advance the turn.                          *)
TurnReached(id) == serialNext >= id
GenSequences(w) ==
  /\ wpc[w] = "serial" /\ TurnReached(JobOf(w).id)
  /\ IF serialNext = JobOf(w).id /\ LdmWindow > 0
     THEN SerialStep(w)
     ELSE /\ wseq' = [wseq EXCEPT ![w] = <<>>]
          /\ UNCHANGED <<ldmState, ldmWindow>>
  /\ serialNext' = serialNext + 1
  /\ wpc' = [wpc EXCEPT ![w] = "compress"]
  /\ UNCHANGED <<mainVars, jobs, resourceVars, wctx, wlast, poolVars, failures>>

(* The block that ends at unit c of the source.  The encoder refers to the *)
(* prefix and the source where they are, in the round buffer.              *)
Compressed(w, c) ==
  LET job == JobOf(w)
  IN  [first |-> job.id = 0, last |-> job.last /\ c = job.src.size,
       prefix |-> Contents(roundBuff, job.prefix),
       src |-> Contents(roundBuff, Span(job.src.start, c)),
       ldm |-> wseq[w]]

LastPiece(w) == JobOf(w).consumed + 1 = JobOf(w).src.size
CompressPiece(w) ==
  /\ wpc[w] = "compress" /\ ~LastPiece(w)
  /\ LET c == JobOf(w).consumed + 1
     IN  jobs' = [jobs EXCEPT ![SlotOf(w)].consumed = c,
                              ![SlotOf(w)].blocks = Append(@, Compressed(w, c))]
  /\ UNCHANGED <<mainVars, serialVars, resourceVars, workerVars, poolVars,
                 failures>>

CompressLast(w) ==
  /\ wpc[w] = "compress" /\ LastPiece(w)
  /\ wlast' = [wlast EXCEPT ![w] = <<Compressed(w, JobOf(w).src.size)>>]
  /\ wpc' = [wpc EXCEPT ![w] = "ensure"]
  /\ UNCHANGED <<mainVars, jobs, serialVars, resourceVars, wctx, wseq, poolVars,
                 failures>>

CompressFails(w) ==
  /\ wpc[w] = "compress" /\ JOB_ERROR(w)
  /\ UNCHANGED <<mainVars, serialVars, resourceVars, wctx, wseq, wlast, poolVars>>

(* ZSTDMT_serialState_ensureFinished                                       *)
EmptyWindow(window) ==
  [ext |-> Span(Ends(window.ext), 0), pre |-> Span(Ends(window.pre), 0)]
EnsureFinished(w) ==
  /\ wpc[w] = "ensure"
  /\ IF serialNext <= JobOf(w).id
     THEN serialNext' = JobOf(w).id + 1 /\ ldmWindow' = EmptyWindow(ldmWindow)
     ELSE UNCHANGED <<serialNext, ldmWindow>>
  /\ wpc' = [wpc EXCEPT ![w] = "release"]
  /\ UNCHANGED <<mainVars, jobs, ldmState, resourceVars, wctx, wseq, wlast,
                 poolVars, failures>>

ReleaseResources(w) ==
  /\ wpc[w] = "release"
  /\ cctxPool' = IF wctx[w] THEN Reference!Lowest(cctxPool + 1, NbWorkers) ELSE cctxPool
  /\ wctx' = [wctx EXCEPT ![w] = FALSE]
  /\ wseq' = [wseq EXCEPT ![w] = <<>>]
  /\ wpc' = [wpc EXCEPT ![w] = "report"]
  /\ UNCHANGED <<mainVars, jobs, serialVars, bufPool, wlast, poolVars, failures>>

Report(w) ==
  /\ wpc[w] = "report"
  /\ jobs' = [jobs EXCEPT ![SlotOf(w)].consumed = JobOf(w).src.size,
                          ![SlotOf(w)].blocks = @ \o wlast[w]]
  /\ wlast' = [wlast EXCEPT ![w] = <<>>]
  /\ wpc' = [wpc EXCEPT ![w] = "end"]
  /\ UNCHANGED <<mainVars, serialVars, resourceVars, wctx, wseq, poolVars,
                 failures>>

End(w) ==
  /\ wpc[w] = "end"
  /\ Pool!EndJob(w)
  /\ wpc' = [wpc EXCEPT ![w] = "idle"]
  /\ UNCHANGED <<mainVars, jobs, serialVars, resourceVars, wctx, wseq, wlast,
                 failures>>

Worker(w) ==
  \/ Begin(w) \/ GetResources(w) \/ NoResources(w) \/ GenSequences(w)
  \/ CompressPiece(w) \/ CompressLast(w) \/ CompressFails(w)
  \/ EnsureFinished(w) \/ ReleaseResources(w) \/ Report(w) \/ End(w)

-----------------------------------------------------------------------------
Terminating == mpc = "returned" /\ UNCHANGED vars

Next == Main \/ (\E w \in Workers : Worker(w)) \/ Terminating

(* All threads are scheduled.                                              *)
Spec == Init /\ [][Next]_vars
             /\ WF_vars(Main) /\ \A w \in Workers : WF_vars(Worker(w))

-----------------------------------------------------------------------------
(* Properties                                                              *)

Ranges == [start : -1..Capacity, size : 0..Capacity]
TypeOK ==
  /\ mpc \in {"start", "scan", "range", "load", "create", "flush", "waitAll",
              "free", "join", "returned"}
  /\ failed \in BOOLEAN /\ forward \in BOOLEAN
  /\ srcOffset \in 0..Total /\ inPos \in 0..CallerChunk
  /\ inUse \in Ranges /\ prefix \in Ranges
  /\ inBuff \in [start : -1..Capacity, filled : 0..Section]
  /\ roundBuff \in [Cells -> 0..Total] /\ roundPos \in 0..Capacity
  /\ doneJobID \in 0..nextJobID /\ nextJobID \in 0..JobCount
  /\ nextJobID - doneJobID <= TableSize
  /\ jobReady \in BOOLEAN /\ frameEnded \in BOOLEAN
  /\ \A s \in DOMAIN jobs :
       /\ jobs[s].src \in Ranges /\ Ends(jobs[s].src) <= Capacity
       /\ jobs[s].prefix \in Ranges /\ Ends(jobs[s].prefix) <= Capacity
       /\ jobs[s].consumed <= jobs[s].src.size
       /\ jobs[s].flushed <= Section
  /\ serialNext \in 0 .. JobCount + NbWorkers
  /\ \A window \in {ldmState, ldmWindow} :
       window.ext \in Ranges /\ window.pre \in Ranges
  /\ bufPool \in 0..MaxBuffers /\ cctxPool \in 0..NbWorkers
  /\ wpc \in [Workers -> {"idle", "resources", "serial", "compress", "ensure",
                          "release", "report", "end"}]
  /\ outcome \in {"running", "ok", "error"} /\ failures \in 0..MaxFailures

(* The output is at all times the beginning of the one frame of this input,*)
(* whatever the workers' number and order: unless a job has failed (the    *)
(* bytes flushed before the error is met may then lack a skipped LDM step).*)
OutputBeginsFrame == failures = 0 => IsPrefix(out, Reference!Frames[call])

(* "makes sure it doesn't overlap with any pieces still in use" (roundBuff):*)
(* main never changes a unit that a job not yet complete refers to.        *)
Unread(job) == ~Completed(job) /\ ~job.error
InUseBy(job) == {i \in Cells : \E r \in {job.src, job.prefix} :
                                 r.start <= i /\ i < Ends(r)}
PiecesInUseKept ==
  [][\A id \in doneJobID .. nextJobID - 1 :
       Unread(jobs[Slot(id)]) =>
         \A i \in InUseBy(jobs[Slot(id)]) : roundBuff'[i] = roundBuff[i]]_vars

(* "note: should not happen": neither pool is ever full when something is  *)
(* released to it, so nothing is freed and allocated again.                *)
PoolsNeverOverflow ==
  /\ bufPool + HeldBuffers <= MaxBuffers
  /\ cctxPool + Cardinality({w \in Workers : wctx[w]}) <= NbWorkers

(* "ensure all workers are killed first !": when the descriptions of jobs  *)
(* are cleared no worker has one in hand, and no description is used again *)
(* before its worker has done with it.                                     *)
ReleasedJobsAreIdle ==
  \A w \in Workers :
    wpc[w] \notin {"idle", "end"} =>
      /\ mpc \notin {"free", "join", "returned"}
      /\ JobOf(w).id = running[w]

(* The call returns an error or the whole frame.                           *)
Promise == INSTANCE CompressStream
             WITH result <- IF outcome = "ok" THEN out ELSE <<>>,
                  outcome <- outcome, call <- call, Calls <- Calls
KeepsPromise == Promise!Spec
=============================================================================
