------------------------------ MODULE ThreadPool ------------------------------
(***************************************************************************)
(* The thread pool zstd's multithreaded compression runs on (lib/common/   *)
(* pool.c), with its one client: POOL_create_advanced, POOL_add,           *)
(* POOL_tryAdd, POOL_resize, POOL_joinJobs, POOL_free, and POOL_thread.    *)
(*                                                                         *)
(* Every region under queueMutex is one step.  cond_wait ends a step and   *)
(* puts its caller to sleep; cond_signal wakes one sleeper of its          *)
(* condition, if there is one, cond_broadcast all; a sleeper may also wake *)
(* for no reason.  Whoever wakes takes the mutex and tests again.          *)
(*                                                                         *)
(* Every pool in lib/ is used only by the thread that created it           *)
(* (zstdmt_compress.c, cover.c, fastcover.c): one client, many threads.    *)
(***************************************************************************)
EXTENDS Naturals, Sequences, FiniteSets

CONSTANTS
  MaxThreads,   \* threads are 0 .. MaxThreads - 1, created in this order
  Sizes,        \* thread counts asked for: arguments of create and resize
  QueueSizes,   \* the intended queue sizes, arguments of create
  MaxJobs,      \* bound: jobs the client submits
  MaxResizes,   \* bound: calls of POOL_resize
  NoJob

ASSUME SizesAssumption == Sizes \subseteq 1..MaxThreads /\ MaxThreads \in Nat
ASSUME QueueSizesAssumption == QueueSizes \subseteq Nat
ASSUME MaxJobsAssumption == MaxJobs \in Nat /\ MaxResizes \in Nat
ASSUME NoJobAssumption == NoJob \notin 1..MaxJobs

Threads == 0 .. MaxThreads - 1
Jobs == 1..MaxJobs

VARIABLES
  queueSize, jobQueue, queueHead, queueTail, queueEmpty,   \* ctx->...
  numThreadsBusy, threadLimit, threadCapacity, shutdown,   \* ctx->...
  tpc,         \* thread -> place in POOL_thread
  tjob,        \* thread -> its local variable job
  cpc,         \* client: place, the function it is in
  cjob,        \* client: jobs submitted so far; the last one is in hand
  target,      \* client: threads asked for in POOL_create
  resizes,     \* client: calls of POOL_resize so far
  accepted,    \* history: jobs POOL_add or POOL_tryAdd took
  begun        \* history: jobs handed to their function, in order

queueVars == <<queueSize, jobQueue, queueHead, queueTail, queueEmpty>>
limitVars == <<numThreadsBusy, threadLimit, threadCapacity, shutdown>>
threadVars == <<tpc, tjob>>
clientVars == <<cpc, cjob, target, resizes>>
historyVars == <<accepted, begun>>
vars == <<queueVars, limitVars, threadVars, clientVars, historyVars>>

-----------------------------------------------------------------------------
(* Condition variables.  "sleep" is a wait on queuePopCond; the client     *)
(* sleeps on queuePushCond in "addSleep" or "joinSleep".                   *)

Asleep(pc) == {t \in Threads : pc[t] = "sleep"}
SignalPop(pc) ==
  IF Asleep(pc) = {} THEN {pc}
  ELSE {[pc EXCEPT ![t] = "test"] : t \in Asleep(pc)}
WokenOne(pc) ==
  [t \in Threads |-> IF t \in Asleep(pc) /\ (\A u \in Asleep(pc) : t <= u)
                     THEN "test" ELSE pc[t]]
BroadcastPop(pc) ==
  [t \in Threads |-> IF pc[t] = "sleep" THEN "test" ELSE pc[t]]
NobodyWoken == UNCHANGED cpc
SignalPush ==
  cpc' = CASE cpc = "addSleep" -> "add"
           [] cpc = "joinSleep" -> "joinJobs"
           [] OTHER -> cpc

isQueueFull ==
  IF queueSize > 1
  THEN queueHead = (queueTail + 1) % queueSize
  ELSE numThreadsBusy = threadLimit \/ ~queueEmpty

-----------------------------------------------------------------------------
(* POOL_thread                                                             *)

NothingToDo == queueEmpty \/ numThreadsBusy >= threadLimit

ThreadSleeps(t) ==
  /\ tpc[t] = "test" /\ NothingToDo /\ ~shutdown
  /\ tpc' = [tpc EXCEPT ![t] = "sleep"]
  /\ UNCHANGED <<queueVars, limitVars, tjob, clientVars, historyVars>>

ThreadLeaves(t) ==
  /\ tpc[t] = "test" /\ shutdown
  /\ tpc' = [tpc EXCEPT ![t] = "exited"]
  /\ UNCHANGED <<queueVars, limitVars, tjob, clientVars, historyVars>>
ThreadExits(t) ==
  /\ tpc[t] = "test" /\ NothingToDo /\ shutdown
  /\ tpc' = [tpc EXCEPT ![t] = "exited"]
  /\ UNCHANGED <<queueVars, limitVars, tjob, clientVars, historyVars>>

EmptyBeforePop == queueHead = queueTail
EmptyAfterPop == queueHead' = queueTail
PopJob(t) ==
  /\ tpc[t] = "test" /\ ~NothingToDo
  /\ tjob' = [tjob EXCEPT ![t] = jobQueue[queueHead]]
  /\ begun' = Append(begun, jobQueue[queueHead])
  /\ queueHead' = (queueHead + 1) % queueSize
  /\ numThreadsBusy' = numThreadsBusy + 1
  /\ queueEmpty' = EmptyAfterPop
  /\ SignalPush
  /\ tpc' = [tpc EXCEPT ![t] = "run"]
  /\ UNCHANGED <<queueSize, jobQueue, queueTail, threadLimit, threadCapacity,
                 shutdown, cjob, target, resizes, accepted>>

(* job.function(job.opaque), outside the mutex.                            *)
RunJob(t) ==
  /\ tpc[t] = "run"
  /\ tpc' = [tpc EXCEPT ![t] = "finish"]
  /\ UNCHANGED <<queueVars, limitVars, tjob, clientVars, historyVars>>

FinishJob(t) ==
  /\ tpc[t] = "finish"
  /\ numThreadsBusy' = numThreadsBusy - 1
  /\ SignalPush
  /\ tjob' = [tjob EXCEPT ![t] = NoJob]
  /\ tpc' = [tpc EXCEPT ![t] = "test"]
  /\ UNCHANGED <<queueVars, threadLimit, threadCapacity, shutdown,
                 cjob, target, resizes, historyVars>>

Thread(t) ==
  ThreadSleeps(t) \/ ThreadExits(t) \/ PopJob(t) \/ RunJob(t) \/ FinishJob(t)

(* POSIX lets a wait end without a signal.                                 *)
SpuriousWakeup(t) ==
  /\ tpc[t] = "sleep"
  /\ tpc' = [tpc EXCEPT ![t] = "test"]
  /\ UNCHANGED <<queueVars, limitVars, tjob, clientVars, historyVars>>

-----------------------------------------------------------------------------
(* The client.                                                             *)

(* POOL_create_advanced, up to the loop that creates the threads.          *)
Create ==
  /\ cpc = "start"
  /\ \E n \in Sizes, q \in QueueSizes :
       /\ target' = n
       /\ threadLimit' = n
       /\ queueSize' = q + 1
       /\ jobQueue' = [i \in 0..q |-> NoJob]
  /\ cpc' = "create"
  /\ UNCHANGED <<queueHead, queueTail, queueEmpty, numThreadsBusy,
                 threadCapacity, shutdown, threadVars, cjob, resizes,
                 historyVars>>

CreateThread ==
  /\ cpc = "create" /\ threadCapacity < target
  /\ tpc' = [tpc EXCEPT ![threadCapacity] = "test"]
  /\ threadCapacity' = threadCapacity + 1
  /\ UNCHANGED <<queueVars, numThreadsBusy, threadLimit, shutdown, tjob,
                 clientVars, historyVars>>

(* pthread_create fails: the threads there are end in POOL_free.           *)
CreateThreadFails ==
  /\ cpc = "create" /\ threadCapacity < target
  /\ cpc' = "free"
  /\ UNCHANGED <<queueVars, limitVars, threadVars, cjob, target, resizes,
                 historyVars>>

CreateDone ==
  /\ cpc = "create" /\ threadCapacity = target
  /\ cpc' = "idle"
  /\ UNCHANGED <<queueVars, limitVars, threadVars, cjob, target, resizes,
                 historyVars>>

(* The client calls a function of the pool.                                *)
Call ==
  /\ cpc = "idle"
  /\ \/ cpc' \in {"add", "tryAdd"} /\ cjob < MaxJobs /\ cjob' = cjob + 1
     \/ cpc' \in {"joinJobs", "free"} /\ UNCHANGED cjob
  /\ UNCHANGED <<queueVars, limitVars, threadVars, target, resizes,
                 historyVars>>

(* POOL_add_internal; shutdown is set only by POOL_free, after which this  *)
(* client adds nothing, so its early return is never taken.                *)
AddedAtEnd ==
  /\ queueEmpty' = FALSE
  /\ jobQueue' = [jobQueue EXCEPT ![queueTail] = cjob]
  /\ queueTail' = queueTail + 1
  /\ tpc' \in SignalPop(tpc)
  /\ accepted' = accepted \cup {cjob}
  /\ cpc' = "idle"
  /\ UNCHANGED <<queueSize, queueHead, limitVars, tjob, cjob, target,
                 resizes, begun>>
POOL_add_internal ==
  /\ queueEmpty' = FALSE
  /\ jobQueue' = [jobQueue EXCEPT ![queueTail] = cjob]
  /\ queueTail' = (queueTail + 1) % queueSize
  /\ tpc' \in SignalPop(tpc)
  /\ accepted' = accepted \cup {cjob}
  /\ cpc' = "idle"
  /\ UNCHANGED <<queueSize, queueHead, limitVars, tjob, cjob, target,
                 resizes, begun>>

Add == cpc = "add" /\ ~isQueueFull /\ POOL_add_internal

AddSleeps ==
  /\ cpc = "add" /\ isQueueFull
  /\ cpc' = "addSleep"
  /\ UNCHANGED <<queueVars, limitVars, threadVars, cjob, target, resizes,
                 historyVars>>

TryAdd == cpc = "tryAdd" /\ ~isQueueFull /\ POOL_add_internal

TryAddRefused ==
  /\ cpc = "tryAdd" /\ isQueueFull
  /\ cpc' = "idle"
  /\ UNCHANGED <<queueVars, limitVars, threadVars, cjob, target, resizes,
                 historyVars>>

JobsQueued == ~queueEmpty
WorkOutstanding == ~queueEmpty \/ numThreadsBusy > 0

JoinJobsSleeps ==
  /\ cpc = "joinJobs" /\ WorkOutstanding
  /\ cpc' = "joinSleep"
  /\ UNCHANGED <<queueVars, limitVars, threadVars, cjob, target, resizes,
                 historyVars>>

JoinJobsDone ==
  /\ cpc = "joinJobs" /\ ~WorkOutstanding
  /\ cpc' = "idle"
  /\ UNCHANGED <<queueVars, limitVars, threadVars, cjob, target, resizes,
                 historyVars>>

(* POOL_resize, one region under the mutex: the new limit, then the new    *)
(* threads, of which the allocation of their handles or pthread_create may *)
(* stop any number short, and the broadcast that ends it in every case.    *)
NewThreads(c) ==
  [t \in Threads |-> IF threadCapacity <= t /\ t < c THEN "test" ELSE tpc[t]]
Resize ==
  /\ cpc = "idle" /\ resizes < MaxResizes
  /\ resizes' = resizes + 1
  /\ \E n \in Sizes :
       /\ threadLimit' = n
       /\ \E c \in threadCapacity .. (IF n > threadCapacity
                                      THEN n ELSE threadCapacity) :
            /\ threadCapacity' = c
            /\ tpc' = BroadcastPop(NewThreads(c))
  /\ UNCHANGED <<queueVars, numThreadsBusy, shutdown, tjob, cpc, cjob, target,
                 historyVars>>

(* POOL_free: POOL_join sets shutdown under the mutex, broadcasts outside  *)
(* of it and joins the threads; then the memory is released.               *)
Shutdown ==
  /\ cpc = "free"
  /\ shutdown' = TRUE
  /\ cpc' = "broadcast"
  /\ UNCHANGED <<queueVars, numThreadsBusy, threadLimit, threadCapacity,
                 threadVars, cjob, target, resizes, historyVars>>

Broadcast ==
  /\ cpc = "broadcast"
  /\ tpc' = BroadcastPop(tpc)
  /\ cpc' = "join"
  /\ UNCHANGED <<queueVars, limitVars, tjob, cjob, target, resizes,
                 historyVars>>

Join ==
  /\ cpc = "join"
  /\ \A t \in 0 .. threadCapacity - 1 : tpc[t] = "exited"
  /\ cpc' = "freed"
  /\ UNCHANGED <<queueVars, limitVars, threadVars, cjob, target, resizes,
                 historyVars>>

Client ==
  \/ Create \/ CreateThread \/ CreateThreadFails \/ CreateDone
  \/ Call \/ Add \/ AddSleeps \/ TryAdd \/ TryAddRefused
  \/ JoinJobsSleeps \/ JoinJobsDone \/ Resize
  \/ Shutdown \/ Broadcast \/ Join

ClientSpuriousWakeup ==
  /\ cpc \in {"addSleep", "joinSleep"}
  /\ SignalPush
  /\ UNCHANGED <<queueVars, limitVars, threadVars, cjob, target, resizes,
                 historyVars>>

Terminating == cpc = "freed" /\ UNCHANGED vars

Init ==
  /\ queueSize = 1 /\ jobQueue = [i \in 0..0 |-> NoJob]
  /\ queueHead = 0 /\ queueTail = 0 /\ queueEmpty = TRUE
  /\ numThreadsBusy = 0 /\ threadLimit = 0 /\ threadCapacity = 0
  /\ shutdown = FALSE
  /\ tpc = [t \in Threads |-> "none"] /\ tjob = [t \in Threads |-> NoJob]
  /\ cpc = "start" /\ cjob = 0 /\ target = 0 /\ resizes = 0
  /\ accepted = {} /\ begun = <<>>

Next ==
  \/ Client \/ ClientSpuriousWakeup
  \/ \E t \in Threads : Thread(t) \/ SpuriousWakeup(t)
  \/ Terminating

(* Threads are scheduled, jobs end, and the client does not stop in the    *)
(* middle of a function of the pool; it may stop calling them.             *)
ClientInCall == cpc \notin {"start", "idle"} /\ Client
Spec == Init /\ [][Next]_vars
             /\ WF_vars(ClientInCall)
             /\ \A t \in Threads : WF_vars(Thread(t))

-----------------------------------------------------------------------------
(* Properties                                                              *)

TypeOK ==
  /\ queueSize \in {q + 1 : q \in QueueSizes \cup {0}}
  /\ jobQueue \in [0 .. queueSize - 1 -> Jobs \cup {NoJob}]
  /\ queueHead \in 0 .. queueSize - 1 /\ queueTail \in 0 .. queueSize - 1
  /\ queueEmpty \in BOOLEAN /\ shutdown \in BOOLEAN
  /\ numThreadsBusy \in 0..MaxThreads
  /\ threadLimit \in 0..MaxThreads /\ threadCapacity \in 0..MaxThreads
  /\ tpc \in [Threads -> {"none", "test", "sleep", "run", "finish", "exited"}]
  /\ tjob \in [Threads -> Jobs \cup {NoJob}]
  /\ cpc \in {"start", "create", "idle", "add", "addSleep", "tryAdd",
              "joinJobs", "joinSleep", "free", "broadcast", "join", "freed"}
  /\ cjob \in 0..MaxJobs /\ target \in 0..MaxThreads
  /\ resizes \in 0..MaxResizes
  /\ accepted \subseteq Jobs /\ begun \in Seq(Jobs)

(* No wakeup is lost: while a queued job may be begun and a thread sleeps, *)
(* another one is awake to take it; and the client sleeps in POOL_add only *)
(* while the queue is full, in POOL_joinJobs only while there is work.     *)
NobodySleepsOverWork ==
  /\ ~NothingToDo /\ Asleep(tpc) # {} => \E t \in Threads : tpc[t] = "test"
  /\ cpc = "addSleep" => isQueueFull
  /\ cpc = "joinSleep" => WorkOutstanding

(* "a few threads will be shutdown while !queueEmpty, but enough threads   *)
(* will remain active to finish the queue" (POOL_thread): when POOL_free   *)
(* releases the memory no thread is left and every job accepted was run.   *)
FreeLeavesNothing ==
  cpc = "freed" =>
    /\ \A t \in Threads : tpc[t] \in {"none", "exited"}
    /\ accepted = {begun[i] : i \in DOMAIN begun}

(* POOL_joinJobs "Waits for all queued jobs to finish executing" (pool.h): *)
(* when it returns, every job accepted was begun and none is still run.    *)
JoinJobsWaits ==
  [][cpc = "joinJobs" /\ cpc' = "idle" =>
       /\ accepted = {begun[i] : i \in DOMAIN begun}
       /\ \A t \in Threads : tpc[t] # "run"]_vars

(* Every call of a function of the pool returns.                           *)
CallsReturn ==
  (cpc \notin {"start", "idle"}) ~> (cpc \in {"idle", "freed"})

(* The queue as a sequence: the circular buffer from head to tail.         *)
QueueLength ==
  IF queueEmpty THEN 0
  ELSE IF queueTail > queueHead THEN queueTail - queueHead
  ELSE queueTail + queueSize - queueHead
QueueAsSequence ==
  [i \in 1..QueueLength |-> jobQueue[(queueHead + i - 1) % queueSize]]

Promise == INSTANCE JobPool
             WITH queue <- QueueAsSequence, running <- tjob, begun <- begun,
                  open <- ~shutdown, Threads <- Threads, Jobs <- Jobs,
                  NoJob <- NoJob

(* The pool keeps the promise of JobPool: jobs are begun once, in order,   *)
(* and while there are any, threads go on beginning them.                  *)
KeepsPromise == Promise!Spec
=============================================================================
