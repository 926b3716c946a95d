--------------------------- MODULE ThreadPool_proofs ---------------------------
(***************************************************************************)
(* Proofs about the thread pool, for any number of threads, jobs and       *)
(* resizes and any size of the queue: types, the safety properties of      *)
(* ThreadPool, and that its steps are those of JobPool.                    *)
(***************************************************************************)
EXTENDS ThreadPool, FiniteSetTheorems, SequenceTheorems, TLAPS

Places == {"none", "test", "sleep", "run", "finish", "exited"}
At(places) == {t \in Threads : tpc[t] \in places}
Busy == At({"run", "finish"})
Testing == At({"test"})
Live == {"test", "sleep", "run", "finish"}

QueuedJobs == {QueueAsSequence[i] : i \in 1..QueueLength}
BegunJobs == {begun[i] : i \in DOMAIN begun}
Adding == {"add", "addSleep", "tryAdd"}
Leaving == {"broadcast", "join", "freed"}

-----------------------------------------------------------------------------
(* The inductive invariant.                                                *)

(* Threads exist from the first on; those with a job are counted.          *)
LimitInv ==
  /\ \A t \in Threads : /\ tpc[t] = "none" <=> t >= threadCapacity
                        /\ tjob[t] # NoJob <=> tpc[t] \in {"run", "finish"}
  /\ numThreadsBusy = Cardinality(Busy)
  /\ cpc = "create" => target = threadLimit /\ threadCapacity <= target
  /\ cpc # "start" => threadLimit >= 1
  /\ cpc \notin {"start", "create", "free"} \cup Leaving => threadCapacity >= 1
  /\ cpc \in {"start", "create"} => queueEmpty /\ accepted = {}
  /\ cpc = "start" => threadCapacity = 0

(* head and tail meet when the queue is empty, and only then if it has     *)
(* more than one place; an accepted job is queued or was begun.            *)
QueueInv ==
  /\ queueEmpty => queueHead = queueTail
  /\ ~queueEmpty /\ queueSize > 1 => queueHead # queueTail
  /\ QueueAsSequence \in Seq(Jobs)
  /\ accepted = BegunJobs \cup QueuedJobs
  /\ accepted \subseteq 1..cjob
  /\ cpc \in Adding => cjob >= 1 /\ cjob \notin accepted
  /\ cpc = "start" => queueHead = 0 /\ queueTail = 0

(* Threads end only in POOL_free, and never all while a job is queued.     *)
ShutdownInv ==
  /\ shutdown <=> cpc \in Leaving
  /\ At({"exited"}) # {} => shutdown
  /\ ~queueEmpty => At(Live) # {}
  /\ cpc = "freed" => At(Live) = {}

(* While one sleeps, enough are awake: for every queued job, or to reach   *)
(* the limit.                                                              *)
WakeInv ==
  /\ \/ Asleep(tpc) = {}
     \/ QueueLength <= Cardinality(Testing)
     \/ threadLimit <= numThreadsBusy + Cardinality(Testing)
  /\ cpc = "addSleep" => isQueueFull
  /\ cpc = "joinSleep" => WorkOutstanding

PoolInv == TypeOK /\ LimitInv /\ QueueInv /\ ShutdownInv /\ WakeInv

-----------------------------------------------------------------------------
(* Threads at a place, and their number.                                   *)

LEMMA AtFinite ==
  ASSUME NEW places
  PROVE  IsFiniteSet(At(places)) /\ Cardinality(At(places)) \in Nat
<1>1. IsFiniteSet(Threads)
  BY SizesAssumption, FS_Interval DEF Threads
<1>2. At(places) \in SUBSET Threads
  BY DEF At
<1> QED BY <1>1, <1>2, FS_Subset, FS_CardinalityType

LEMMA SomeInside ==
  ASSUME NEW S, Cardinality(S) >= 1
  PROVE  S # {}
BY FS_EmptySet

(* One thread moves to another place.                                      *)
LEMMA MoveOne ==
  ASSUME NEW places, NEW t \in Threads, NEW p,
         tpc = [u \in Threads |-> tpc[u]], tpc' = [tpc EXCEPT ![t] = p]
  PROVE  /\ p \in places => At(places)' = At(places) \cup {t}
         /\ p \notin places => At(places)' = At(places) \ {t}
         /\ p \in places /\ t \notin At(places) =>
              Cardinality(At(places)') = Cardinality(At(places)) + 1
         /\ p \notin places /\ t \in At(places) =>
              Cardinality(At(places)') = Cardinality(At(places)) - 1
         /\ (p \in places <=> t \in At(places)) => At(places)' = At(places)
         /\ Cardinality(At(places)') \in Nat
<1>1. /\ p \in places => At(places)' = At(places) \cup {t}
      /\ p \notin places => At(places)' = At(places) \ {t}
  BY DEF At
<1>2. IsFiniteSet(At(places)) /\ Cardinality(At(places)) \in Nat
  BY AtFinite
<1>3. /\ Cardinality(At(places) \cup {t}) =
           IF t \in At(places) THEN Cardinality(At(places))
           ELSE Cardinality(At(places)) + 1
      /\ Cardinality(At(places) \ {t}) =
           IF t \in At(places) THEN Cardinality(At(places)) - 1
           ELSE Cardinality(At(places))
  BY <1>2, FS_AddElement, FS_RemoveElement
<1>4. (p \in places <=> t \in At(places)) => At(places)' = At(places)
  BY <1>1
<1>5. p \in places /\ t \notin At(places) =>
        Cardinality(At(places)') = Cardinality(At(places)) + 1
  BY <1>1, <1>3
<1>6. p \notin places /\ t \in At(places) =>
        Cardinality(At(places)') = Cardinality(At(places)) - 1
  BY <1>1, <1>3
<1>7. Cardinality(At(places)') \in Nat
  <2>1. /\ IsFiniteSet(At(places) \cup {t}) /\ IsFiniteSet(At(places) \ {t})
    BY <1>2, FS_AddElement, FS_RemoveElement
  <2> QED BY <1>1, <2>1, FS_CardinalityType
<1> QED BY <1>1, <1>4, <1>5, <1>6, <1>7

-----------------------------------------------------------------------------
(* The queue as a sequence.                                                *)

(* Indices into the circular buffer wrap around at most once.              *)
LEMMA Modulo ==
  \A n \in Nat \ {0} : \A k \in 0 .. 2 * n - 1 :
    k % n = IF k < n THEN k ELSE k - n
<1> SUFFICES ASSUME NEW n \in Nat \ {0}, NEW k \in 0 .. 2 * n - 1
             PROVE  k % n = IF k < n THEN k ELSE k - n
  OBVIOUS
<1>1. CASE k < n
  BY <1>1, SMT
<1>2. CASE k >= n
  BY <1>2, Z3
<1> QED BY <1>1, <1>2

LEMMA RingPlace ==
  ASSUME NEW n \in Nat \ {0}, NEW h \in 0 .. n - 1, NEW i \in 1 .. n
  PROVE  /\ (h + i - 1) % n = IF h + i - 1 < n THEN h + i - 1 ELSE h + i - 1 - n
         /\ (h + i - 1) % n \in 0 .. n - 1
<1> DEFINE k == h + i - 1
<1>1. k \in 0 .. 2 * n - 1
  OBVIOUS
<1>2. k % n = IF k < n THEN k ELSE k - n
  BY <1>1, Modulo
<1>3. k % n \in 0 .. n - 1
  BY <1>1, <1>2
<1> QED BY <1>2, <1>3

LEMMA RingNext ==
  ASSUME NEW n \in Nat \ {0}, NEW h \in 0 .. n - 1
  PROVE  (h + 1) % n = IF h + 1 < n THEN h + 1 ELSE 0
<1> DEFINE k == h + 1
<1>1. k \in 0 .. 2 * n - 1
  OBVIOUS
<1>2. k % n = IF k < n THEN k ELSE k - n
  BY <1>1, Modulo
<1> QED BY <1>2

(* Append and Tail place by place.                                         *)
LEMMA AppendedAt ==
  ASSUME NEW S, NEW s \in Seq(S), NEW e \in S
  PROVE  Append(s, e) =
           [i \in 1 .. Len(s) + 1 |-> IF i = Len(s) + 1 THEN e ELSE s[i]]
<1>1. /\ Append(s, e) \in Seq(S) /\ Len(Append(s, e)) = Len(s) + 1
      /\ \A i \in 1 .. Len(s) : Append(s, e)[i] = s[i]
      /\ Append(s, e)[Len(s) + 1] = e
  BY AppendProperties
<1>2. Append(s, e) = [i \in 1 .. Len(s) + 1 |-> Append(s, e)[i]]
  BY <1>1, LenProperties
<1> QED BY <1>1, <1>2, LenProperties

LEMMA RestAt ==
  ASSUME NEW S, NEW s \in Seq(S), s # <<>>
  PROVE  Tail(s) = [i \in 1 .. Len(s) - 1 |-> s[i + 1]]
<1>1. /\ Tail(s) \in Seq(S) /\ Len(Tail(s)) = Len(s) - 1
      /\ \A i \in 1 .. Len(Tail(s)) : Tail(s)[i] = s[i + 1]
  BY HeadTailProperties
<1>2. Tail(s) = [i \in 1 .. Len(s) - 1 |-> Tail(s)[i]]
  BY <1>1, LenProperties
<1> QED BY <1>1, <1>2

LEMMA QueueShape ==
  ASSUME TypeOK, QueueInv
  PROVE  /\ queueSize \in Nat \ {0}
         /\ QueueLength \in 0 .. queueSize
         /\ queueEmpty <=> QueueLength = 0
         /\ QueueAsSequence = <<>> <=> queueEmpty
         /\ Len(QueueAsSequence) = QueueLength
         /\ \A i \in 1..QueueLength : QueueAsSequence[i] \in Jobs
<1>1. queueSize \in Nat \ {0}
  BY QueueSizesAssumption DEF TypeOK
<1>2. QueueLength \in 0 .. queueSize /\ (queueEmpty <=> QueueLength = 0)
  BY <1>1 DEF TypeOK, QueueInv, QueueLength
<1>3. Len(QueueAsSequence) = QueueLength
  BY <1>1, <1>2 DEF QueueAsSequence, QueueInv
<1> QED BY <1>1, <1>2, <1>3 DEF QueueInv, QueueAsSequence

LEMMA AddAppends ==
  ASSUME TypeOK, QueueInv, ~isQueueFull, cjob \in Jobs, POOL_add_internal
  PROVE  /\ QueueLength' = QueueLength + 1
         /\ QueueAsSequence' = Append(QueueAsSequence, cjob)
         /\ queueTail' \in 0 .. queueSize - 1
         /\ queueSize > 1 => queueHead # queueTail'
<1>1. /\ queueSize \in Nat \ {0} /\ queueTail \in 0 .. queueSize - 1
      /\ queueHead \in 0 .. queueSize - 1 /\ queueEmpty \in BOOLEAN
      /\ jobQueue \in [0 .. queueSize - 1 -> Jobs \cup {NoJob}]
      /\ queueEmpty => queueHead = queueTail
      /\ ~queueEmpty /\ queueSize > 1 => queueHead # queueTail
  BY QueueShape DEF TypeOK, QueueInv
<1>2. queueTail' = IF queueTail + 1 < queueSize THEN queueTail + 1 ELSE 0
  <2>1. (queueTail + 1) % queueSize =
          IF queueTail + 1 < queueSize THEN queueTail + 1 ELSE 0
    BY <1>1, RingNext
  <2> QED BY <2>1 DEF POOL_add_internal
<1>3. /\ queueSize > 1 => queueHead # queueTail'
      /\ queueSize = 1 => queueEmpty
  <2>1. queueSize > 1 => queueHead # queueTail'
    BY DEF isQueueFull, POOL_add_internal
  <2>2. queueSize = 1 => queueEmpty
    BY <1>1 DEF isQueueFull
  <2> QED BY <2>1, <2>2
<1>4. /\ queueEmpty' = FALSE /\ queueSize' = queueSize /\ queueHead' = queueHead
      /\ jobQueue' = [jobQueue EXCEPT ![queueTail] = cjob]
  BY DEF POOL_add_internal
<1>5. /\ QueueLength \in 0 .. queueSize - 1
      /\ QueueLength' = QueueLength + 1
  <2>1. CASE queueEmpty
    BY <1>1, <1>2, <1>3, <1>4, <2>1 DEF QueueLength
  <2>2. CASE ~queueEmpty
    BY <1>1, <1>2, <1>3, <1>4, <2>2 DEF QueueLength
  <2> QED BY <2>1, <2>2
<1>6. \A i \in 1 .. QueueLength + 1 :
        /\ (queueHead + i - 1) % queueSize \in 0 .. queueSize - 1
        /\ (queueHead + i - 1) % queueSize = queueTail <=> i = QueueLength + 1
  <2> SUFFICES ASSUME NEW i \in 1 .. QueueLength + 1
               PROVE  /\ (queueHead + i - 1) % queueSize \in 0 .. queueSize - 1
                      /\ (queueHead + i - 1) % queueSize = queueTail
                           <=> i = QueueLength + 1
    OBVIOUS
  <2> DEFINE k == (queueHead + i - 1) % queueSize
  <2>1. i \in 1 .. queueSize
    BY <1>1, <1>5
  <2>2. /\ k = IF queueHead + i - 1 < queueSize THEN queueHead + i - 1
               ELSE queueHead + i - 1 - queueSize
        /\ k \in 0 .. queueSize - 1
    BY <1>1, <2>1, RingPlace
  <2> HIDE DEF k
  <2>3. QueueLength = IF queueEmpty THEN 0
                      ELSE IF queueTail > queueHead THEN queueTail - queueHead
                      ELSE queueTail + queueSize - queueHead
    BY DEF QueueLength
  <2>4. k = queueTail <=> i = QueueLength + 1
    BY <1>1, <1>3, <1>5, <2>1, <2>2, <2>3
  <2> QED BY <2>2, <2>4 DEF k
<1>7. \A i \in 1 .. QueueLength + 1 :
        jobQueue'[(queueHead + i - 1) % queueSize] =
          IF i = QueueLength + 1 THEN cjob
          ELSE jobQueue[(queueHead + i - 1) % queueSize]
  BY <1>1, <1>4, <1>6
<1>8. QueueAsSequence' = [i \in 1 .. QueueLength + 1 |->
                            jobQueue'[(queueHead + i - 1) % queueSize]]
  BY <1>4, <1>5 DEF QueueAsSequence
<1>9. Append(QueueAsSequence, cjob) =
        [i \in 1 .. QueueLength + 1 |->
           IF i = QueueLength + 1 THEN cjob
           ELSE jobQueue[(queueHead + i - 1) % queueSize]]
  <2>1. QueueAsSequence \in Seq(Jobs) /\ Len(QueueAsSequence) = QueueLength
    BY QueueShape DEF QueueInv
  <2>2. \A i \in 1 .. QueueLength :
          QueueAsSequence[i] = jobQueue[(queueHead + i - 1) % queueSize]
    BY DEF QueueAsSequence
  <2>3. Append(QueueAsSequence, cjob) =
          [i \in 1 .. QueueLength + 1 |->
             IF i = QueueLength + 1 THEN cjob ELSE QueueAsSequence[i]]
    BY <2>1, AppendedAt
  <2> QED BY <1>5, <2>2, <2>3
<1>10. QueueAsSequence' = Append(QueueAsSequence, cjob)
  BY <1>7, <1>8, <1>9
<1> QED BY <1>1, <1>2, <1>3, <1>5, <1>10

LEMMA PopTakesHead ==
  ASSUME TypeOK, QueueInv, NEW t \in Threads, PopJob(t)
  PROVE  /\ QueueAsSequence # <<>>
         /\ jobQueue[queueHead] = Head(QueueAsSequence)
         /\ jobQueue[queueHead] \in Jobs
         /\ QueueAsSequence' = Tail(QueueAsSequence)
         /\ QueueLength' = QueueLength - 1
         /\ queueHead' \in 0 .. queueSize - 1
         /\ queueEmpty' <=> QueueLength = 1
         /\ queueEmpty' => queueHead' = queueTail
<1>1. /\ queueSize \in Nat \ {0} /\ queueTail \in 0 .. queueSize - 1
      /\ queueHead \in 0 .. queueSize - 1 /\ ~queueEmpty
      /\ QueueLength \in 1 .. queueSize
      /\ queueSize > 1 => queueHead # queueTail
      /\ QueueAsSequence \in Seq(Jobs) /\ Len(QueueAsSequence) = QueueLength
      /\ QueueAsSequence # <<>>
  BY QueueShape DEF PopJob, NothingToDo, TypeOK, QueueInv
<1>2. queueHead' = IF queueHead + 1 < queueSize THEN queueHead + 1 ELSE 0
  <2>1. (queueHead + 1) % queueSize =
          IF queueHead + 1 < queueSize THEN queueHead + 1 ELSE 0
    BY <1>1, RingNext
  <2> QED BY <2>1 DEF PopJob
<1>3. /\ queueEmpty' <=> queueHead' = queueTail
      /\ queueTail' = queueTail
      /\ queueSize' = queueSize /\ jobQueue' = jobQueue
  BY DEF PopJob, EmptyAfterPop
<1>4. QueueLength = IF queueTail > queueHead THEN queueTail - queueHead
                    ELSE queueTail + queueSize - queueHead
  BY <1>1 DEF QueueLength
<1>5. QueueLength' = IF queueEmpty' THEN 0
                     ELSE IF queueTail > queueHead' THEN queueTail - queueHead'
                     ELSE queueTail + queueSize - queueHead'
  BY <1>3 DEF QueueLength
<1>6. queueEmpty' <=> QueueLength = 1
  BY <1>1, <1>2, <1>3, <1>4
<1>7. QueueLength' = QueueLength - 1
  BY <1>1, <1>2, <1>3, <1>4, <1>5, <1>6
<1>8. /\ jobQueue[queueHead] = QueueAsSequence[1]
      /\ QueueAsSequence[1] \in Jobs
  <2>1. (queueHead + 1 - 1) % queueSize = queueHead
    BY <1>1, RingPlace
  <2>2. QueueAsSequence[1] = jobQueue[(queueHead + 1 - 1) % queueSize]
    BY <1>1 DEF QueueAsSequence
  <2> QED BY <1>1, <2>1, <2>2
<1>9. \A i \in 1 .. QueueLength - 1 :
        (queueHead' + i - 1) % queueSize = (queueHead + (i + 1) - 1) % queueSize
  <2> SUFFICES ASSUME NEW i \in 1 .. QueueLength - 1
               PROVE  (queueHead' + i - 1) % queueSize =
                        (queueHead + (i + 1) - 1) % queueSize
    OBVIOUS
  <2> DEFINE k == (queueHead' + i - 1) % queueSize
             m == (queueHead + (i + 1) - 1) % queueSize
  <2>1. i \in 1 .. queueSize /\ i + 1 \in 1 .. queueSize
    BY <1>1
  <2>2. queueHead' \in 0 .. queueSize - 1
    BY <1>1, <1>2
  <2>3. k = IF queueHead' + i - 1 < queueSize THEN queueHead' + i - 1
            ELSE queueHead' + i - 1 - queueSize
    BY <1>1, <2>1, <2>2, RingPlace
  <2>4. m = IF queueHead + (i + 1) - 1 < queueSize THEN queueHead + (i + 1) - 1
            ELSE queueHead + (i + 1) - 1 - queueSize
    BY <1>1, <2>1, RingPlace
  <2> HIDE DEF k, m
  <2>5. k = m
    BY <1>1, <1>2, <2>1, <2>3, <2>4
  <2> QED BY <2>5 DEF k, m
<1>10. QueueAsSequence' = [i \in 1 .. QueueLength - 1 |->
                             jobQueue[(queueHead' + i - 1) % queueSize]]
  BY <1>3, <1>7 DEF QueueAsSequence
<1>11. \A i \in 1 .. QueueLength - 1 :
         QueueAsSequence[i + 1] = jobQueue[(queueHead + (i + 1) - 1) % queueSize]
  BY <1>1 DEF QueueAsSequence
<1>12. Tail(QueueAsSequence) = [i \in 1 .. QueueLength - 1 |-> QueueAsSequence[i + 1]]
  BY <1>1, RestAt
<1>13. QueueAsSequence' = Tail(QueueAsSequence)
  BY <1>9, <1>10, <1>11, <1>12
<1>14. Head(QueueAsSequence) = QueueAsSequence[1]
  BY <1>1
<1> QED BY <1>1, <1>2, <1>3, <1>6, <1>7, <1>8, <1>13, <1>14

-----------------------------------------------------------------------------
(* The steps preserve the invariant.                                       *)

LEMMA SignalWakesOne ==
  ASSUME tpc \in [Threads -> Places], tpc' \in SignalPop(tpc)
  PROVE  \/ Asleep(tpc) = {} /\ tpc' = tpc
         \/ \E u \in Asleep(tpc) : tpc' = [tpc EXCEPT ![u] = "test"]
BY DEF SignalPop

(* A step moves no thread in or out of its job but PopJob and FinishJob.   *)
LEMMA BusyStep ==
  ASSUME PoolInv, [Next]_vars
  PROVE  /\ numThreadsBusy' = Cardinality(Busy')
         /\ numThreadsBusy' \in 0..MaxThreads
<1>1. /\ tpc \in [Threads -> Places] /\ tpc = [u \in Threads |-> tpc[u]]
      /\ numThreadsBusy = Cardinality(Busy)
  <2>1. tpc \in [Threads -> Places]
    BY DEF PoolInv, TypeOK, Places
  <2> QED BY <2>1 DEF PoolInv, LimitInv
<1>2. ASSUME NEW t \in Threads, NEW p, tpc' = [tpc EXCEPT ![t] = p],
             p \in {"run", "finish"} <=> tpc[t] \in {"run", "finish"}
      PROVE  Busy' = Busy
  <2>1. p \in {"run", "finish"} <=> t \in At({"run", "finish"})
    BY <1>2 DEF At
  <2> QED BY <1>1, <1>2, <2>1, MoveOne DEF Busy
<1>3. ASSUME Client \/ ClientSpuriousWakeup \/ Terminating \/ UNCHANGED vars
      PROVE  Busy' = Busy /\ numThreadsBusy' = numThreadsBusy
  <2>1. CASE CreateThread
    <3>1. threadCapacity \in Threads /\ tpc[threadCapacity] = "none"
      BY <2>1, SizesAssumption
         DEF PoolInv, TypeOK, LimitInv, CreateThread, Threads
    <3>2. Busy' = Busy
      BY <1>2, <2>1, <3>1 DEF CreateThread
    <3> QED BY <2>1, <3>2 DEF CreateThread
  <2>2. CASE Add \/ TryAdd
    <3>1. \/ tpc' = tpc
          \/ \E u \in Asleep(tpc) : tpc' = [tpc EXCEPT ![u] = "test"]
      BY <1>1, <2>2, SignalWakesOne DEF Add, TryAdd, POOL_add_internal
    <3>2. Busy' = Busy
      <4>1. CASE tpc' = tpc
        BY <4>1 DEF Busy, At
      <4>2. ASSUME NEW u \in Asleep(tpc), tpc' = [tpc EXCEPT ![u] = "test"]
            PROVE  Busy' = Busy
        BY <1>2, <4>2 DEF Asleep
      <4> QED BY <3>1, <4>1, <4>2
    <3> QED BY <2>2, <3>2 DEF Add, TryAdd, POOL_add_internal, limitVars
  <2>3. CASE Resize
    <3>1. PICK c \in threadCapacity .. MaxThreads :
            tpc' = BroadcastPop(NewThreads(c))
      BY <2>3, SizesAssumption DEF Resize, PoolInv, TypeOK
    <3>2. \A t \in Threads : tpc'[t] \in {"run", "finish"} <=> tpc[t] \in {"run", "finish"}
      BY <3>1 DEF BroadcastPop, NewThreads, PoolInv, TypeOK, LimitInv, Threads
    <3> QED BY <2>3, <3>2 DEF Resize, Busy, At
  <2>4. CASE Broadcast
    BY <2>4 DEF Broadcast, BroadcastPop, Busy, At, limitVars
  <2>5. CASE \/ Create \/ CreateThreadFails \/ CreateDone \/ Call \/ AddSleeps
             \/ TryAddRefused \/ JoinJobsSleeps \/ JoinJobsDone \/ Shutdown \/ Join
             \/ ClientSpuriousWakeup \/ Terminating \/ UNCHANGED vars
    <3>1. tpc' = tpc /\ numThreadsBusy' = numThreadsBusy
      BY <2>5 DEF Create, CreateThreadFails, CreateDone, Call, AddSleeps,
                  TryAddRefused, JoinJobsSleeps, JoinJobsDone, Shutdown, Join,
                  ClientSpuriousWakeup, Terminating, vars, limitVars, threadVars
    <3> QED BY <3>1 DEF Busy, At
  <2> QED BY <1>3, <2>1, <2>2, <2>3, <2>4, <2>5 DEF Client
<1>4. ASSUME NEW t \in Threads, Thread(t) \/ SpuriousWakeup(t)
      PROVE  numThreadsBusy' = Cardinality(Busy')
  <2>1. CASE ThreadSleeps(t) \/ ThreadExits(t) \/ RunJob(t) \/ SpuriousWakeup(t)
    <3>1. Busy' = Busy
      BY <1>2, <2>1 DEF ThreadSleeps, ThreadExits, RunJob, SpuriousWakeup
    <3> QED BY <1>1, <2>1, <3>1
            DEF ThreadSleeps, ThreadExits, RunJob, SpuriousWakeup, limitVars
  <2>2. CASE PopJob(t)
    <3>1. t \notin Busy /\ tpc' = [tpc EXCEPT ![t] = "run"]
      BY <2>2 DEF PopJob, Busy, At
    <3>2. Cardinality(Busy') = Cardinality(Busy) + 1
      BY <1>1, <3>1, MoveOne DEF Busy
    <3> QED BY <1>1, <2>2, <3>2 DEF PopJob
  <2>3. CASE FinishJob(t)
    <3>1. t \in Busy /\ tpc' = [tpc EXCEPT ![t] = "test"]
      BY <2>3 DEF FinishJob, Busy, At
    <3>2. Cardinality(Busy') = Cardinality(Busy) - 1
      BY <1>1, <3>1, MoveOne DEF Busy
    <3> QED BY <1>1, <2>3, <3>2 DEF FinishJob
  <2> QED BY <1>4, <2>1, <2>2, <2>3 DEF Thread
<1>5. numThreadsBusy' = Cardinality(Busy')
  BY <1>1, <1>3, <1>4 DEF Next
<1>6. Busy' \subseteq Threads
  BY DEF Busy, At
<1>7. IsFiniteSet(Threads) /\ Cardinality(Threads) = MaxThreads
  BY SizesAssumption, FS_Interval DEF Threads
<1>8. Cardinality(Busy') \in 0..MaxThreads
  BY <1>6, <1>7, FS_Subset, FS_CardinalityType, SizesAssumption
<1> QED BY <1>5, <1>8

LEMMA TypeStep ==
  ASSUME PoolInv, [Next]_vars
  PROVE  TypeOK'
<1>0. numThreadsBusy' \in 0..MaxThreads
  BY BusyStep
<1> USE DEF PoolInv, TypeOK, queueVars, limitVars, threadVars, clientVars,
            historyVars
<1>1. CASE Create
  BY <1>0, <1>1, SizesAssumption, QueueSizesAssumption DEF Create, QueueInv
<1>2. CASE CreateThread
  <2>1. threadCapacity' \in 0..MaxThreads
    BY <1>2, SizesAssumption DEF CreateThread
  <2>2. tpc' \in [Threads -> {"none", "test", "sleep", "run", "finish", "exited"}]
    BY <1>2 DEF CreateThread
  <2> QED BY <1>0, <1>2, <2>1, <2>2 DEF CreateThread
<1>3. CASE CreateThreadFails
  BY <1>0, <1>3 DEF CreateThreadFails
<1>4. CASE CreateDone
  BY <1>0, <1>4 DEF CreateDone
<1>5. CASE Call
  BY <1>0, <1>5, MaxJobsAssumption DEF Call
<1>6. CASE Add \/ TryAdd
  <2>1. cjob \in Jobs /\ POOL_add_internal /\ ~isQueueFull
    BY <1>6 DEF Add, TryAdd, Jobs, QueueInv, Adding
  <2>2. queueTail' \in 0 .. queueSize - 1
    BY <2>1, AddAppends
  <2>3. tpc' \in [Threads -> {"none", "test", "sleep", "run", "finish", "exited"}]
    BY <2>1 DEF POOL_add_internal, SignalPop
  <2> QED BY <1>0, <2>1, <2>2, <2>3 DEF POOL_add_internal
<1>7. CASE AddSleeps \/ TryAddRefused \/ JoinJobsSleeps \/ JoinJobsDone
  BY <1>0, <1>7 DEF AddSleeps, TryAddRefused, JoinJobsSleeps, JoinJobsDone
<1>8. CASE Resize
  BY <1>0, <1>8, SizesAssumption, MaxJobsAssumption
     DEF Resize, BroadcastPop, NewThreads
<1>9. CASE Shutdown \/ Broadcast \/ Join
  BY <1>0, <1>9 DEF Shutdown, Broadcast, Join, BroadcastPop
<1>10. CASE ClientSpuriousWakeup
  BY <1>0, <1>10 DEF ClientSpuriousWakeup, SignalPush
<1>11. ASSUME NEW t \in Threads, Thread(t) \/ SpuriousWakeup(t)
       PROVE  TypeOK'
  <2>1. CASE ThreadSleeps(t) \/ ThreadExits(t) \/ RunJob(t) \/ SpuriousWakeup(t)
    BY <1>0, <2>1 DEF ThreadSleeps, ThreadExits, RunJob, SpuriousWakeup
  <2>2. CASE PopJob(t)
    <3>1. /\ jobQueue[queueHead] \in Jobs
          /\ queueHead' \in 0 .. queueSize - 1
      BY <2>2, PopTakesHead
    <3>2. begun' \in Seq(Jobs)
      BY <2>2, <3>1 DEF PopJob
    <3> QED BY <1>0, <2>2, <3>1, <3>2 DEF PopJob, EmptyAfterPop, SignalPush
  <2>3. CASE FinishJob(t)
    BY <1>0, <2>3 DEF FinishJob, SignalPush
  <2> QED BY <1>11, <2>1, <2>2, <2>3 DEF Thread
<1>12. CASE Terminating \/ UNCHANGED vars
  BY <1>0, <1>12 DEF Terminating, vars
<1> QED BY <1>1, <1>2, <1>3, <1>4, <1>5, <1>6, <1>7, <1>8, <1>9, <1>10, <1>11,
           <1>12 DEF Next, Client

(* Threads exist from the first on, and one has a job while it runs it.    *)
LEMMA LimitStep ==
  ASSUME PoolInv, [Next]_vars
  PROVE  LimitInv'
<1>0. /\ numThreadsBusy' = Cardinality(Busy')
      /\ MaxThreads \in Nat
  BY BusyStep, SizesAssumption
<1> USE DEF PoolInv, TypeOK, LimitInv, Threads, Leaving, queueVars, limitVars,
            threadVars, clientVars, historyVars
<1>1. CASE Create
  BY <1>0, <1>1, SizesAssumption DEF Create
<1>2. CASE CreateThread
  <2>1. \A t \in Threads : /\ tpc'[t] = "none" <=> t >= threadCapacity'
                           /\ tjob'[t] # NoJob <=> tpc'[t] \in {"run", "finish"}
    BY <1>0, <1>2 DEF CreateThread
  <2> QED BY <1>0, <1>2, <2>1 DEF CreateThread
<1>3. CASE CreateThreadFails
  BY <1>0, <1>3 DEF CreateThreadFails
<1>4. CASE CreateDone
  BY <1>0, <1>4, SizesAssumption DEF CreateDone
<1>5. CASE Call
  BY <1>0, <1>5 DEF Call
<1>6. CASE Add \/ TryAdd
  <2>1. \/ tpc' = tpc
        \/ \E u \in Asleep(tpc) : tpc' = [tpc EXCEPT ![u] = "test"]
    BY <1>6, SignalWakesOne DEF Add, TryAdd, POOL_add_internal, Places
  <2>2. \A t \in Threads : /\ tpc'[t] = "none" <=> t >= threadCapacity
                           /\ tjob[t] # NoJob <=> tpc'[t] \in {"run", "finish"}
    <3>1. CASE tpc' = tpc
      BY <3>1
    <3>2. ASSUME NEW u \in Asleep(tpc), tpc' = [tpc EXCEPT ![u] = "test"]
          PROVE  \A t \in Threads :
                   /\ tpc'[t] = "none" <=> t >= threadCapacity
                   /\ tjob[t] # NoJob <=> tpc'[t] \in {"run", "finish"}
      BY <3>2 DEF Asleep
    <3> QED BY <2>1, <3>1, <3>2
  <2> QED BY <1>0, <1>6, <2>2 DEF Add, TryAdd, POOL_add_internal
<1>7. CASE AddSleeps \/ TryAddRefused \/ JoinJobsSleeps \/ JoinJobsDone
  BY <1>0, <1>7 DEF AddSleeps, TryAddRefused, JoinJobsSleeps, JoinJobsDone
<1>8. CASE Resize
  <2>1. PICK n \in Sizes : /\ threadLimit' = n
                           /\ \E c \in threadCapacity .. (IF n > threadCapacity
                                                            THEN n ELSE threadCapacity) :
                                /\ threadCapacity' = c
                                /\ tpc' = BroadcastPop(NewThreads(c))
    BY <1>8 DEF Resize
  <2>2. \A t \in Threads : /\ tpc'[t] = "none" <=> t >= threadCapacity'
                           /\ tjob[t] # NoJob <=> tpc'[t] \in {"run", "finish"}
    BY <1>0, <2>1 DEF BroadcastPop, NewThreads
  <2> QED BY <1>0, <1>8, <2>1, <2>2, SizesAssumption DEF Resize
<1>9. CASE Shutdown \/ Join
  BY <1>0, <1>9 DEF Shutdown, Join
<1>10. CASE Broadcast
  <2>1. \A t \in Threads : /\ tpc'[t] = "none" <=> t >= threadCapacity
                           /\ tjob[t] # NoJob <=> tpc'[t] \in {"run", "finish"}
    BY <1>10 DEF Broadcast, BroadcastPop
  <2> QED BY <1>0, <1>10, <2>1 DEF Broadcast
<1>11. CASE ClientSpuriousWakeup
  BY <1>0, <1>11 DEF ClientSpuriousWakeup, SignalPush
<1>12. ASSUME NEW t \in Threads, Thread(t) \/ SpuriousWakeup(t)
       PROVE  LimitInv'
  <2>1. CASE ThreadSleeps(t) \/ ThreadExits(t) \/ RunJob(t) \/ SpuriousWakeup(t)
    <3>1. \A u \in Threads : /\ tpc'[u] = "none" <=> u >= threadCapacity
                             /\ tjob[u] # NoJob <=> tpc'[u] \in {"run", "finish"}
      BY <2>1 DEF ThreadSleeps, ThreadExits, RunJob, SpuriousWakeup
    <3> QED BY <1>0, <2>1, <3>1
            DEF ThreadSleeps, ThreadExits, RunJob, SpuriousWakeup
  <2>2. CASE PopJob(t)
    <3>1. jobQueue[queueHead] # NoJob /\ ~queueEmpty
      BY <2>2, PopTakesHead, NoJobAssumption DEF Jobs, PopJob, NothingToDo
    <3>2. \A u \in Threads : /\ tpc'[u] = "none" <=> u >= threadCapacity
                             /\ tjob'[u] # NoJob <=> tpc'[u] \in {"run", "finish"}
      BY <2>2, <3>1 DEF PopJob
    <3> QED BY <1>0, <2>2, <3>1, <3>2 DEF PopJob, SignalPush
  <2>3. CASE FinishJob(t)
    <3>1. \A u \in Threads : /\ tpc'[u] = "none" <=> u >= threadCapacity
                             /\ tjob'[u] # NoJob <=> tpc'[u] \in {"run", "finish"}
      BY <2>3 DEF FinishJob
    <3> QED BY <1>0, <2>3, <3>1 DEF FinishJob, SignalPush
  <2> QED BY <1>12, <2>1, <2>2, <2>3 DEF Thread
<1>13. CASE Terminating \/ UNCHANGED vars
  BY <1>0, <1>13 DEF Terminating, vars
<1> QED BY <1>1, <1>2, <1>3, <1>4, <1>5, <1>6, <1>7, <1>8, <1>9, <1>10, <1>11,
           <1>12, <1>13 DEF Next, Client

LEMMA QueueKept ==
  ASSUME UNCHANGED queueVars
  PROVE  QueueLength' = QueueLength /\ QueueAsSequence' = QueueAsSequence
BY DEF queueVars, QueueLength, QueueAsSequence

(* What Add puts at the end and PopJob takes from the front.               *)
LEMMA QueueStep ==
  ASSUME PoolInv, [Next]_vars
  PROVE  QueueInv'
<1>1. CASE Create
  <2>1. QueueAsSequence' = <<>> /\ QueueLength' = 0 /\ QueueLength = 0
    BY <1>1 DEF Create, PoolInv, LimitInv, QueueAsSequence, QueueLength
  <2>2. /\ <<>> \in Seq(Jobs)
        /\ QueuedJobs' = {} /\ QueuedJobs = {}
        /\ UNCHANGED <<BegunJobs, accepted>>
    BY <1>1, <2>1 DEF QueuedJobs, BegunJobs, Create, historyVars
  <2> QED BY <1>1, <2>1, <2>2
          DEF Create, PoolInv, QueueInv, TypeOK, LimitInv, Adding
<1>2. CASE Add \/ TryAdd
  <2>1. cjob \in Jobs /\ POOL_add_internal /\ ~isQueueFull
    BY <1>2 DEF Add, TryAdd, Jobs, PoolInv, TypeOK, QueueInv, Adding
  <2>2. /\ QueueLength' = QueueLength + 1
        /\ QueueAsSequence' = Append(QueueAsSequence, cjob)
        /\ queueSize > 1 => queueHead # queueTail'
    BY <2>1, AddAppends DEF PoolInv
  <2>3. /\ QueueAsSequence \in Seq(Jobs)
        /\ QueueLength \in Nat /\ Len(QueueAsSequence) = QueueLength
    BY QueueShape DEF PoolInv, QueueInv, TypeOK
  <2>4. QueueAsSequence' \in Seq(Jobs)
    BY <2>1, <2>2, <2>3
  <2>5. QueuedJobs' = QueuedJobs \cup {cjob}
    <3>1. \A i \in 1..QueueLength : QueueAsSequence'[i] = QueueAsSequence[i]
      BY <2>1, <2>2, <2>3, AppendProperties
    <3>2. QueueAsSequence'[QueueLength + 1] = cjob
      BY <2>1, <2>2, <2>3, AppendProperties
    <3> QED BY <2>2, <2>3, <3>1, <3>2 DEF QueuedJobs
  <2>6. BegunJobs' = BegunJobs
    BY <2>1 DEF BegunJobs, POOL_add_internal
  <2> QED BY <2>1, <2>2, <2>4, <2>5, <2>6
          DEF POOL_add_internal, PoolInv, QueueInv, TypeOK, Adding, Jobs
<1>3. ASSUME NEW t \in Threads, PopJob(t)
      PROVE  QueueInv'
  <2>1. /\ QueueAsSequence # <<>>
        /\ jobQueue[queueHead] = Head(QueueAsSequence)
        /\ QueueAsSequence' = Tail(QueueAsSequence)
        /\ QueueLength' = QueueLength - 1
        /\ queueEmpty' => queueHead' = queueTail
    BY <1>3, PopTakesHead DEF PoolInv
  <2>2. /\ QueueAsSequence \in Seq(Jobs)
        /\ QueueLength \in Nat /\ Len(QueueAsSequence) = QueueLength
    BY QueueShape DEF PoolInv, QueueInv, TypeOK
  <2>3. /\ QueueAsSequence' \in Seq(Jobs)
        /\ \A i \in 1 .. QueueLength' : QueueAsSequence'[i] = QueueAsSequence[i + 1]
        /\ Head(QueueAsSequence) = QueueAsSequence[1]
    BY <2>1, <2>2, HeadTailProperties
  <2>4. QueuedJobs = QueuedJobs' \cup {Head(QueueAsSequence)}
    <3>1. QueueLength \in Nat \ {0}
      BY <2>1, <2>2, EmptySeq
    <3>2. \A i \in 1..QueueLength :
            i = 1 \/ (i - 1 \in 1 .. QueueLength' /\ i = (i - 1) + 1)
      BY <2>1, <3>1
    <3>3. \A i \in 1 .. QueueLength' : i + 1 \in 1..QueueLength
      BY <2>1, <3>1
    <3>4. \A i \in 1..QueueLength :
            i = 1 \/ (i - 1 \in 1 .. QueueLength'
                       /\ QueueAsSequence'[i - 1] = QueueAsSequence[i])
      BY <2>3, <3>2
    <3>5. QueuedJobs \subseteq QueuedJobs' \cup {Head(QueueAsSequence)}
      BY <2>3, <3>4 DEF QueuedJobs
    <3>6. QueuedJobs' \cup {Head(QueueAsSequence)} \subseteq QueuedJobs
      BY <2>3, <3>1, <3>3 DEF QueuedJobs
    <3> QED BY <3>5, <3>6
  <2>5. BegunJobs' = BegunJobs \cup {Head(QueueAsSequence)}
    <3>1. /\ begun \in Seq(Jobs) /\ begun' = Append(begun, Head(QueueAsSequence))
          /\ Head(QueueAsSequence) \in Jobs
      BY <1>3, <2>1, PopTakesHead DEF PopJob, PoolInv, TypeOK
    <3>2. /\ DOMAIN begun' = DOMAIN begun \cup {Len(begun) + 1}
          /\ \A i \in DOMAIN begun : begun'[i] = begun[i]
          /\ begun'[Len(begun) + 1] = Head(QueueAsSequence)
      BY <3>1, AppendProperties, LenProperties
    <3> QED BY <3>2 DEF BegunJobs
  <2>6. accepted' = BegunJobs' \cup QueuedJobs'
    BY <1>3, <2>4, <2>5 DEF PopJob, PoolInv, QueueInv
  <2>7. /\ queueEmpty' <=> queueHead' = queueTail'
        /\ queueHead' = (queueHead + 1) % queueSize
    BY <1>3 DEF PopJob, EmptyAfterPop
  <2>8. /\ accepted' = accepted /\ cjob' = cjob
        /\ cpc' \in Adding => cpc \in Adding \/ cpc = "addSleep"
        /\ cpc' = "start" => cpc = "start"
    BY <1>3 DEF PopJob, SignalPush, Adding
  <2>9. cpc # "start"
    BY <1>3 DEF PopJob, NothingToDo, PoolInv, LimitInv
  <2>10. /\ accepted' \subseteq 1..cjob'
         /\ cpc' \in Adding => cjob' >= 1 /\ cjob' \notin accepted'
    BY <2>8 DEF PoolInv, QueueInv, Adding
  <2> QED BY <2>3, <2>6, <2>7, <2>8, <2>9, <2>10 DEF QueueInv
<1>4. ASSUME UNCHANGED <<queueVars, historyVars>>,
             cjob' \in Nat /\ cjob <= cjob',
             cpc' \in Adding => \/ cpc \in Adding /\ cjob' = cjob
                                \/ cjob' = cjob + 1,
             cpc' # "start" \/ cpc = "start"
      PROVE  QueueInv'
  <2>1. QueueLength' = QueueLength /\ QueueAsSequence' = QueueAsSequence
    BY <1>4, QueueKept
  <2>2. BegunJobs' = BegunJobs /\ QueuedJobs' = QueuedJobs
    BY <1>4, <2>1 DEF BegunJobs, QueuedJobs, historyVars
  <2>3. accepted' \subseteq 1..cjob' /\ (cpc' \in Adding => cjob' \notin accepted')
    BY <1>4 DEF historyVars, PoolInv, QueueInv, TypeOK
  <2> QED BY <1>4, <2>1, <2>2, <2>3
          DEF queueVars, historyVars, PoolInv, QueueInv, TypeOK
<1>5. CASE Call
  BY <1>4, <1>5 DEF Call, Adding, PoolInv, TypeOK
<1>6. CASE CreateThread \/ CreateThreadFails \/ CreateDone \/ AddSleeps
           \/ TryAddRefused \/ JoinJobsSleeps \/ JoinJobsDone
  BY <1>4, <1>6 DEF CreateThread, CreateThreadFails, CreateDone, AddSleeps,
       TryAddRefused, JoinJobsSleeps, JoinJobsDone, Adding, PoolInv, TypeOK,
       clientVars
<1>7. CASE Resize \/ Shutdown \/ Broadcast \/ Join \/ ClientSpuriousWakeup
           \/ Terminating \/ UNCHANGED vars
  BY <1>4, <1>7 DEF Resize, Shutdown, Broadcast, Join, ClientSpuriousWakeup,
       Terminating, SignalPush, Adding, PoolInv, TypeOK, clientVars, vars
<1>8. ASSUME NEW t \in Threads,
             ThreadSleeps(t) \/ ThreadExits(t) \/ RunJob(t) \/ FinishJob(t)
               \/ SpuriousWakeup(t)
      PROVE  QueueInv'
  BY <1>4, <1>8 DEF ThreadSleeps, ThreadExits, RunJob, FinishJob,
       SpuriousWakeup, SignalPush, Adding, PoolInv, TypeOK, clientVars
<1> QED BY <1>1, <1>2, <1>3, <1>5, <1>6, <1>7, <1>8 DEF Next, Client, Thread

(* A thread that ends while a job is queued leaves another that runs one.  *)
LEMMA ShutdownStep ==
  ASSUME PoolInv, [Next]_vars
  PROVE  ShutdownInv'
<1> USE DEF PoolInv, TypeOK, ShutdownInv, Leaving, Live, At, queueVars,
            limitVars, threadVars, clientVars, historyVars
<1>1. CASE Create \/ CreateThreadFails \/ CreateDone \/ Call \/ AddSleeps
           \/ TryAddRefused \/ JoinJobsSleeps \/ JoinJobsDone \/ Shutdown
           \/ ClientSpuriousWakeup \/ Terminating \/ UNCHANGED vars
  BY <1>1 DEF Create, CreateThreadFails, CreateDone, Call, AddSleeps,
       TryAddRefused, JoinJobsSleeps, JoinJobsDone, Shutdown,
       ClientSpuriousWakeup, SignalPush, Terminating, vars
<1>2. CASE CreateThread
  BY <1>2, SizesAssumption DEF CreateThread, LimitInv
<1>3. CASE Add \/ TryAdd
  <2>1. ~shutdown /\ threadCapacity >= 1 /\ MaxThreads \in Nat
    BY <1>3, SizesAssumption DEF Add, TryAdd, LimitInv
  <2>2. 0 \in Threads /\ tpc[0] \notin {"none", "exited"}
    BY <2>1 DEF LimitInv, Threads
  <2>3. \/ tpc' = tpc
        \/ \E u \in Asleep(tpc) : tpc' = [tpc EXCEPT ![u] = "test"]
    BY <1>3, SignalWakesOne DEF Add, TryAdd, POOL_add_internal, Places
  <2>4. /\ tpc'[0] \in Live
        /\ \A t \in Threads : tpc'[t] = "exited" <=> tpc[t] = "exited"
    <3>1. CASE tpc' = tpc
      BY <2>2, <3>1
    <3>2. ASSUME NEW u \in Asleep(tpc), tpc' = [tpc EXCEPT ![u] = "test"]
          PROVE  /\ tpc'[0] \in Live
                 /\ \A t \in Threads : tpc'[t] = "exited" <=> tpc[t] = "exited"
      BY <2>2, <3>2 DEF Asleep
    <3> QED BY <2>3, <3>1, <3>2
  <2> QED BY <1>3, <2>1, <2>2, <2>4 DEF Add, TryAdd, POOL_add_internal
<1>4. CASE Resize
  <2>1. PICK c \in Nat : tpc' = BroadcastPop(NewThreads(c))
    BY <1>4, SizesAssumption DEF Resize
  <2>2. \A t \in Threads : /\ tpc[t] \in Live => tpc'[t] \in Live
                           /\ tpc'[t] = "exited" => tpc[t] = "exited"
    BY <2>1 DEF BroadcastPop, NewThreads
  <2> QED BY <1>4, <2>2 DEF Resize
<1>5. CASE Broadcast
  <2>1. \A t \in Threads : /\ tpc[t] \in Live => tpc'[t] \in Live
                           /\ tpc'[t] = "exited" => tpc[t] = "exited"
    BY <1>5 DEF Broadcast, BroadcastPop
  <2> QED BY <1>5, <2>1 DEF Broadcast
<1>6. CASE Join
  <2>1. \A t \in Threads : tpc[t] \notin Live
    BY <1>6, SizesAssumption DEF Join, LimitInv, Threads
  <2> QED BY <1>6, <2>1 DEF Join
<1>7. ASSUME NEW t \in Threads, Thread(t) \/ SpuriousWakeup(t)
      PROVE  ShutdownInv'
  <2>1. CASE ThreadExits(t)
    <3>1. ~queueEmpty => \E u \in Threads \ {t} : tpc[u] \in {"run", "finish"}
      <4>1. SUFFICES ASSUME ~queueEmpty
                     PROVE  \E u \in Threads \ {t} : tpc[u] \in {"run", "finish"}
        OBVIOUS
      <4>2. cpc # "start" /\ threadLimit >= 1
        BY <2>1 DEF LimitInv, ThreadExits
      <4>3. Cardinality(Busy) >= 1
        BY <2>1, <4>1, <4>2 DEF ThreadExits, NothingToDo, LimitInv
      <4>4. Busy # {}
        BY <4>3, SomeInside
      <4> QED BY <2>1, <4>4 DEF ThreadExits, Busy
    <3>2. ~queueEmpty => \E u \in Threads : tpc'[u] \in Live
      BY <2>1, <3>1 DEF ThreadExits
    <3>3. \A u \in Threads : tpc'[u] \in Live => tpc[u] \in Live
      BY <2>1 DEF ThreadExits
    <3> QED BY <2>1, <3>2, <3>3 DEF ThreadExits
  <2>2. CASE ThreadSleeps(t) \/ PopJob(t) \/ RunJob(t) \/ FinishJob(t)
             \/ SpuriousWakeup(t)
    <3>1. /\ tpc[t] \in Live /\ tpc'[t] \in Live
          /\ \A u \in Threads \ {t} : tpc'[u] = tpc[u]
          /\ cpc' = cpc \/ (cpc' \in {"add", "joinJobs"}
                             /\ cpc \in {"addSleep", "joinSleep"})
          /\ shutdown' = shutdown
      BY <2>2 DEF ThreadSleeps, PopJob, RunJob, FinishJob, SpuriousWakeup,
                  SignalPush
    <3> QED BY <3>1
  <2> QED BY <1>7, <2>1, <2>2 DEF Thread
<1> QED BY <1>1, <1>2, <1>3, <1>4, <1>5, <1>6, <1>7 DEF Next, Client

(* A wakeup for every job queued, and none lost when the limit is raised.  *)
LEMMA WakeStep ==
  ASSUME PoolInv, [Next]_vars
  PROVE  WakeInv'
<1>0. /\ tpc = [u \in Threads |-> tpc[u]]
      /\ Cardinality(Testing) \in Nat
      /\ QueueLength \in Nat /\ numThreadsBusy \in Nat /\ threadLimit \in Nat
      /\ cpc = "addSleep" => isQueueFull
      /\ cpc = "joinSleep" => WorkOutstanding
  BY AtFinite, QueueShape DEF Testing, PoolInv, TypeOK, WakeInv
(* The client's place, and what it waits for.                              *)
<1>1. /\ cpc' = "addSleep" => isQueueFull'
      /\ cpc' = "joinSleep" => WorkOutstanding'
  <2>1. CASE UNCHANGED <<queueVars, limitVars>> /\ cpc' = cpc
    BY <1>0, <2>1 DEF isQueueFull, WorkOutstanding, queueVars, limitVars
  <2>2. CASE cpc' \notin {"addSleep", "joinSleep"}
    BY <2>2
  <2>3. CASE AddSleeps \/ JoinJobsSleeps
    BY <2>3 DEF AddSleeps, JoinJobsSleeps, isQueueFull, WorkOutstanding,
                queueVars, limitVars
  <2>4. CASE Client \/ ClientSpuriousWakeup \/ Terminating \/ UNCHANGED vars
    BY <2>1, <2>2, <2>3, <2>4
       DEF Client, Create, CreateThread, CreateThreadFails, CreateDone, Call,
           Add, TryAdd, POOL_add_internal, TryAddRefused, JoinJobsDone, Resize,
           Shutdown, Broadcast, Join, ClientSpuriousWakeup, SignalPush,
           Terminating, vars, clientVars
  <2>5. ASSUME NEW t \in Threads, Thread(t) \/ SpuriousWakeup(t)
        PROVE  \/ UNCHANGED <<queueVars, limitVars>> /\ cpc' = cpc
               \/ cpc' \notin {"addSleep", "joinSleep"}
    BY <2>5 DEF Thread, ThreadSleeps, ThreadExits, PopJob, RunJob, FinishJob,
                SpuriousWakeup, SignalPush, clientVars
  <2> QED BY <2>1, <2>2, <2>4, <2>5 DEF Next
<1> DEFINE Enough == \/ Asleep(tpc) = {}
                     \/ QueueLength <= Cardinality(Testing)
                     \/ threadLimit <= numThreadsBusy + Cardinality(Testing)
<1>2. Enough
  BY DEF PoolInv, WakeInv
<1>3. ASSUME UNCHANGED <<tpc, queueVars, numThreadsBusy>>,
             threadLimit' = threadLimit \/ Asleep(tpc') = {}
      PROVE  Enough'
  <2>1. QueueLength' = QueueLength /\ Testing' = Testing /\ Asleep(tpc)' = Asleep(tpc)
    BY <1>3, QueueKept DEF Testing, At, Asleep
  <2> QED BY <1>2, <1>3, <2>1
<1>4. ASSUME NEW t \in Threads, NEW p, tpc' = [tpc EXCEPT ![t] = p],
             p # "sleep", p = "test" <=> tpc[t] # "test"
      PROVE  /\ Cardinality(Testing') =
                  IF p = "test" THEN Cardinality(Testing) + 1
                  ELSE Cardinality(Testing) - 1
             /\ Asleep(tpc') \subseteq Asleep(tpc)
  <2>1. t \in At({"test"}) <=> p # "test"
    BY <1>4 DEF At
  <2>2. Asleep(tpc') \subseteq Asleep(tpc)
    BY <1>0, <1>4 DEF Asleep
  <2> QED BY <1>0, <1>4, <2>1, <2>2, MoveOne DEF Testing
<1>5. CASE Create
  <2>1. Asleep(tpc') = {}
    BY <1>5, SizesAssumption DEF Create, PoolInv, LimitInv, TypeOK, Asleep, Threads, threadVars
  <2> QED BY <1>1, <2>1 DEF WakeInv
<1>6. CASE CreateThread
  <2>1. threadCapacity \in Threads /\ tpc[threadCapacity] = "none"
    BY <1>6, SizesAssumption
       DEF PoolInv, TypeOK, LimitInv, CreateThread, Threads
  <2>2. QueueLength' = QueueLength
    BY <1>6, QueueKept DEF CreateThread
  <2>3. /\ Cardinality(Testing') = Cardinality(Testing) + 1
        /\ Asleep(tpc') \subseteq Asleep(tpc)
    BY <1>4, <1>6, <2>1 DEF CreateThread
  <2>4. Enough'
    BY <1>0, <1>2, <1>6, <2>2, <2>3 DEF CreateThread
  <2> QED BY <1>1, <2>4 DEF WakeInv
<1>7. CASE Add \/ TryAdd
  <2>1. cjob \in Jobs /\ POOL_add_internal /\ ~isQueueFull
    BY <1>7 DEF Add, TryAdd, Jobs, PoolInv, TypeOK, QueueInv, Adding
  <2>2. QueueLength' = QueueLength + 1
    BY <2>1, AddAppends DEF PoolInv
  <2>3. UNCHANGED <<numThreadsBusy, threadLimit>>
    BY <2>1 DEF POOL_add_internal, limitVars
  <2>4. CASE Asleep(tpc) = {} /\ tpc' = tpc
    BY <1>1, <2>4 DEF WakeInv
  <2>5. ASSUME NEW u \in Asleep(tpc), tpc' = [tpc EXCEPT ![u] = "test"]
        PROVE  Enough'
    <3>1. /\ Cardinality(Testing') = Cardinality(Testing) + 1
          /\ Asleep(tpc') \subseteq Asleep(tpc)
      BY <1>4, <2>5 DEF Asleep
    <3> QED BY <1>0, <1>2, <2>2, <2>3, <3>1
  <2>6. \/ Asleep(tpc) = {} /\ tpc' = tpc
        \/ \E u \in Asleep(tpc) : tpc' = [tpc EXCEPT ![u] = "test"]
    BY <2>1, SignalWakesOne DEF POOL_add_internal, Places, PoolInv, TypeOK
  <2> QED BY <1>1, <2>4, <2>5, <2>6 DEF WakeInv
<1>8. CASE Resize \/ Broadcast
  <2>1. Asleep(tpc') = {}
    BY <1>8 DEF Resize, Broadcast, BroadcastPop, Asleep, NewThreads
  <2> QED BY <1>1, <2>1 DEF WakeInv
<1>9. CASE CreateThreadFails \/ CreateDone \/ Call \/ AddSleeps \/ TryAddRefused
           \/ JoinJobsSleeps \/ JoinJobsDone \/ Shutdown \/ Join
           \/ ClientSpuriousWakeup \/ Terminating \/ UNCHANGED vars
  <2>1. Enough'
    BY <1>3, <1>9
       DEF CreateThreadFails, CreateDone, Call, AddSleeps, TryAddRefused,
           JoinJobsSleeps, JoinJobsDone, Shutdown, Join, ClientSpuriousWakeup,
           Terminating, vars, limitVars, threadVars
  <2> QED BY <1>1, <2>1 DEF WakeInv
<1>10. ASSUME NEW t \in Threads, Thread(t) \/ SpuriousWakeup(t)
       PROVE  Enough'
  <2>1. CASE ThreadSleeps(t)
    <3>1. QueueLength' = QueueLength /\ UNCHANGED <<threadLimit, numThreadsBusy>>
      BY <2>1, QueueKept DEF ThreadSleeps, limitVars
    <3>2. QueueLength = 0 \/ numThreadsBusy >= threadLimit
      BY <2>1, QueueShape DEF ThreadSleeps, NothingToDo, PoolInv
    <3>3. Cardinality(Testing') \in Nat
      BY <2>1, <1>0, MoveOne DEF Testing, ThreadSleeps
    <3> QED BY <1>0, <3>1, <3>2, <3>3
  <2>2. CASE ThreadExits(t)
    <3>1. QueueLength' = QueueLength /\ UNCHANGED <<threadLimit, numThreadsBusy>>
      BY <2>2, QueueKept DEF ThreadExits, limitVars
    <3>2. QueueLength = 0 \/ numThreadsBusy >= threadLimit
      BY <2>2, QueueShape DEF ThreadExits, NothingToDo, PoolInv
    <3>3. Cardinality(Testing') \in Nat
      BY <2>2, <1>0, MoveOne DEF Testing, ThreadExits
    <3> QED BY <1>0, <3>1, <3>2, <3>3
  <2>3. CASE PopJob(t)
    <3>1. QueueLength' = QueueLength - 1
      BY <2>3, PopTakesHead DEF PoolInv
    <3>2. /\ Cardinality(Testing') = Cardinality(Testing) - 1
          /\ Asleep(tpc') \subseteq Asleep(tpc)
      <4>1. tpc[t] = "test" /\ tpc' = [tpc EXCEPT ![t] = "run"]
        BY <2>3 DEF PopJob
      <4>2. t \in At({"test"}) /\ "run" \notin {"test"}
        BY <4>1 DEF At
      <4>3. Cardinality(Testing') = Cardinality(Testing) - 1
        BY <1>0, <4>1, <4>2, MoveOne DEF Testing
      <4>4. Asleep(tpc') \subseteq Asleep(tpc)
        BY <1>0, <4>1 DEF Asleep
      <4> QED BY <4>3, <4>4
    <3>3. threadLimit' = threadLimit /\ numThreadsBusy' = numThreadsBusy + 1
      BY <2>3 DEF PopJob
    <3>4. CASE Asleep(tpc) = {}
      BY <3>2, <3>4
    <3>5. CASE QueueLength <= Cardinality(Testing)
      BY <1>0, <3>1, <3>2, <3>5
    <3>6. CASE threadLimit <= numThreadsBusy + Cardinality(Testing)
      <4>1. threadLimit' <= numThreadsBusy' + Cardinality(Testing')
        BY <1>0, <3>2, <3>3, <3>6
      <4> QED BY <4>1
    <3> QED BY <1>2, <3>4, <3>5, <3>6
  <2>4. CASE RunJob(t)
    <3>1. Testing' = Testing /\ Asleep(tpc') = Asleep(tpc)
      BY <1>0, <2>4 DEF RunJob, Testing, At, Asleep
    <3>2. QueueLength' = QueueLength
      BY <2>4, QueueKept DEF RunJob
    <3> QED BY <1>0, <1>2, <2>4, <3>1, <3>2 DEF RunJob, limitVars
  <2>5. CASE FinishJob(t)
    <3>1. /\ Cardinality(Testing') = Cardinality(Testing) + 1
          /\ Asleep(tpc') \subseteq Asleep(tpc)
      BY <1>4, <2>5 DEF FinishJob
    <3>2. QueueLength' = QueueLength
      BY <2>5, QueueKept DEF FinishJob
    <3> QED BY <1>0, <1>2, <2>5, <3>1, <3>2 DEF FinishJob
  <2>6. CASE SpuriousWakeup(t)
    <3>1. /\ Cardinality(Testing') = Cardinality(Testing) + 1
          /\ Asleep(tpc') \subseteq Asleep(tpc)
      BY <1>4, <2>6 DEF SpuriousWakeup
    <3>2. QueueLength' = QueueLength
      BY <2>6, QueueKept DEF SpuriousWakeup
    <3>3. UNCHANGED <<threadLimit, numThreadsBusy>>
      BY <2>6 DEF SpuriousWakeup, limitVars
    <3>4. CASE Asleep(tpc) = {}
      BY <3>1, <3>4
    <3>5. CASE QueueLength <= Cardinality(Testing)
      BY <1>0, <3>1, <3>2, <3>5
    <3>6. CASE threadLimit <= numThreadsBusy + Cardinality(Testing)
      <4>1. threadLimit' <= numThreadsBusy' + Cardinality(Testing')
        BY <1>0, <3>1, <3>3, <3>6
      <4> QED BY <4>1
    <3> QED BY <1>2, <3>4, <3>5, <3>6
  <2> QED BY <1>10, <2>1, <2>2, <2>3, <2>4, <2>5, <2>6 DEF Thread
<1>11. ASSUME NEW t \in Threads, Thread(t) \/ SpuriousWakeup(t)
       PROVE  WakeInv'
  BY <1>1, <1>10, <1>11 DEF WakeInv
<1> QED BY <1>5, <1>6, <1>7, <1>8, <1>9, <1>11 DEF Next, Client

-----------------------------------------------------------------------------
(* The theorems.                                                           *)

LEMMA InvInit == Init => PoolInv
<1> SUFFICES ASSUME Init PROVE PoolInv
  OBVIOUS
<1>1. TypeOK
  <2>1. queueSize \in {q + 1 : q \in QueueSizes \cup {0}}
    <3>1. 0 \in QueueSizes \cup {0} /\ queueSize = 0 + 1
      BY DEF Init
    <3> QED BY <3>1
  <2>2. begun \in Seq(Jobs)
    BY DEF Init
  <2>3. jobQueue \in [0 .. queueSize - 1 -> Jobs \cup {NoJob}]
    BY DEF Init
  <2>4. /\ tpc \in [Threads -> {"none", "test", "sleep", "run", "finish", "exited"}]
        /\ tjob \in [Threads -> Jobs \cup {NoJob}]
    BY DEF Init
  <2>5. /\ numThreadsBusy \in 0..MaxThreads /\ threadLimit \in 0..MaxThreads
        /\ threadCapacity \in 0..MaxThreads /\ target \in 0..MaxThreads
        /\ cjob \in 0..MaxJobs /\ resizes \in 0..MaxResizes
        /\ queueHead \in 0 .. queueSize - 1 /\ queueTail \in 0 .. queueSize - 1
    BY SizesAssumption, MaxJobsAssumption DEF Init
  <2> QED BY <2>1, <2>2, <2>3, <2>4, <2>5 DEF Init, TypeOK
<1>2. Busy = {} /\ Asleep(tpc) = {} /\ At({"exited"}) = {} /\ Cardinality({}) = 0
  BY FS_EmptySet DEF Init, Busy, Asleep, At
<1>3. LimitInv
  BY <1>2, SizesAssumption DEF Init, LimitInv, Threads, Leaving
<1>4. /\ QueueLength = 0 /\ QueueAsSequence = <<>>
      /\ QueuedJobs = {} /\ BegunJobs = {}
  BY DEF Init, QueueLength, QueueAsSequence, QueuedJobs, BegunJobs
<1>5. QueueInv
  BY <1>4 DEF Init, QueueInv, Adding
<1>6. ShutdownInv /\ WakeInv
  BY <1>2 DEF Init, ShutdownInv, WakeInv, Leaving
<1> QED BY <1>1, <1>3, <1>5, <1>6 DEF PoolInv

LEMMA InvStep == PoolInv /\ [Next]_vars => PoolInv'
BY TypeStep, LimitStep, QueueStep, ShutdownStep, WakeStep DEF PoolInv

LEMMA InvHolds == Spec => []PoolInv
BY InvInit, InvStep, PTL DEF Spec

(* Every variable of the pool keeps its type; indices stay in the queue    *)
(* and the counts of threads within what was asked for.                    *)
THEOREM TypeCorrect == Spec => []TypeOK
<1>1. PoolInv => TypeOK
  BY DEF PoolInv
<1> QED BY <1>1, InvHolds, PTL

(* No wakeup is lost: a job that may be begun finds a thread awake, and    *)
(* the client sleeps only for a reason.                                    *)
THEOREM NoWakeupLost == Spec => []NobodySleepsOverWork
<1>1. PoolInv => NobodySleepsOverWork
  <2> SUFFICES ASSUME PoolInv PROVE NobodySleepsOverWork
    OBVIOUS
  <2>1. ASSUME ~NothingToDo, Asleep(tpc) # {}
        PROVE  \E t \in Threads : tpc[t] = "test"
    <3>1. /\ QueueLength \in Nat \ {0} /\ Cardinality(Testing) \in Nat
          /\ numThreadsBusy \in Nat /\ threadLimit \in Nat
          /\ numThreadsBusy < threadLimit
      BY <2>1, QueueShape, AtFinite DEF NothingToDo, PoolInv, TypeOK, Testing
    <3>2. Cardinality(Testing) >= 1
      BY <2>1, <3>1 DEF PoolInv, WakeInv
    <3>3. Testing # {}
      BY <3>2, SomeInside
    <3> QED BY <3>3 DEF Testing, At
  <2> QED BY <2>1 DEF NobodySleepsOverWork, PoolInv, WakeInv
<1> QED BY <1>1, InvHolds, PTL

(* POOL_free returns only when all threads have ended and every job        *)
(* accepted was begun, although threads end while jobs are queued.         *)
THEOREM FreeIsComplete == Spec => []FreeLeavesNothing
<1>1. PoolInv => FreeLeavesNothing
  <2> SUFFICES ASSUME PoolInv, cpc = "freed" PROVE FreeLeavesNothing
    BY DEF FreeLeavesNothing
  <2>1. \A t \in Threads : tpc[t] \in {"none", "exited"}
    BY DEF PoolInv, ShutdownInv, At, Live, TypeOK
  <2>2. queueEmpty
    BY DEF PoolInv, ShutdownInv, TypeOK
  <2>3. QueuedJobs = {}
    BY <2>2 DEF QueuedJobs, QueueLength
  <2> QED BY <2>1, <2>3 DEF FreeLeavesNothing, PoolInv, QueueInv, BegunJobs
<1> QED BY <1>1, InvHolds, PTL

(* POOL_joinJobs returns only when every job accepted was begun and none   *)
(* is being run.                                                           *)
THEOREM JoinJobsIsComplete == Spec => JoinJobsWaits
<1>1. PoolInv /\ [Next]_vars =>
        [cpc = "joinJobs" /\ cpc' = "idle" =>
           /\ accepted = {begun[i] : i \in DOMAIN begun}
           /\ \A t \in Threads : tpc[t] # "run"]_vars
  <2> SUFFICES ASSUME PoolInv, Next, cpc = "joinJobs", cpc' = "idle"
               PROVE  /\ accepted = {begun[i] : i \in DOMAIN begun}
                      /\ \A t \in Threads : tpc[t] # "run"
    OBVIOUS
  <2>1. JoinJobsDone
    BY DEF Next, Client, Create, CreateThread, CreateThreadFails, CreateDone,
           Call, Add, AddSleeps, TryAdd, TryAddRefused, JoinJobsSleeps, Resize,
           Shutdown, Broadcast, Join, ClientSpuriousWakeup, Terminating, vars,
           Thread, ThreadSleeps, ThreadExits, PopJob, RunJob, FinishJob,
           SpuriousWakeup, SignalPush, clientVars
  <2>2. queueEmpty /\ Cardinality(Busy) = 0
    BY <2>1 DEF JoinJobsDone, WorkOutstanding, PoolInv, TypeOK, LimitInv
  <2>3. QueuedJobs = {}
    BY <2>2 DEF QueuedJobs, QueueLength
  <2>4. Busy = {}
    BY <2>2, AtFinite, FS_EmptySet DEF Busy
  <2> QED BY <2>3, <2>4 DEF Busy, At, PoolInv, QueueInv, BegunJobs
<1> QED BY <1>1, InvHolds, PTL DEF Spec, JoinJobsWaits

(* Every step of the pool is one of JobPool or changes nothing there: jobs *)
(* are begun once and in the order in which they were accepted, and none   *)
(* is accepted after POOL_free began.                                      *)
THEOREM RefinesJobPool == Spec => Promise!Init /\ [][Promise!Next]_Promise!poolVars
<1>1. Init => Promise!Init
  BY DEF Init, Promise!Init, QueueAsSequence, QueueLength
<1>2. PoolInv /\ [Next]_vars => [Promise!Next]_Promise!poolVars
  <2> SUFFICES ASSUME PoolInv, [Next]_vars
               PROVE  Promise!Next \/ UNCHANGED Promise!poolVars
    OBVIOUS
  <2>1. CASE Add \/ TryAdd
    <3>1. cjob \in Jobs /\ POOL_add_internal /\ ~isQueueFull /\ cpc \in Adding
      BY <2>1 DEF Add, TryAdd, Jobs, PoolInv, TypeOK, QueueInv, Adding
    <3>2. QueueAsSequence' = Append(QueueAsSequence, cjob)
      BY <3>1, AddAppends DEF PoolInv
    <3>3. DOMAIN QueueAsSequence = 1..QueueLength
      BY DEF QueueAsSequence
    <3>4. cjob \notin Promise!Queued \cup Promise!Begun
      BY <3>1, <3>3 DEF Promise!Queued, Promise!Begun, PoolInv, QueueInv,
                        QueuedJobs, BegunJobs
    <3>5. ~shutdown /\ UNCHANGED <<tjob, begun, shutdown>>
      BY <3>1 DEF POOL_add_internal, limitVars, PoolInv, ShutdownInv, Adding, Leaving
    <3>6. Promise!Accept(cjob)
      BY <3>2, <3>4, <3>5 DEF Promise!Accept
    <3> QED BY <3>1, <3>6 DEF Promise!Next
  <2>2. ASSUME NEW t \in Threads, PopJob(t)
        PROVE  Promise!Next
    <3>1. /\ QueueAsSequence # <<>>
          /\ jobQueue[queueHead] = Head(QueueAsSequence)
          /\ QueueAsSequence' = Tail(QueueAsSequence)
      BY <2>2, PopTakesHead DEF PoolInv
    <3>2. tjob[t] = NoJob
      BY <2>2 DEF PopJob, PoolInv, LimitInv
    <3>3. Promise!BeginJob(t)
      BY <2>2, <3>1, <3>2 DEF Promise!BeginJob, PopJob
    <3> QED BY <3>3 DEF Promise!Next
  <2>3. ASSUME NEW t \in Threads, FinishJob(t)
        PROVE  Promise!Next
    <3>1. tjob[t] # NoJob
      BY <2>3 DEF FinishJob, PoolInv, LimitInv
    <3>2. QueueAsSequence' = QueueAsSequence
      BY <2>3, QueueKept DEF FinishJob
    <3>3. Promise!EndJob(t)
      BY <2>3, <3>1, <3>2 DEF Promise!EndJob, FinishJob, historyVars
    <3> QED BY <3>3 DEF Promise!Next
  <2>4. CASE Shutdown
    <3>1. ~shutdown /\ shutdown' = TRUE /\ UNCHANGED <<tjob, begun, queueVars>>
      BY <2>4 DEF Shutdown, threadVars, historyVars, PoolInv, ShutdownInv, Leaving
    <3>2. QueueAsSequence' = QueueAsSequence
      BY <3>1, QueueKept
    <3> QED BY <3>1, <3>2 DEF Promise!Next, Promise!Close
  <2>5. ASSUME UNCHANGED <<QueueAsSequence, tjob, begun, shutdown>>
        PROVE  UNCHANGED Promise!poolVars
    BY <2>5 DEF Promise!poolVars
  <2>6. CASE Create
    <3>1. QueueAsSequence' = QueueAsSequence
      BY <2>6 DEF Create, PoolInv, LimitInv, QueueAsSequence, QueueLength
    <3> QED BY <2>5, <2>6, <3>1 DEF Create, threadVars, historyVars
  <2>7. ASSUME UNCHANGED <<queueVars, tjob, begun, shutdown>>
        PROVE  UNCHANGED Promise!poolVars
    BY <2>5, <2>7, QueueKept
  <2>8. CASE CreateThread \/ CreateThreadFails \/ CreateDone \/ Call \/ AddSleeps
             \/ TryAddRefused \/ JoinJobsSleeps \/ JoinJobsDone \/ Resize
             \/ Broadcast \/ Join \/ ClientSpuriousWakeup \/ Terminating
             \/ UNCHANGED vars
    BY <2>7, <2>8
       DEF CreateThread, CreateThreadFails, CreateDone, Call, AddSleeps,
           TryAddRefused, JoinJobsSleeps, JoinJobsDone, Resize, Broadcast, Join,
           ClientSpuriousWakeup, Terminating, vars, limitVars, threadVars,
           historyVars
  <2>9. ASSUME NEW t \in Threads,
               ThreadSleeps(t) \/ ThreadExits(t) \/ RunJob(t) \/ SpuriousWakeup(t)
        PROVE  UNCHANGED Promise!poolVars
    BY <2>7, <2>9 DEF ThreadSleeps, ThreadExits, RunJob, SpuriousWakeup,
                      limitVars, historyVars
  <2> QED BY <2>1, <2>2, <2>3, <2>4, <2>6, <2>8, <2>9 DEF Next, Client, Thread
<1> QED BY <1>1, <1>2, InvHolds, PTL DEF Spec
=============================================================================
