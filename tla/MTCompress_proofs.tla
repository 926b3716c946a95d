---------------------------- MODULE MTCompress_proofs ----------------------------
(***************************************************************************)
(* Proofs about the multithreaded compression, for any number of workers   *)
(* and jobs, any input and any sizes of sections, overlaps and chunks.     *)
(***************************************************************************)
EXTENDS MTCompress, FiniteSetTheorems, SequenceTheorems, TLAPS

(***************************************************************************)
(* The inductive invariant.                                                *)
(***************************************************************************)

(* Jobs 0 .. Prepared - 1 have been described in the table; those not yet  *)
(* flushed are live.                                                       *)
Prepared == nextJobID + (IF jobReady THEN 1 ELSE 0)
Live == doneJobID .. Prepared - 1
JobAt(k) == jobs[Slot(k)]
TableSlots == 0 .. TableSize - 1
Working(w) == wpc[w] \notin {"idle", "end"}
Ended == mpc \in {"free", "join", "returned"}
Stopping == mpc = "waitAll" \/ Ended

(* Types.                                                                  *)
Pieces == [start : Nat, size : Nat]
Within(r) == r \in Pieces /\ Ends(r) <= Capacity
Blocks ==
  [first : BOOLEAN, last : BOOLEAN, prefix : Seq(Nat), src : Seq(Nat),
   ldm : Seq(Seq(Nat))]
Descriptions ==
  [src : Pieces, prefix : Pieces, id : Nat, last : BOOLEAN, consumed : Nat,
   blocks : Seq(Blocks), flushed : Nat, error : BOOLEAN, dst : BOOLEAN]
Sized(job) ==
  /\ Within(job.src) /\ Within(job.prefix)
  /\ job.src.size <= Section /\ job.consumed <= job.src.size
  /\ Len(job.blocks) <= job.consumed /\ job.flushed <= Section

MainTypes ==
  /\ call \in Calls
  /\ mpc \in {"start", "scan", "range", "load", "create", "flush", "waitAll",
              "free", "join", "returned"}
  /\ failed \in BOOLEAN /\ forward \in BOOLEAN
  /\ srcOffset \in 0..Total /\ inPos \in 0..CallerChunk
  /\ outcome \in {"running", "ok", "error"} /\ failures \in 0..MaxFailures
BufferTypes ==
  /\ Within(inUse) /\ Within(prefix)
  /\ inBuff \in [start : -1..Capacity, filled : 0..Section]
  /\ roundBuff \in [Cells -> 0..Total] /\ roundPos \in 0..Capacity
FrameTypes ==
  /\ doneJobID \in Nat /\ nextJobID \in Nat
  /\ jobReady \in BOOLEAN /\ frameEnded \in BOOLEAN
  /\ doneJobID <= nextJobID /\ Prepared <= JobCount
  /\ Prepared - doneJobID <= TableSize
JobTypes ==
  /\ jobs \in [TableSlots -> Descriptions]
  /\ \A s \in TableSlots : Sized(jobs[s])
WindowTypes ==
  \A window \in {ldmState, ldmWindow} :
    /\ window \in [ext : Pieces, pre : Pieces]
    /\ Within(window.ext) /\ Within(window.pre)
WorkerTypes ==
  /\ wpc \in [Workers -> {"idle", "resources", "serial", "compress", "ensure",
                          "release", "report", "end"}]
  /\ wctx \in [Workers -> BOOLEAN]
  /\ wseq \in [Workers -> Seq(Seq(Nat))] /\ wlast \in [Workers -> Seq(Blocks)]
PoolTypes ==
  /\ queue \in Seq(Nat) /\ begun \in Seq(Nat)
  /\ running \in [Workers -> Nat \cup {NoJob}]
Types ==
  MainTypes /\ BufferTypes /\ FrameTypes /\ JobTypes /\ WindowTypes /\ WorkerTypes
  /\ PoolTypes

(* Where the input is: the jobs prepared, what is in the input buffer and  *)
(* what main has taken are the same units.                                 *)
Taken ==
  /\ srcOffset < Total /\ inPos <= ThisChunk
  /\ frameEnded =>
       srcOffset + inPos = Total /\ Prepared = JobCount /\ inBuff = NoInBuff
  /\ ~frameEnded =>
       /\ srcOffset + inPos = Prepared * Section + inBuff.filled
       /\ EndFrame => inBuff.filled > 0

(* Where main is in the round buffer.                                      *)
Reserved == inBuff # NoInBuff
Rounding ==
  /\ jobReady => ~Reserved
  /\ Reserved => inBuff.start = roundPos /\ roundPos + Section <= Capacity
  /\ ~frameEnded =>
       /\ prefix.size = IF Prepared = 0 THEN 0 ELSE Overlap
       /\ prefix.size > 0 => Ends(prefix) = roundPos
       /\ (Prepared + 1) * Section <= Capacity => roundPos = Prepared * Section

(* What main's place in the loop tells.                                    *)
Places ==
  /\ mpc = "start" => nextJobID = 0
  /\ mpc = "range" => ~jobReady /\ InputLeft /\ ~Reserved
  /\ mpc = "load" => ~jobReady /\ InputLeft /\ Reserved
  /\ mpc = "create" /\ LastChunk /\ inBuff.filled > 0 => ~InputLeft \/ inBuff.filled = Section

(* What the description of a live job says of it.                          *)
Described(k) ==
  LET job == JobAt(k)
  IN  /\ job.id = k /\ job.src.size > 0
      /\ job.last <=> (frameEnded /\ k = Prepared - 1)
      /\ ~job.last => job.src.size = Section
      /\ job.prefix.size = IF k = 0 THEN 0 ELSE Overlap
      /\ job.prefix.size > 0 => Ends(job.prefix) = job.src.start
      /\ (k + 1) * Section <= Capacity => job.src.start = k * Section
LiveDescribed == \A k \in Live : Described(k)

(* How far a live job has come.                                            *)
Waiting(k) == k = nextJobID \/ k \in Pool!Queued
Advanced(k) ==
  LET job == JobAt(k)
  IN  /\ job.flushed <= Len(job.blocks)
      /\ job.blocks # <<>> => job.dst
      /\ Completed(job) /\ ~job.error => job.blocks # <<>>
      /\ Waiting(k) => ~Completed(job) /\ ~job.error
LiveAdvanced == \A k \in Live : Advanced(k)

(* The unfinished jobs lie behind main in the round buffer or ahead of it, *)
(* in their order, each a section or more after the one before.            *)
Frontier == IF Reserved THEN roundPos + Section ELSE roundPos
Low(job) == IF job.prefix.size = 0 THEN job.src.start ELSE job.prefix.start
Behind(k) == Ends(JobAt(k).src) <= roundPos
Ahead(k) == Frontier <= Low(JobAt(k))
Unfinished == {k \in Live : ~Completed(JobAt(k))}
Lap(k) == IF Behind(k) THEN 0 ELSE Capacity
Sides == \A k \in Unfinished : Behind(k) \/ Ahead(k)
Distances ==
  \A k \in Unfinished :
    (Prepared - k) * Section + JobAt(k).src.start <= roundPos + Lap(k)
Ordered ==
  \A i, k \in Unfinished :
    i < k => /\ Behind(i) => Behind(k)
             /\ (Behind(i) <=> Behind(k)) => Low(JobAt(i)) <= Low(JobAt(k))
Geometry == Sides /\ Ordered /\ (~frameEnded => Distances)

(* What main knows when it asks for a piece of the round buffer.           *)
Scanned ==
  \/ Unfinished = {}
  \/ inUse.size = 0 /\ (Prepared + 1) * Section <= Capacity
  \/ /\ inUse.size > 0 /\ inUse.start + Section <= Capacity
     /\ \A k \in Unfinished :
          /\ inUse.start <= Low(JobAt(k)) \/ (Behind(k) /\ roundPos <= inUse.start)
          /\ ~Behind(k) => roundPos <= inUse.start

(* The jobs that may have an output buffer.                                *)
Claims == Prepared - doneJobID + (IF Reserved THEN 1 ELSE 0)
Bounded ==
  \/ Claims <= NbWorkers + 3
  \/ /\ mpc \in {"load", "create", "flush"}
     /\ Claims = NbWorkers + 4 /\ Completed(Oldest)
HeldFrom(from) ==
  /\ Prepared - from <= TableSize /\ Prepared - from <= MaxBuffers
  /\ \A s \in TableSlots : jobs[s].dst => \E k \in from .. Prepared - 1 : s = Slot(k)

(* Workers and the pool.                                                   *)
WorkerPlace(w) ==
  /\ wpc[w] = "idle" <=> running[w] = NoJob
  /\ w > NbWorkers => wpc[w] = "idle"
  /\ wctx[w] => wpc[w] \in {"serial", "compress", "ensure", "release"}
  /\ wlast[w] # <<>> => wpc[w] \in {"ensure", "release", "report"} /\ Len(wlast[w]) = 1
WorkerJob(w) ==
  /\ ~Ended
  /\ running[w] \in doneJobID .. nextJobID - 1 /\ running[w] \notin Pool!Queued
  /\ ~Completed(JobOf(w))
  /\ JobOf(w).error => wpc[w] \in {"ensure", "release", "report"}
  /\ wpc[w] \in {"serial", "compress"} => JobOf(w).dst
  /\ wpc[w] \in {"ensure", "release", "report"} => JobOf(w).error \/ wlast[w] # <<>>
  /\ wlast[w] # <<>> => JobOf(w).consumed + 1 = JobOf(w).src.size /\ JobOf(w).dst
WorkersInv ==
  /\ \A w \in Workers : WorkerPlace(w)
  /\ \A w \in Workers : Working(w) => WorkerJob(w)
JobsShared ==
  \A v, w \in Workers : Working(v) /\ Working(w) /\ running[v] = running[w] => v = w
QueueInv ==
  /\ Len(queue) <= 1 /\ Len(queue) + Len(begun) = nextJobID
  /\ queue # <<>> => ~Ended /\ queue[1] = nextJobID - 1 /\ doneJobID < nextJobID

(* Turns taken, and workers that may yet take one.                         *)
Pending == {w \in Workers : wpc[w] \in {"resources", "serial"}}
TurnsInv ==
  /\ serialNext \in Nat
  /\ serialNext + Cardinality(Pending) <= Len(begun) + NbWorkers - 1

Holding == {w \in Workers : wctx[w]}
ResourcesInv ==
  /\ bufPool \in Nat /\ bufPool + HeldBuffers <= MaxBuffers
  /\ cctxPool \in Nat /\ cctxPool + Cardinality(Holding) <= NbWorkers

FrameInv ==
  ~Ended => Taken /\ Rounding /\ Places /\ LiveDescribed /\ LiveAdvanced /\ Geometry
HeldInv ==
  /\ ~Stopping => Bounded /\ HeldFrom(doneJobID)
  /\ \E from \in 0..doneJobID : HeldFrom(from)
IInv ==
  /\ Types /\ FrameInv
  /\ mpc = "range" => Scanned
  /\ HeldInv /\ WorkersInv /\ JobsShared /\ QueueInv /\ TurnsInv /\ ResourcesInv

-----------------------------------------------------------------------------
(* Arithmetic.                                                             *)

(* The quotient of a division, and its bounds.                             *)
LEMMA DivRange ==
  \A x \in Nat : \A s \in Nat \ {0} :
    x \div s \in Nat /\ (x \div s) * s <= x /\ x < (x \div s) * s + s
OBVIOUS

(* Products of naturals, for Section times a number of jobs.               *)
LEMMA Products ==
  \A a, b \in Nat : \A s \in Nat \ {0} :
    /\ a * s \in Nat /\ (a + 1) * s = a * s + s
    /\ a * s <= b * s => a <= b
    /\ a * s < b * s => a < b
    /\ a <= b => a * s <= b * s
OBVIOUS

(* A remainder lies below its divisor.                                     *)
LEMMA Remainder ==
  ASSUME NEW x \in Nat, NEW s \in Nat, s > 0
  PROVE  x % s \in 0 .. s - 1
OBVIOUS

(* Quotient and remainder of a division.                                   *)
LEMMA Division ==
  ASSUME NEW x \in Nat, NEW s \in Nat, s > 0
  PROVE  x = s * (x \div s) + (x % s)
OBVIOUS

(* Different numbers with the same remainder are at least the divisor      *)
(* apart.                                                                  *)
LEMMA Remainders ==
  ASSUME NEW a \in Nat, NEW b \in Nat, NEW s \in Nat, s > 0, a % s = b % s, a < b
  PROVE  a + s <= b
<1> DEFINE p == a \div s
           q == b \div s
           r == a % s
<1>1. a = s * p + r
  BY Division
<1>8. b = s * q + (b % s)
  BY Division
<1>2. p \in Nat /\ q \in Nat /\ r \in 0 .. s - 1
  <2>1. p \in Nat /\ q \in Nat
    BY DivRange
  <2>2. r \in 0 .. s - 1
    BY Remainder
  <2> QED BY <2>1, <2>2
<1>3. a = p * s + r /\ b = q * s + r
  BY <1>1, <1>8, <1>2
<1> HIDE DEF p, q, r
<1>4. p * s < q * s
  BY <1>2, <1>3
<1>5. p + 1 <= q
  BY <1>2, <1>4, Products
<1>6. (p + 1) * s <= q * s
  BY <1>2, <1>5, Products
<1>7. p * s + s <= q * s
  BY <1>2, <1>6
<1> QED BY <1>2, <1>3, <1>7

(* Stands in for induction: a nonempty set of naturals has a least         *)
(* element.                                                                *)
LEMMA LeastElement ==
  ASSUME NEW A \in SUBSET Nat, A # {}
  PROVE  \E m \in A : \A k \in A : m <= k
<1> DEFINE I(n) == 0 .. n - 1
           F == {I(n) : n \in A}
<1>1. F \subseteq FiniteSubsetsOf(Nat) /\ F # {}
  <2>1. \A n \in A : IsFiniteSet(I(n)) /\ I(n) \subseteq Nat
    BY FS_Interval
  <2> QED BY <2>1 DEF FiniteSubsetsOf
<1>2. PICK x \in F : \A y \in F : ~ (<<y, x>> \in StrictSubsetOrdering(Nat))
  BY <1>1, FS_StrictSubsetOrderingWellFounded, WFMin
<1>3. PICK m \in A : x = I(m)
  BY <1>2
<1>4. ASSUME NEW k \in A, k < m
      PROVE  FALSE
  <2>1. I(k) \in SUBSET I(m) /\ I(k) # I(m) /\ I(k) \in F
    <3>1. k \in I(m) /\ k \notin I(k)
      BY <1>4
    <3> QED BY <3>1, <1>4
  <2> QED BY <2>1, <1>2, <1>3, <1>1 DEF StrictSubsetOrdering, FiniteSubsetsOf
<1> QED BY <1>4, <1>3

(* What holds at 0 and goes from each number to the next holds up to any   *)
(* bound.                                                                  *)
LEMMA UpTo ==
  ASSUME NEW S, NEW N \in Nat, 0 \in S,
         \A n \in 1..N : n - 1 \in S => n \in S
  PROVE  \A n \in 0..N : n \in S
<1> DEFINE A == {n \in 0..N : n \notin S}
<1>1. CASE A = {}
  BY <1>1
<1>2. CASE A # {}
  <2>0. A \in SUBSET Nat
    OBVIOUS
  <2>1. PICK m \in A : \A k \in A : m <= k
    <3> HIDE DEF A
    <3> QED BY <1>2, <2>0, LeastElement
  <2>2. m # 0 /\ m \in 1..N
    BY <2>1
  <2>3. m - 1 \notin A /\ m - 1 \in 0..N
    BY <2>1, <2>2
  <2> QED BY <2>1, <2>2, <2>3
<1> QED BY <1>1, <1>2

-----------------------------------------------------------------------------
(* The table of jobs: its size is a power of two, and jobs whose numbers   *)
(* differ by less than its size have different places.                     *)

(* The powers of two are what doubling makes them.                         *)
LEMMA PowersDefined ==
  ASSUME NEW N \in Nat
  PROVE  Powers(N) = [n \in 0..N |-> IF n = 0 THEN 1 ELSE 2 * Powers(N)[n - 1]]
<1> DEFINE IsPower(g, n) == g = [k \in 0..n |-> IF k = 0 THEN 1 ELSE 2 * g[k - 1]]
           S == {n \in 0..N : \E g : IsPower(g, n)}
<1>1. 0 \in S
  <2> DEFINE g == [k \in 0..0 |-> 1]
  <2>1. IsPower(g, 0)
    OBVIOUS
  <2> HIDE DEF g, IsPower
  <2> QED BY <2>1
<1>2. ASSUME NEW n \in 1..N, n - 1 \in S
      PROVE  n \in S
  <2>1. PICK g : IsPower(g, n - 1)
    BY <1>2
  <2> DEFINE h == [k \in 0..n |-> IF k = n THEN 2 * g[n - 1] ELSE g[k]]
  <2>2. \A k \in 0..n : h[k] = IF k = 0 THEN 1 ELSE 2 * h[k - 1]
    <3> SUFFICES ASSUME NEW k \in 0..n
                 PROVE  h[k] = IF k = 0 THEN 1 ELSE 2 * h[k - 1]
      OBVIOUS
    <3>1. CASE k = n
      BY <3>1
    <3>2. CASE k # n
      <4>1. k \in 0 .. n - 1 /\ h[k] = g[k]
        BY <3>2
      <4>2. g[k] = IF k = 0 THEN 1 ELSE 2 * g[k - 1]
        BY <2>1, <4>1
      <4>3. k # 0 => h[k - 1] = g[k - 1]
        BY <4>1
      <4> QED BY <4>1, <4>2, <4>3
    <3> QED BY <3>1, <3>2
  <2>3. IsPower(h, n)
    BY <2>2
  <2> HIDE DEF h, IsPower
  <2> QED BY <2>3
<1> HIDE DEF S
<1>3. N \in S
  <2>1. \A n \in 0..N : n \in S
    BY <1>1, <1>2, UpTo
  <2> QED BY <2>1
<1>4. PICK g : IsPower(g, N)
  BY <1>3 DEF S
<1> QED BY <1>4 DEF Powers

(* ZSTDMT_createJobsTable finds a power of two that is at least N + 2.     *)
LEMMA TableFound ==
  ASSUME NbWorkers \in 1..MaxWorkers, MaxWorkers \in Nat
  PROVE  TableSize \in Nat /\ TableSize > NbWorkers + 2
<1> DEFINE N == NbWorkers + 2
           power == Powers(N)
           Q == {n \in 0..N : power[n] \in Nat /\ power[n] >= n + 1}
           A == {n \in 0..N : power[n] > N}
<1>1. N \in Nat
  OBVIOUS
<1> HIDE DEF N
<1>2. power[0] = 1 /\ \A n \in 1..N : power[n] = 2 * power[n - 1]
  BY <1>1, PowersDefined
<1> HIDE DEF power
<1>3. \A n \in 0..N : power[n] \in Nat /\ power[n] >= n + 1
  <2>1. 0 \in Q
    BY <1>1, <1>2
  <2>2. \A n \in 1..N : n - 1 \in Q => n \in Q
    BY <1>1, <1>2
  <2> HIDE DEF Q
  <2>3. \A n \in 0..N : n \in Q
    BY <1>1, <2>1, <2>2, UpTo
  <2> QED BY <2>3 DEF Q
<1>4. PICK m \in A : \A k \in A : m <= k
  <2>1. A \in SUBSET Nat /\ N \in A
    BY <1>1, <1>3
  <2> HIDE DEF A
  <2> QED BY <2>1, LeastElement
<1>5. m \in 1..N /\ m - 1 \in 0..N /\ power[m - 1] <= N
  <2>1. N >= 2
    BY DEF N
  <2>2. m # 0
    BY <1>1, <1>2, <1>4, <2>1
  <2>3. m - 1 \notin A
    BY <1>4
  <2> QED BY <1>1, <1>3, <1>4, <2>2, <2>3
<1>6. power[m] \in Nat /\ power[m] > N /\ power[m] \div 2 <= N
  <2>1. power[m] = 2 * power[m - 1] /\ power[m - 1] \in Nat
    BY <1>2, <1>3, <1>5
  <2> QED BY <1>1, <1>4, <1>5, <2>1
<1> DEFINE T == {power[k] : k \in 1..N}
<1>7. \E n \in T : n > N /\ n \div 2 <= N
  BY <1>5, <1>6
<1>8. T \subseteq Nat
  BY <1>1, <1>3
<1>9. TableSize = CHOOSE n \in T : n > N /\ n \div 2 <= N
  BY DEF TableSize, TableSizes, N, power
<1> HIDE DEF T
<1>10. TableSize \in T /\ TableSize > N
  BY <1>7, <1>9
<1> QED BY <1>8, <1>10 DEF N

(* jobID & jobIDMask names different places for jobs that are both live.   *)
LEMMA SlotOfJob ==
  ASSUME TableSize \in Nat, TableSize > 0
  PROVE  /\ \A k \in Nat : Slot(k) \in 0 .. TableSize - 1
         /\ \A i, k \in Nat : i < k /\ k < i + TableSize => Slot(i) # Slot(k)
<1> DEFINE s == TableSize
<1>1. s \in Nat /\ s > 0
  OBVIOUS
<1> HIDE DEF s
<1>2. \A k \in Nat : k % s \in 0 .. s - 1
  BY <1>1
<1>3. \A i, k \in Nat : i < k /\ k < i + s => i % s # k % s
  <2> SUFFICES ASSUME NEW i \in Nat, NEW k \in Nat, i < k, k < i + s,
                      i % s = k % s
               PROVE  FALSE
    OBVIOUS
  <2>1. i + s <= k
    BY <1>1, Remainders
  <2> QED BY <1>1, <2>1
<1> QED BY <1>2, <1>3 DEF Slot, s

-----------------------------------------------------------------------------
(* The sizes a call determines.                                            *)

(* What the assumptions say of the sizes of a call.                        *)
LEMMA CallFacts ==
  ASSUME call \in Calls
  PROVE  /\ NbWorkers \in 1..MaxWorkers /\ MaxWorkers \in Nat
         /\ Total \in Nat \ {0} /\ Section \in Nat \ {0} /\ CallerChunk \in Nat \ {0}
         /\ Overlap \in 0..Section /\ LdmWindow \in Nat /\ MaxFailures \in Nat
         /\ LdmWindow <= Section * NbWorkers
BY CallsAssumption, WorkersAssumption, LdmAssumption
   DEF NbWorkers, Total, Section, CallerChunk, Overlap, LdmWindow, MaxFailures

(* Bounds of the round buffer, of the table of jobs and of the pool of     *)
(* buffers.                                                                *)
LEMMA Sizes ==
  ASSUME call \in Calls
  PROVE  /\ Capacity \in Nat /\ Capacity <= (NbWorkers + 3) * Section
         /\ TableSize \in Nat /\ TableSize > 0
         /\ MaxBuffers \in Nat /\ MaxBuffers >= NbWorkers + 4
<1> DEFINE n == NbWorkers
           s == Section
           l == LdmWindow
<1>1. n \in Nat /\ n > 0 /\ s \in Nat /\ s > 0 /\ l \in Nat /\ l <= s * n
  BY CallFacts
<1>2. SlackBuffers \in 2..3
  BY DEF SlackBuffers
<1>3. Capacity = (IF l > s * n THEN l ELSE s * n) + s * SlackBuffers
  BY DEF Capacity, Reference!Highest
<1>4. MaxBuffers = 2 * n + 3
  BY DEF MaxBuffers
<1> HIDE DEF n, s, l
<1>5. s * n \in Nat /\ s * SlackBuffers \in Nat /\ s * SlackBuffers <= 3 * s
  BY <1>1, <1>2
<1>6. (n + 3) * s = s * n + 3 * s
  BY <1>1
<1>7. Capacity \in Nat /\ Capacity <= (n + 3) * s
  BY <1>1, <1>3, <1>5, <1>6
<1>8. TableSize \in Nat /\ TableSize > 0
  <2>1. n + 2 \in Nat
    BY <1>1
  <2> QED BY <1>1, <2>1, CallFacts, TableFound DEF n
<1> QED BY <1>1, <1>4, <1>7, <1>8 DEF n, s

(* A job more is needed as long as there is input left for one.            *)
LEMMA JobsOfInput ==
  ASSUME call \in Calls, NEW p \in Nat
  PROVE  /\ JobCount \in Nat
         /\ p * Section < Total => p < JobCount
         /\ p * Section < Total /\ Total <= (p + 1) * Section => JobCount = p + 1
<1> DEFINE t == Total
           s == Section
           x == t + s - 1
           q == x \div s
<1>1. t \in Nat /\ t > 0 /\ s \in Nat /\ s > 0
  BY CallFacts
<1>2. JobCount = q
  BY DEF JobCount, Reference!JobCount, Total, Section
<1> HIDE DEF t, s
<1>3. x \in Nat
  BY <1>1
<1> HIDE DEF x
<1>4. q \in Nat /\ q * s <= x /\ x < q * s + s
  BY <1>1, <1>3, DivRange
<1> HIDE DEF q
<1>5. q * s \in Nat /\ p * s \in Nat /\ (p + 1) * s = p * s + s
      /\ (q + 1) * s = q * s + s /\ (p + 2) * s = p * s + s + s
  <2>1. (p + 1 + 1) * s = (p + 1) * s + s
    BY <1>1, Products
  <2> QED BY <1>1, <1>4, <2>1, Products
<1>6. p * s < t => p < q
  <2>1. p * s < t => p * s + s < q * s + s
    BY <1>1, <1>4, <1>5 DEF x
  <2>2. p * s < t => p * s < q * s
    BY <1>1, <1>5, <2>1
  <2> QED BY <1>1, <1>4, <2>2, Products
<1>7. p * s < t /\ t <= (p + 1) * s => q = p + 1
  <2>1. t <= (p + 1) * s => q * s < (p + 2) * s
    BY <1>1, <1>3, <1>4, <1>5 DEF x
  <2>2. t <= (p + 1) * s => q < p + 2
    BY <1>1, <1>4, <2>1, Products
  <2> QED BY <1>4, <1>6, <2>2
<1> QED BY <1>2, <1>4, <1>6, <1>7 DEF t, s

(* No step changes the call, so none changes what it determines.           *)
LEMMA CallKept ==
  ASSUME call' = call
  PROVE  /\ NbWorkers' = NbWorkers /\ Total' = Total /\ Section' = Section
         /\ Overlap' = Overlap /\ LdmWindow' = LdmWindow
         /\ CallerChunk' = CallerChunk /\ MaxFailures' = MaxFailures
         /\ JobCount' = JobCount /\ Capacity' = Capacity /\ Cells' = Cells
         /\ TableSize' = TableSize /\ MaxBuffers' = MaxBuffers
         /\ TableSlots' = TableSlots
         /\ \A k : Slot(k)' = Slot(k)
BY DEF NbWorkers, Total, Section, Overlap, LdmWindow, CallerChunk, MaxFailures,
       JobCount, Capacity, Cells, TableSize, MaxBuffers, TableSlots, Slot, SlackBuffers,
       TableSizes, Powers, Reference!JobCount, Reference!Highest

-----------------------------------------------------------------------------
(* The places of live jobs.                                                *)

(* Prepared counts the jobs described so far, dispatched or waiting.       *)
LEMMA PreparedJobs ==
  ASSUME FrameTypes
  PROVE  /\ Prepared \in Nat /\ Prepared \in nextJobID .. nextJobID + 1
         /\ Live \subseteq Nat
         /\ \A k \in doneJobID .. nextJobID - 1 : k \in Live
         /\ \A k \in Live : k >= doneJobID /\ k < Prepared
         /\ \A k \in Nat : k >= doneJobID /\ k < Prepared => k \in Live
BY DEF FrameTypes, Prepared, Live

(* Live jobs have places of their own, and the next one to be described    *)
(* has another.                                                            *)
LEMMA LiveSlots ==
  ASSUME MainTypes, FrameTypes, JobTypes
  PROVE  /\ \A k \in Live : /\ Slot(k) \in TableSlots
                            /\ JobAt(k) \in Descriptions /\ Sized(JobAt(k))
         /\ \A i, k \in Live : Slot(i) = Slot(k) => i = k
         /\ Slot(nextJobID) \in TableSlots
         /\ Prepared - doneJobID < TableSize =>
              \A k \in Live : Slot(Prepared) # Slot(k)
<1>1. TableSize \in Nat /\ TableSize > 0
  BY Sizes DEF MainTypes
<1>2. \A k \in Nat : Slot(k) \in TableSlots
  BY <1>1, SlotOfJob DEF TableSlots
<1>3. \A i, k \in Nat : i < k /\ k < i + TableSize => Slot(i) # Slot(k)
  BY <1>1, SlotOfJob
<1>4. Prepared \in Nat /\ doneJobID \in Nat /\ Prepared - doneJobID <= TableSize
  BY PreparedJobs DEF FrameTypes
<1>5. \A k \in Live : k \in Nat /\ k >= doneJobID /\ k < Prepared
  BY PreparedJobs
<1>6. \A k \in Live : Slot(k) \in TableSlots
  BY <1>2, <1>5
<1>7. \A k \in Live : JobAt(k) \in Descriptions /\ Sized(JobAt(k))
  BY <1>6 DEF JobTypes, JobAt
<1>8. \A i, k \in Live : i < k => Slot(i) # Slot(k)
  BY <1>1, <1>3, <1>4, <1>5
<1>9. \A i, k \in Live : Slot(i) = Slot(k) => i = k
  BY <1>5, <1>8
<1>10. Slot(nextJobID) \in TableSlots
  BY <1>2 DEF FrameTypes
<1>11. ASSUME Prepared - doneJobID < TableSize, NEW k \in Live
       PROVE  Slot(Prepared) # Slot(k)
  BY <1>1, <1>3, <1>4, <1>5, <1>11
<1> QED BY <1>6, <1>7, <1>9, <1>10, <1>11

(* What a described job's fields are, taken apart.                         *)
LEMMA Describing ==
  ASSUME NEW job \in Descriptions, Sized(job)
  PROVE  /\ job.src.start \in Nat /\ job.src.size \in Nat
         /\ job.prefix.start \in Nat /\ job.prefix.size \in Nat
         /\ Ends(job.src) = job.src.start + job.src.size
         /\ Ends(job.prefix) = job.prefix.start + job.prefix.size
         /\ Ends(job.src) <= Capacity /\ Ends(job.prefix) <= Capacity
         /\ job.consumed \in Nat /\ job.consumed <= job.src.size
         /\ job.src.size <= Section
         /\ Completed(job) <=> job.consumed = job.src.size
BY DEF Descriptions, Sized, Within, Pieces, Ends, Completed

-----------------------------------------------------------------------------
(* What main has done is not disturbed by a step that leaves main's state  *)
(* alone and lets jobs only advance.                                       *)

JobsAdvance ==
  \A k \in Live :
    /\ JobAt(k)'.src = JobAt(k).src /\ JobAt(k)'.prefix = JobAt(k).prefix
    /\ JobAt(k)'.id = JobAt(k).id /\ JobAt(k)'.last = JobAt(k).last
    /\ Completed(JobAt(k)) => Completed(JobAt(k))'

(* What a step that leaves main's variables alone keeps.                   *)
LEMMA MainStateKept ==
  ASSUME UNCHANGED mainVars
  PROVE  /\ call' = call /\ mpc' = mpc /\ failed' = failed
         /\ srcOffset' = srcOffset /\ inPos' = inPos /\ forward' = forward
         /\ out' = out /\ outcome' = outcome
         /\ inUse' = inUse /\ inBuff' = inBuff /\ prefix' = prefix
         /\ roundBuff' = roundBuff /\ roundPos' = roundPos
         /\ doneJobID' = doneJobID /\ nextJobID' = nextJobID
         /\ jobReady' = jobReady /\ frameEnded' = frameEnded
         /\ Prepared' = Prepared /\ Live' = Live
         /\ Ended' = Ended /\ Stopping' = Stopping
         /\ Reserved' = Reserved /\ Frontier' = Frontier /\ Claims' = Claims
<1>1. call' = call
  BY DEF mainVars, callVars
<1>2. Section' = Section
  BY <1>1, CallKept
<1> QED BY <1>2 DEF mainVars, callVars, inputVars, frameVars, Prepared, Live, Ended, Stopping,
                    Reserved, Frontier, Claims, NoInBuff

(* What the invariant says of main's input is kept by such a step.         *)
LEMMA InputKept ==
  ASSUME UNCHANGED mainVars
  PROVE  /\ BufferTypes => BufferTypes'
         /\ FrameTypes => FrameTypes'
         /\ Taken => Taken'
         /\ Rounding => Rounding'
         /\ Places => Places'
<1>1. call' = call
  BY MainStateKept
<1> QED BY <1>1, MainStateKept, CallKept
        DEF BufferTypes, FrameTypes, Taken, Rounding, Places, Within, Ends, NoInBuff,
            ThisChunk, LastChunk, InputLeft, EndFrame, Reference!Lowest, Prepared, Reserved

(* Live jobs stay described.                                               *)
LEMMA DescribedKept ==
  ASSUME MainTypes, FrameTypes, UNCHANGED mainVars, JobsAdvance, LiveDescribed
  PROVE  LiveDescribed'
<1>1. call' = call
  BY MainStateKept
<1> SUFFICES ASSUME NEW k \in Live
             PROVE  Described(k)'
  BY MainStateKept DEF LiveDescribed
<1>2. /\ JobAt(k)'.src = JobAt(k).src /\ JobAt(k)'.prefix = JobAt(k).prefix
      /\ JobAt(k)'.id = JobAt(k).id /\ JobAt(k)'.last = JobAt(k).last
  BY DEF JobsAdvance
<1>3. Described(k)
  BY DEF LiveDescribed
<1> QED BY <1>1, <1>2, <1>3, MainStateKept, CallKept DEF Described, Ends

(* The sections and prefixes of the jobs stay where they were.             *)
LEMMA GeometryKept ==
  ASSUME MainTypes, FrameTypes, UNCHANGED mainVars, JobsAdvance
  PROVE  /\ Geometry => Geometry'
         /\ Scanned => Scanned'
         /\ Bounded => Bounded'
<1>1. call' = call
  BY MainStateKept
<1>2. \A k \in Live : /\ Low(JobAt(k))' = Low(JobAt(k))
                      /\ Behind(k)' <=> Behind(k)
                      /\ Ahead(k)' <=> Ahead(k)
                      /\ Lap(k)' = Lap(k)
                      /\ JobAt(k)'.src = JobAt(k).src
  <2>1. \A k \in Live : /\ JobAt(k)'.src = JobAt(k).src
                        /\ JobAt(k)'.prefix = JobAt(k).prefix
    BY DEF JobsAdvance
  <2>2. roundPos' = roundPos /\ Frontier' = Frontier /\ Capacity' = Capacity
    BY <1>1, MainStateKept, CallKept
  <2>3. \A k \in Live : Low(JobAt(k))' = Low(JobAt(k))
    BY <2>1 DEF Low
  <2>4. \A k \in Live : Behind(k)' <=> Behind(k)
    BY <2>1, <2>2 DEF Behind, Ends
  <2>5. \A k \in Live : Ahead(k)' <=> Ahead(k)
    BY <2>2, <2>3 DEF Ahead
  <2>6. \A k \in Live : Lap(k)' = Lap(k)
    BY <2>2, <2>4 DEF Lap
  <2> QED BY <2>1, <2>3, <2>4, <2>5, <2>6
<1>3. Unfinished' \subseteq Unfinished /\ Unfinished \subseteq Live
  BY MainStateKept DEF Unfinished, JobsAdvance
<1>4. /\ Prepared' = Prepared /\ Live' = Live /\ roundPos' = roundPos /\ inUse' = inUse
      /\ frameEnded' = frameEnded /\ Section' = Section /\ Capacity' = Capacity
      /\ NbWorkers' = NbWorkers /\ mpc' = mpc /\ Claims' = Claims
      /\ doneJobID' = doneJobID /\ nextJobID' = nextJobID
  BY <1>1, MainStateKept, CallKept
<1>5. Sides => Sides'
  BY <1>2, <1>3 DEF Sides
<1>6. Ordered => Ordered'
  BY <1>2, <1>3 DEF Ordered
<1>7. Distances => Distances'
  BY <1>2, <1>3, <1>4 DEF Distances
<1>8. Scanned => Scanned'
  BY <1>2, <1>3, <1>4 DEF Scanned
<1>9. Bounded => Bounded'
  <2> SUFFICES ASSUME mpc \in {"load", "create", "flush"}, Claims = NbWorkers + 4,
                      Completed(Oldest)
               PROVE  Completed(Oldest)'
    BY <1>4 DEF Bounded
  <2>1. NbWorkers \in Nat
    BY CallFacts DEF MainTypes
  <2>2. doneJobID \in Live
    BY <2>1, PreparedJobs DEF Claims, FrameTypes
  <2>3. Oldest = JobAt(doneJobID) /\ Oldest' = JobAt(doneJobID)'
    BY DEF Oldest, JobAt
  <2> QED BY <1>4, <2>2, <2>3 DEF JobsAdvance
<1> QED BY <1>4, <1>5, <1>6, <1>7, <1>8, <1>9 DEF Geometry

(* A worker changes the description of the job it has in hand.             *)
JobWrite(w, job) ==
  /\ job \in Descriptions /\ Sized(job)
  /\ jobs' = [jobs EXCEPT ![SlotOf(w)] = job]
  /\ job.src = JobOf(w).src /\ job.prefix = JobOf(w).prefix
  /\ job.id = JobOf(w).id /\ job.last = JobOf(w).last
  /\ job.flushed <= Len(job.blocks)
  /\ job.blocks # <<>> => job.dst
  /\ Completed(job) /\ ~job.error => job.blocks # <<>>

(* The job a worker has in hand is live, dispatched and not yet completed. *)
LEMMA InHand ==
  ASSUME IInv, NEW w \in Workers, Working(w)
  PROVE  /\ running[w] \in Live /\ running[w] \in Nat
         /\ JobOf(w) = JobAt(running[w]) /\ SlotOf(w) = Slot(running[w])
         /\ SlotOf(w) \in TableSlots
         /\ JobOf(w) \in Descriptions /\ Sized(JobOf(w))
         /\ WorkerJob(w) /\ ~Ended /\ ~Completed(JobOf(w)) /\ ~Waiting(running[w])
         /\ Described(running[w]) /\ Advanced(running[w])
<1>1. WorkerJob(w)
  BY DEF IInv, WorkersInv
<1>2. running[w] \in doneJobID .. nextJobID - 1
  BY <1>1 DEF WorkerJob
<1>3. FrameTypes /\ MainTypes /\ JobTypes
  BY DEF IInv, Types
<1>4. running[w] \in Live /\ running[w] \in Nat
  BY <1>2, <1>3, PreparedJobs
<1>5. JobOf(w) = JobAt(running[w]) /\ SlotOf(w) = Slot(running[w])
  BY DEF JobOf, JobAt, SlotOf
<1>6. SlotOf(w) \in TableSlots /\ JobOf(w) \in Descriptions /\ Sized(JobOf(w))
  BY <1>3, <1>4, <1>5, LiveSlots
<1>7. ~Ended /\ ~Completed(JobOf(w)) /\ running[w] \notin Pool!Queued
  BY <1>1 DEF WorkerJob
<1>8. ~Waiting(running[w])
  BY <1>2, <1>3, <1>7 DEF Waiting, FrameTypes
<1>9. LiveDescribed /\ LiveAdvanced
  BY <1>7 DEF IInv, FrameInv
<1> QED BY <1>1, <1>4, <1>5, <1>6, <1>7, <1>8, <1>9 DEF LiveDescribed, LiveAdvanced

(* The table after a worker wrote its own job's place.                     *)
LEMMA WrittenJob ==
  ASSUME IInv, NEW w \in Workers, Working(w), UNCHANGED mainVars,
         NEW job, JobWrite(w, job)
  PROVE  /\ JobTypes' /\ JobsAdvance /\ DOMAIN jobs' = DOMAIN jobs
         /\ \A k \in Live : JobAt(k)' = IF k = running[w] THEN job ELSE JobAt(k)
         /\ \A s \in TableSlots : jobs'[s] = IF s = SlotOf(w) THEN job ELSE jobs[s]
<1>1. /\ running[w] \in Live /\ JobOf(w) = JobAt(running[w])
      /\ SlotOf(w) = Slot(running[w]) /\ SlotOf(w) \in TableSlots
      /\ ~Completed(JobOf(w))
  BY InHand
<1>2. FrameTypes /\ MainTypes /\ JobTypes
  BY DEF IInv, Types
<1>3. call' = call /\ TableSlots' = TableSlots /\ Capacity' = Capacity /\ Section' = Section
      /\ \A k : Slot(k)' = Slot(k)
  <2>1. call' = call
    BY MainStateKept
  <2> QED BY <2>1, CallKept
<1>4. \A s \in TableSlots : jobs'[s] = IF s = SlotOf(w) THEN job ELSE jobs[s]
  BY <1>1, <1>2 DEF JobTypes, JobWrite
<1>5. jobs' \in [TableSlots -> Descriptions] /\ DOMAIN jobs' = DOMAIN jobs
  BY <1>1, <1>2 DEF JobTypes, JobWrite
<1>6. JobTypes'
  <2>1. \A s \in TableSlots : Sized(jobs'[s])
    BY <1>2, <1>4 DEF JobTypes, JobWrite
  <2>2. \A s \in TableSlots : Sized(jobs[s])'
    BY <1>3, <2>1 DEF Sized, Within, Ends
  <2> QED BY <1>3, <1>5, <2>2 DEF JobTypes
<1>7. \A k \in Live : Slot(k) \in TableSlots /\ (Slot(k) = SlotOf(w) => k = running[w])
  BY <1>1, <1>2, LiveSlots
<1>8. \A k \in Live : JobAt(k)' = IF k = running[w] THEN job ELSE JobAt(k)
  BY <1>1, <1>3, <1>4, <1>7 DEF JobAt
<1>9. JobsAdvance
  BY <1>1, <1>8 DEF JobsAdvance, JobWrite
<1> QED BY <1>1, <1>4, <1>5, <1>6, <1>8, <1>9

(* After such a write every live job is still as far as it should be.      *)
LEMMA AdvancedByWrite ==
  ASSUME IInv, NEW w \in Workers, Working(w), UNCHANGED mainVars,
         NEW job, JobWrite(w, job), UNCHANGED queue
  PROVE  LiveAdvanced'
<1>1. \A k \in Live : JobAt(k)' = IF k = running[w] THEN job ELSE JobAt(k)
  BY WrittenJob
<1>2. ~Waiting(running[w]) /\ LiveAdvanced
  BY InHand DEF IInv, FrameInv
<1>3. \A k : Waiting(k)' <=> Waiting(k)
  BY MainStateKept DEF Waiting, Pool!Queued
<1> SUFFICES ASSUME NEW k \in Live
             PROVE  Advanced(k)'
  BY MainStateKept DEF LiveAdvanced
<1>4. CASE k = running[w]
  BY <1>1, <1>2, <1>3, <1>4 DEF Advanced, JobWrite, Completed
<1>5. CASE k # running[w]
  <2>1. Advanced(k) /\ JobAt(k)' = JobAt(k)
    BY <1>1, <1>2, <1>5 DEF LiveAdvanced
  <2> QED BY <1>3, <2>1 DEF Advanced, Completed
<1> QED BY <1>4, <1>5

(* A write within a live job's place takes no buffer outside the live      *)
(* jobs.                                                                   *)
LEMMA HeldByWrite ==
  ASSUME IInv, NEW w \in Workers, Working(w), UNCHANGED mainVars,
         NEW job, JobWrite(w, job), NEW from \in 0..doneJobID, HeldFrom(from)
  PROVE  HeldFrom(from)'
<1>1. \A s \in TableSlots : jobs'[s] = IF s = SlotOf(w) THEN job ELSE jobs[s]
  BY WrittenJob
<1>2. running[w] \in Live /\ SlotOf(w) = Slot(running[w])
  BY InHand
<1>3. running[w] \in from .. Prepared - 1
  BY <1>2, PreparedJobs DEF IInv, Types, FrameTypes
<1>4. /\ TableSlots' = TableSlots /\ TableSize' = TableSize /\ MaxBuffers' = MaxBuffers
      /\ Prepared' = Prepared /\ \A k : Slot(k)' = Slot(k)
  <2>1. call' = call
    BY MainStateKept
  <2> QED BY <2>1, CallKept, MainStateKept
<1> QED BY <1>1, <1>2, <1>3, <1>4 DEF HeldFrom

JobsPreserved ==
  /\ JobsAdvance /\ JobTypes' /\ PoolTypes' /\ QueueInv'
  /\ ~Ended => LiveAdvanced'
  /\ \A from \in 0..doneJobID : HeldFrom(from) => HeldFrom(from)'

(* A worker's write to its job preserves what the invariant says of the    *)
(* jobs.                                                                   *)
LEMMA WriteStep ==
  ASSUME IInv, NEW w \in Workers, Working(w), UNCHANGED <<mainVars, poolVars>>,
         NEW job, JobWrite(w, job)
  PROVE  /\ JobsPreserved
         /\ JobOf(w)' = job
         /\ \A v \in Workers : v # w /\ Working(v) => JobOf(v)' = JobOf(v)
         /\ \A v \in Workers : running'[v] = running[v]
<1>1. /\ UNCHANGED mainVars /\ queue' = queue /\ running' = running /\ begun' = begun
  BY DEF poolVars
<1>2. JobsAdvance /\ JobTypes' /\ LiveAdvanced'
  BY <1>1, WrittenJob, AdvancedByWrite
<1>3. \A from \in 0..doneJobID : HeldFrom(from) => HeldFrom(from)'
  BY <1>1, HeldByWrite
<1>4. PoolTypes' /\ QueueInv'
  BY <1>1, MainStateKept DEF IInv, Types, PoolTypes, QueueInv
<1>5. \A v \in Workers : JobOf(v)' = JobAt(running[v])'
  BY <1>1 DEF JobOf, SlotOf, JobAt
<1>6. \A k \in Live : JobAt(k)' = IF k = running[w] THEN job ELSE JobAt(k)
  BY <1>1, WrittenJob
<1>7. running[w] \in Live
  BY InHand
<1>8. JobOf(w)' = job
  <2>1. \A k : k = running[w] => JobOf(w)' = JobAt(k)'
    BY <1>1 DEF JobOf, SlotOf, JobAt
  <2> QED BY <1>6, <1>7, <2>1
<1>9. ASSUME NEW v \in Workers, v # w, Working(v)
      PROVE  JobOf(v)' = JobOf(v)
  <2>1. \A k : k = running[v] => JobOf(v)' = JobAt(k)'
    BY <1>1 DEF JobOf, SlotOf, JobAt
  <2>2. running[v] \in Live /\ JobOf(v) = JobAt(running[v])
    BY <1>9, InHand
  <2>3. running[v] # running[w]
    BY <1>9 DEF IInv, JobsShared
  <2> QED BY <1>6, <2>1, <2>2, <2>3
<1> QED BY <1>1, <1>2, <1>3, <1>4, <1>8, <1>9 DEF JobsPreserved

(* A step that writes no description changes nothing of the jobs.          *)
LEMMA UntouchedStep ==
  ASSUME IInv, UNCHANGED <<mainVars, jobs>>
  PROVE  /\ JobsAdvance /\ JobTypes'
         /\ \A from \in 0..doneJobID : HeldFrom(from) => HeldFrom(from)'
         /\ \A k : JobAt(k)' = JobAt(k)
         /\ HeldBuffers' = HeldBuffers
<1>0. UNCHANGED mainVars /\ jobs' = jobs
  OBVIOUS
<1>1. call' = call
  BY <1>0, MainStateKept
<1>2. /\ TableSlots' = TableSlots /\ TableSize' = TableSize /\ MaxBuffers' = MaxBuffers
      /\ Capacity' = Capacity /\ Section' = Section
      /\ Prepared' = Prepared /\ \A k : Slot(k)' = Slot(k)
  BY <1>0, <1>1, MainStateKept, CallKept
<1>3. \A k : JobAt(k)' = JobAt(k)
  BY <1>0, <1>2 DEF JobAt
<1>4. JobsAdvance
  BY <1>3 DEF JobsAdvance, Completed
<1>5. JobTypes'
  BY <1>0, <1>2 DEF JobTypes, Sized, Within, Ends, IInv, Types
<1>6. \A from \in 0..doneJobID : HeldFrom(from) => HeldFrom(from)'
  BY <1>0, <1>2 DEF HeldFrom
<1>7. HeldBuffers' = HeldBuffers
  BY <1>0 DEF HeldBuffers
<1> QED BY <1>3, <1>4, <1>5, <1>6, <1>7

(* If it leaves the pool alone too, it preserves all that is said of the   *)
(* jobs.                                                                   *)
LEMMA QuietStep ==
  ASSUME IInv, UNCHANGED <<mainVars, jobs, poolVars>>
  PROVE  /\ JobsPreserved
         /\ \A v \in Workers : JobOf(v)' = JobOf(v) /\ running'[v] = running[v]
         /\ HeldBuffers' = HeldBuffers
<1>1. /\ UNCHANGED mainVars /\ jobs' = jobs
      /\ queue' = queue /\ running' = running /\ begun' = begun
  BY DEF poolVars
<1>2. /\ JobsAdvance /\ JobTypes' /\ HeldBuffers' = HeldBuffers
      /\ \A from \in 0..doneJobID : HeldFrom(from) => HeldFrom(from)'
      /\ \A k : JobAt(k)' = JobAt(k)
  BY <1>1, UntouchedStep
<1>3. PoolTypes' /\ QueueInv'
  BY <1>1, MainStateKept DEF IInv, Types, PoolTypes, QueueInv
<1>4. \A k : Waiting(k)' <=> Waiting(k)
  BY <1>1, MainStateKept DEF Waiting, Pool!Queued
<1>5. ~Ended => LiveAdvanced'
  BY <1>1, <1>2, <1>4, MainStateKept
     DEF LiveAdvanced, Advanced, Completed, IInv, FrameInv
<1>6. call' = call
  BY <1>1, MainStateKept
<1>7. \A v \in Workers : JobOf(v)' = JobOf(v) /\ running'[v] = running[v]
  BY <1>1, <1>6, CallKept DEF JobOf, SlotOf
<1> QED BY <1>1, <1>2, <1>3, <1>5, <1>7 DEF JobsPreserved

-----------------------------------------------------------------------------
(* Worker w moves; no other worker is disturbed.                           *)
OnlyMoves(w) ==
  \A v \in Workers :
    v # w => /\ wpc'[v] = wpc[v] /\ wctx'[v] = wctx[v] /\ wlast'[v] = wlast[v]
             /\ running'[v] = running[v]
             /\ Working(v) => JobOf(v)' = JobOf(v)

(* The worker that moves leaves the others' part of the invariant as it    *)
(* was.                                                                    *)
LEMMA OthersUndisturbed ==
  ASSUME IInv, NEW w \in Workers, UNCHANGED mainVars, OnlyMoves(w),
         Pool!Queued' \subseteq Pool!Queued,
         WorkerPlace(w)', Working(w)' => WorkerJob(w)',
         \A v \in Workers : v # w /\ Working(v) /\ Working(w)' => running[v] # running'[w]
  PROVE  WorkersInv' /\ JobsShared'
<1>1. call' = call /\ NbWorkers' = NbWorkers
  <2>1. call' = call
    BY MainStateKept
  <2> QED BY <2>1, CallKept
<1>2. ASSUME NEW v \in Workers, v # w
      PROVE  /\ WorkerPlace(v)' /\ (Working(v)' <=> Working(v))
             /\ Working(v)' => WorkerJob(v)'
             /\ running'[v] = running[v]
  <2>1. /\ wpc'[v] = wpc[v] /\ wctx'[v] = wctx[v] /\ wlast'[v] = wlast[v]
        /\ running'[v] = running[v]
        /\ Working(v) => JobOf(v)' = JobOf(v)
    BY <1>2 DEF OnlyMoves
  <2>2. WorkerPlace(v) /\ (Working(v) => WorkerJob(v))
    BY DEF IInv, WorkersInv
  <2>3. WorkerPlace(v)'
    BY <1>1, <2>1, <2>2 DEF WorkerPlace
  <2>4. Working(v)' <=> Working(v)
    BY <2>1 DEF Working
  <2>5. Working(v) => WorkerJob(v)'
    BY <1>1, <2>1, <2>2, MainStateKept DEF WorkerJob, Completed
  <2> QED BY <2>1, <2>3, <2>4, <2>5
<1>3. WorkersInv'
  BY <1>2 DEF WorkersInv
<1>4. JobsShared'
  <2> SUFFICES ASSUME NEW v \in Workers, NEW u \in Workers, Working(v)', Working(u)',
                      running'[v] = running'[u], v # u
               PROVE  FALSE
    BY DEF JobsShared
  <2> QED BY <1>2 DEF IInv, JobsShared
<1> QED BY <1>3, <1>4

(* The whole invariant after a worker's step, from the parts it may        *)
(* disturb.                                                                *)
LEMMA WorkerPreserves ==
  ASSUME IInv, UNCHANGED mainVars, failures' \in 0..MaxFailures,
         JobsPreserved, WindowTypes', WorkerTypes', WorkersInv', JobsShared',
         TurnsInv', ResourcesInv'
  PROVE  IInv'
<1>1. MainTypes'
  <2>1. call' = call
    BY MainStateKept
  <2> QED BY <2>1, MainStateKept, CallKept DEF IInv, Types, MainTypes
<1>2. BufferTypes' /\ FrameTypes'
  BY InputKept DEF IInv, Types
<1>3. Types'
  BY <1>1, <1>2 DEF Types, JobsPreserved
<1>4. FrameInv'
  <2> SUFFICES ASSUME ~Ended
               PROVE  /\ Taken' /\ Rounding' /\ Places'
                      /\ LiveDescribed' /\ LiveAdvanced' /\ Geometry'
    BY MainStateKept DEF FrameInv
  <2>1. Taken /\ Rounding /\ Places /\ LiveDescribed /\ Geometry
    BY DEF IInv, FrameInv
  <2>2. MainTypes /\ FrameTypes /\ JobsAdvance /\ LiveAdvanced'
    BY DEF IInv, Types, JobsPreserved
  <2>3. Taken' /\ Rounding' /\ Places'
    BY <2>1, InputKept
  <2>4. LiveDescribed'
    BY <2>1, <2>2, DescribedKept
  <2>5. Geometry'
    BY <2>1, <2>2, GeometryKept
  <2> QED BY <2>2, <2>3, <2>4, <2>5
<1>5. (mpc = "range" => Scanned)'
  BY MainStateKept, GeometryKept DEF IInv, Types, JobsPreserved
<1>6. HeldInv'
  <2>1. Bounded => Bounded'
    BY GeometryKept DEF IInv, Types, JobsPreserved
  <2>2. doneJobID \in 0..doneJobID
    BY DEF IInv, Types, FrameTypes
  <2> QED BY <2>1, <2>2, MainStateKept DEF IInv, HeldInv, JobsPreserved
<1> QED BY <1>3, <1>4, <1>5, <1>6 DEF IInv, JobsPreserved

-----------------------------------------------------------------------------
(* Cardinalities.                                                          *)

(* There are finitely many workers, so sets of them can be counted.        *)
LEMMA WorkersFinite ==
  ASSUME call \in Calls
  PROVE  /\ IsFiniteSet(Workers) /\ IsFiniteSet(1..NbWorkers)
         /\ Cardinality(1..NbWorkers) = NbWorkers
         /\ IsFiniteSet(TableSlots)
<1>1. NbWorkers \in 1..MaxWorkers /\ MaxWorkers \in Nat
  BY CallFacts
<1>2. TableSize \in Nat
  BY Sizes
<1> QED BY <1>1, <1>2, FS_Interval DEF Workers, TableSlots

(* A set with one member more has one more.                                *)
LEMMA OneMore ==
  ASSUME NEW S, NEW T, NEW x, IsFiniteSet(S), x \notin S, T = S \cup {x}
  PROVE  Cardinality(S) \in Nat /\ Cardinality(T) = Cardinality(S) + 1
BY FS_AddElement, FS_CardinalityType

(* A set with one member less has one less.                                *)
LEMMA OneLess ==
  ASSUME NEW S, NEW T, NEW x, IsFiniteSet(S), x \in S, T = S \ {x}
  PROVE  /\ Cardinality(S) \in Nat /\ Cardinality(T) = Cardinality(S) - 1
         /\ Cardinality(T) \in Nat
BY FS_RemoveElement, FS_CardinalityType

(* The sets the resource bounds count are finite.                          *)
LEMMA SetsFinite ==
  ASSUME IInv
  PROVE  /\ IsFiniteSet(Pending) /\ Cardinality(Pending) \in Nat
         /\ IsFiniteSet(Holding) /\ Cardinality(Holding) \in Nat
         /\ Pending \subseteq 1..NbWorkers /\ Holding \subseteq 1..NbWorkers
         /\ HeldBuffers \in Nat /\ IsFiniteSet({s \in DOMAIN jobs : jobs[s].dst})
<1>0. call \in Calls
  BY DEF IInv, Types, MainTypes
<1>1. IsFiniteSet(1..NbWorkers) /\ IsFiniteSet(TableSlots)
  BY <1>0, WorkersFinite
<1>2. Pending \subseteq 1..NbWorkers /\ Holding \subseteq 1..NbWorkers
  <2>1. NbWorkers \in Nat /\ MaxWorkers \in Nat
    BY <1>0, CallFacts
  <2>2. \A w \in Workers : w > NbWorkers => wpc[w] = "idle" /\ ~wctx[w]
    BY DEF IInv, WorkersInv, WorkerPlace
  <2> QED BY <2>1, <2>2 DEF Pending, Holding, Workers
<1>3. IsFiniteSet(Pending) /\ IsFiniteSet(Holding)
  BY <1>1, <1>2, FS_Subset
<1>4. IsFiniteSet({s \in DOMAIN jobs : jobs[s].dst})
  <2>1. {s \in DOMAIN jobs : jobs[s].dst} \in SUBSET TableSlots
    BY DEF IInv, Types, JobTypes
  <2> QED BY <1>1, <2>1, FS_Subset
<1> QED BY <1>2, <1>3, <1>4, FS_CardinalityType DEF HeldBuffers

-----------------------------------------------------------------------------
(* Each step of a worker.                                                  *)

(* POOL_thread takes the oldest job of the queue.                          *)
LEMMA BeginPreserves ==
  ASSUME IInv, NEW w \in Workers, Begin(w)
  PROVE  IInv'
<1> DEFINE id == Head(queue)
<1>1. /\ UNCHANGED mainVars /\ jobs' = jobs /\ UNCHANGED <<mainVars, jobs>>
      /\ UNCHANGED <<serialVars, resourceVars>>
      /\ wctx' = wctx /\ wseq' = wseq /\ wlast' = wlast /\ failures' = failures
      /\ w <= NbWorkers /\ wpc' = [wpc EXCEPT ![w] = "resources"]
  BY DEF Begin
<1>2. /\ queue # <<>> /\ running[w] = NoJob
      /\ running' = [running EXCEPT ![w] = id]
      /\ begun' = Append(begun, id) /\ queue' = Tail(queue)
  BY DEF Begin, Pool!BeginJob
<1>3. /\ queue \in Seq(Nat) /\ begun \in Seq(Nat)
      /\ running \in [Workers -> Nat \cup {NoJob}] /\ WorkerTypes
      /\ WindowTypes /\ MainTypes /\ FrameTypes
  BY DEF IInv, Types, PoolTypes
<1>4. /\ Len(queue) = 1 /\ id = queue[1] /\ id \in Nat
      /\ queue' \in Seq(Nat) /\ Len(queue') = 0 /\ queue' = <<>>
  <2>1. Len(queue) \in Nat /\ Len(queue) # 0
    BY <1>2, <1>3, EmptySeq, LenProperties
  <2>6. Len(queue) <= 1
    BY DEF IInv, QueueInv
  <2>2. Len(queue) = 1
    <3> DEFINE n == Len(queue)
    <3>1. n \in Nat /\ n # 0 /\ n <= 1
      BY <2>1, <2>6
    <3> HIDE DEF n
    <3>2. n = 1
      BY <3>1
    <3> QED BY <3>2 DEF n
  <2>3. id \in Nat /\ Tail(queue) \in Seq(Nat) /\ Len(Tail(queue)) = 0
    BY <1>2, <1>3, <2>2, HeadTailProperties
  <2>4. id = queue[1]
    BY <1>2, <1>3
  <2>5. Tail(queue) = <<>>
    BY <2>3, EmptySeq
  <2> QED BY <1>2, <2>2, <2>3, <2>4, <2>5
<1>5. /\ begun' \in Seq(Nat) /\ Len(begun) \in Nat /\ Len(begun') = Len(begun) + 1
  BY <1>2, <1>3, <1>4, LenProperties, AppendProperties
<1>6. id = nextJobID - 1 /\ id \in Pool!Queued /\ ~Ended /\ doneJobID < nextJobID
  <2>1. id = nextJobID - 1 /\ ~Ended /\ doneJobID < nextJobID
    BY <1>2, <1>4 DEF IInv, QueueInv
  <2>2. 1 \in DOMAIN queue
    BY <1>3, <1>4, LenProperties
  <2> QED BY <1>4, <2>1, <2>2 DEF Pool!Queued
<1>7. /\ id \in Live /\ id \in doneJobID .. nextJobID - 1 /\ Slot(id) = Slot(id)
      /\ ~Completed(JobAt(id)) /\ ~JobAt(id).error
  <2>1. id \in doneJobID .. nextJobID - 1
    BY <1>3, <1>4, <1>6 DEF FrameTypes
  <2>2. id \in Live
    BY <1>3, <2>1, PreparedJobs
  <2>3. Waiting(id) /\ Advanced(id)
    BY <1>6, <2>2 DEF Waiting, IInv, FrameInv, LiveAdvanced
  <2> QED BY <2>1, <2>2, <2>3 DEF Advanced
<1> HIDE DEF id
<1>8. /\ JobsAdvance /\ JobTypes' /\ HeldBuffers' = HeldBuffers
      /\ \A from \in 0..doneJobID : HeldFrom(from) => HeldFrom(from)'
      /\ \A k : JobAt(k)' = JobAt(k)
  BY <1>1, UntouchedStep
<1>9. Pool!Queued' = {}
  BY <1>4 DEF Pool!Queued
<1>10. LiveAdvanced'
  <2>1. LiveAdvanced
    BY <1>6 DEF IInv, FrameInv
  <2>2. \A k : Waiting(k)' => Waiting(k)
    BY <1>1, <1>9, MainStateKept DEF Waiting
  <2> QED BY <1>1, <1>8, <2>1, <2>2, MainStateKept DEF LiveAdvanced, Advanced, Completed
<1>11. JobsPreserved
  <2>1. PoolTypes'
    BY <1>2, <1>3, <1>4, <1>5 DEF PoolTypes
  <2>2. QueueInv'
    BY <1>1, <1>4, <1>5, MainStateKept DEF IInv, QueueInv
  <2> QED BY <1>8, <1>10, <2>1, <2>2 DEF JobsPreserved
<1>12. WorkerTypes' /\ WindowTypes'
  <2>1. WorkerTypes'
    BY <1>1, <1>3 DEF WorkerTypes
  <2>2. call' = call
    BY <1>1, MainStateKept
  <2> QED BY <1>1, <1>3, <2>1, <2>2, CallKept DEF WindowTypes, Within, Ends, serialVars
<1>13. call' = call /\ NbWorkers' = NbWorkers
  <2>1. call' = call
    BY <1>1, MainStateKept
  <2> QED BY <2>1, CallKept
<1>14. wpc[w] = "idle" /\ ~wctx[w] /\ wlast[w] = <<>> /\ wpc'[w] = "resources" /\ running'[w] = id
       /\ wctx'[w] = wctx[w] /\ wlast'[w] = wlast[w]
  BY <1>1, <1>2, <1>3 DEF IInv, WorkersInv, WorkerPlace, WorkerTypes
<1>15. WorkersInv' /\ JobsShared'
  <2>1. OnlyMoves(w)
    BY <1>1, <1>2, <1>3, <1>13, CallKept DEF OnlyMoves, WorkerTypes, JobOf, SlotOf
  <2>2. WorkerPlace(w)'
    <3>1. w \in Int /\ NbWorkers \in Int /\ ~(w > NbWorkers)
      <4>1. NbWorkers \in Nat /\ MaxWorkers \in Nat
        BY <1>3, CallFacts DEF MainTypes
      <4> QED BY <1>1, <4>1 DEF Workers
    <3>2. id # NoJob
      BY <1>4, NoJobAssumption
    <3> QED BY <1>13, <1>14, <3>1, <3>2 DEF WorkerPlace
  <2>3. JobOf(w)' = JobAt(id)
    BY <1>1, <1>13, <1>14, CallKept DEF JobOf, SlotOf, JobAt
  <2>4. WorkerJob(w)'
    BY <1>1, <1>6, <1>7, <1>9, <1>14, <2>3, MainStateKept DEF WorkerJob, Completed
  <2>5. \A v \in Workers : v # w /\ Working(v) => running[v] # running'[w]
    BY <1>6, <1>14 DEF IInv, WorkersInv, WorkerJob
  <2> QED BY <1>1, <1>9, <2>1, <2>2, <2>4, <2>5, OthersUndisturbed
<1>16. TurnsInv'
  <2>1. w \notin Pending /\ Pending' = Pending \cup {w}
    BY <1>1, <1>3, <1>14 DEF Pending, WorkerTypes
  <2>2. Cardinality(Pending)' = Cardinality(Pending) + 1 /\ Cardinality(Pending) \in Nat
    BY <2>1, SetsFinite, OneMore
  <2>3. serialNext' = serialNext /\ NbWorkers \in Nat
    BY <1>1, <1>3, CallFacts DEF serialVars, MainTypes
  <2> QED BY <1>5, <1>13, <2>2, <2>3 DEF IInv, TurnsInv
<1>17. ResourcesInv'
  <2>1. Holding' = Holding /\ bufPool' = bufPool /\ cctxPool' = cctxPool /\ MaxBuffers' = MaxBuffers
    BY <1>1, <1>13, CallKept DEF Holding, resourceVars
  <2> QED BY <1>8, <1>13, <2>1 DEF IInv, ResourcesInv
<1>18. failures' \in 0..MaxFailures
  BY <1>1, <1>3 DEF MainTypes
<1> QED BY <1>1, <1>11, <1>12, <1>15, <1>16, <1>17, <1>18, WorkerPreserves

(* The worker is done with its job and goes back to the pool.              *)
LEMMA EndPreserves ==
  ASSUME IInv, NEW w \in Workers, End(w)
  PROVE  IInv'
<1>1. /\ UNCHANGED mainVars /\ jobs' = jobs /\ UNCHANGED <<mainVars, jobs>>
      /\ UNCHANGED <<serialVars, resourceVars>>
      /\ wctx' = wctx /\ wseq' = wseq /\ wlast' = wlast /\ failures' = failures
      /\ wpc[w] = "end" /\ wpc' = [wpc EXCEPT ![w] = "idle"]
      /\ running' = [running EXCEPT ![w] = NoJob] /\ queue' = queue /\ begun' = begun
  BY DEF End, Pool!EndJob
<1>2. /\ MainTypes /\ FrameTypes /\ WorkerTypes /\ PoolTypes /\ WindowTypes
  BY DEF IInv, Types
<1>3. call' = call /\ NbWorkers' = NbWorkers
  <2>1. call' = call
    BY <1>1, MainStateKept
  <2> QED BY <2>1, CallKept
<1>4. /\ JobsAdvance /\ JobTypes' /\ HeldBuffers' = HeldBuffers
      /\ \A from \in 0..doneJobID : HeldFrom(from) => HeldFrom(from)'
      /\ \A k : JobAt(k)' = JobAt(k)
  BY <1>1, UntouchedStep
<1>5. Pool!Queued' = Pool!Queued
  BY <1>1 DEF Pool!Queued
<1>6. JobsPreserved
  <2>1. ASSUME ~Ended
        PROVE  LiveAdvanced'
    <3>1. LiveAdvanced
      BY <2>1 DEF IInv, FrameInv
    <3>2. \A k : Waiting(k)' <=> Waiting(k)
      BY <1>1, <1>5, MainStateKept DEF Waiting
    <3> QED BY <1>1, <1>4, <3>1, <3>2, MainStateKept DEF LiveAdvanced, Advanced, Completed
  <2>2. PoolTypes'
    BY <1>1, <1>2 DEF PoolTypes
  <2>3. QueueInv'
    BY <1>1, MainStateKept DEF IInv, QueueInv
  <2> QED BY <1>4, <2>1, <2>2, <2>3 DEF JobsPreserved
<1>7. WorkerTypes' /\ WindowTypes'
  <2>1. WorkerTypes'
    BY <1>1, <1>2 DEF WorkerTypes
  <2> QED BY <1>1, <1>2, <1>3, <2>1, CallKept DEF WindowTypes, Within, Ends, serialVars
<1>8. /\ wpc'[w] = "idle" /\ running'[w] = NoJob /\ ~wctx'[w] /\ wlast'[w] = <<>>
  <2>1. WorkerPlace(w)
    BY DEF IInv, WorkersInv
  <2> QED BY <1>1, <1>2, <2>1 DEF WorkerPlace, WorkerTypes, PoolTypes
<1>9. WorkersInv' /\ JobsShared'
  <2>1. OnlyMoves(w)
    BY <1>1, <1>2, <1>3, CallKept DEF OnlyMoves, WorkerTypes, PoolTypes, JobOf, SlotOf
  <2>2. WorkerPlace(w)' /\ ~Working(w)'
    BY <1>8 DEF WorkerPlace, Working
  <2> QED BY <1>1, <1>5, <2>1, <2>2, OthersUndisturbed
<1>10. TurnsInv'
  <2>1. Pending' = Pending
    BY <1>1, <1>2 DEF Pending, WorkerTypes
  <2> QED BY <1>1, <1>3, <2>1 DEF IInv, TurnsInv, serialVars
<1>11. ResourcesInv'
  <2>1. Holding' = Holding /\ bufPool' = bufPool /\ cctxPool' = cctxPool /\ MaxBuffers' = MaxBuffers
    BY <1>1, <1>3, CallKept DEF Holding, resourceVars
  <2> QED BY <1>3, <1>4, <2>1 DEF IInv, ResourcesInv
<1>12. failures' \in 0..MaxFailures
  BY <1>1, <1>2 DEF MainTypes
<1> QED BY <1>1, <1>6, <1>7, <1>9, <1>10, <1>11, <1>12, WorkerPreserves

(* A worker that only moves on in its job.                                 *)
LEMMA MovesAlone ==
  ASSUME IInv, NEW w \in Workers, Working(w), UNCHANGED <<mainVars, poolVars>>,
         \A v \in Workers : v # w => /\ wpc'[v] = wpc[v] /\ wctx'[v] = wctx[v]
                                     /\ wlast'[v] = wlast[v],
         \A v \in Workers : v # w /\ Working(v) => JobOf(v)' = JobOf(v),
         WorkerPlace(w)', Working(w)' => WorkerJob(w)'
  PROVE  WorkersInv' /\ JobsShared'
<1>1. UNCHANGED mainVars /\ running' = running /\ queue' = queue
  BY DEF poolVars
<1>2. OnlyMoves(w)
  BY <1>1 DEF OnlyMoves
<1>3. Pool!Queued' \subseteq Pool!Queued
  BY <1>1 DEF Pool!Queued
<1>4. \A v \in Workers : v # w /\ Working(v) /\ Working(w)' => running[v] # running'[w]
  BY <1>1 DEF IInv, JobsShared
<1> QED BY <1>1, <1>2, <1>3, <1>4, OthersUndisturbed

(* A worker's step that leaves the pool and main alone.                    *)
LEMMA WorkerFacts ==
  ASSUME IInv, NEW w \in Workers, UNCHANGED mainVars
  PROVE  /\ call' = call /\ NbWorkers' = NbWorkers /\ NbWorkers \in Nat
         /\ MaxBuffers' = MaxBuffers /\ Capacity' = Capacity /\ MaxFailures' = MaxFailures
         /\ w \in Nat
         /\ MainTypes /\ FrameTypes /\ WorkerTypes /\ PoolTypes /\ WindowTypes /\ JobTypes
         /\ BufferTypes
         /\ WorkerPlace(w) /\ TurnsInv /\ ResourcesInv
         /\ Ended' = Ended
<1>1. call' = call
  BY MainStateKept
<1>2. MainTypes
  BY DEF IInv, Types
<1>3. w \in Nat
  BY <1>2, CallFacts DEF MainTypes, Workers
<1> QED BY <1>1, <1>2, <1>3, CallKept, CallFacts, MainStateKept
        DEF IInv, Types, WorkersInv, MainTypes

(* ZSTDMT_compressionJob: the last part of the section is compressed.      *)
LEMMA CompressLastPreserves ==
  ASSUME IInv, NEW w \in Workers, CompressLast(w),
         Compressed(w, JobOf(w).src.size) \in Blocks
  PROVE  IInv'
<1> DEFINE block == Compressed(w, JobOf(w).src.size)
<1>1. /\ UNCHANGED mainVars /\ UNCHANGED <<mainVars, poolVars>>
      /\ UNCHANGED <<mainVars, jobs, poolVars>>
      /\ UNCHANGED <<serialVars, resourceVars>> /\ serialNext' = serialNext
      /\ bufPool' = bufPool /\ cctxPool' = cctxPool
      /\ wctx' = wctx /\ wseq' = wseq /\ failures' = failures
      /\ wlast' = [wlast EXCEPT ![w] = <<block>>]
      /\ wpc[w] = "compress" /\ wpc' = [wpc EXCEPT ![w] = "ensure"] /\ LastPiece(w)
      /\ begun' = begun
  BY DEF CompressLast, serialVars, resourceVars, poolVars
<1> HIDE DEF block
<1>2. /\ call' = call /\ NbWorkers' = NbWorkers /\ NbWorkers \in Nat /\ w \in Nat
      /\ MaxBuffers' = MaxBuffers /\ Capacity' = Capacity /\ MaxFailures' = MaxFailures
      /\ MainTypes /\ WorkerTypes /\ WindowTypes
      /\ WorkerPlace(w) /\ TurnsInv /\ ResourcesInv /\ Ended' = Ended
  BY <1>1, WorkerFacts
<1>3. /\ Working(w) /\ Working(w)' /\ wpc'[w] = "ensure" /\ wlast'[w] = <<block>>
      /\ wctx'[w] = wctx[w]
      /\ \A v \in Workers : v # w => /\ wpc'[v] = wpc[v] /\ wctx'[v] = wctx[v]
                                     /\ wlast'[v] = wlast[v]
  BY <1>1, <1>2 DEF Working, WorkerTypes
<1>4. /\ JobsPreserved /\ HeldBuffers' = HeldBuffers
      /\ \A v \in Workers : JobOf(v)' = JobOf(v) /\ running'[v] = running[v]
  BY <1>1, QuietStep
<1>5. WorkerJob(w)
  BY <1>3, InHand
<1>6. WorkerTypes' /\ WindowTypes'
  <2>1. <<block>> \in Seq(Blocks)
    BY DEF block
  <2>2. WorkerTypes'
    BY <1>1, <1>2, <2>1 DEF WorkerTypes
  <2> QED BY <1>1, <1>2, <2>2 DEF WindowTypes, Within, Ends, serialVars
<1>7. WorkersInv' /\ JobsShared'
  <2>1. WorkerPlace(w)'
    BY <1>1, <1>2, <1>3, <1>4 DEF WorkerPlace
  <2>2. Pool!Queued' = Pool!Queued
    BY <1>1 DEF Pool!Queued, poolVars
  <2>3. WorkerJob(w)'
    BY <1>1, <1>2, <1>3, <1>4, <1>5, <2>2, MainStateKept DEF WorkerJob, Completed, LastPiece
  <2> QED BY <1>1, <1>3, <1>4, <2>1, <2>3, MovesAlone
<1>8. TurnsInv'
  <2>1. Pending' = Pending
    BY <1>1, <1>2 DEF Pending, WorkerTypes
  <2> QED BY <1>1, <1>2, <2>1 DEF TurnsInv
<1>9. ResourcesInv'
  <2>1. Holding' = Holding
    BY <1>1 DEF Holding
  <2> QED BY <1>1, <1>2, <1>4, <2>1 DEF ResourcesInv
<1>10. failures' \in 0..MaxFailures
  BY <1>1, <1>2 DEF MainTypes
<1> QED BY <1>1, <1>4, <1>6, <1>7, <1>8, <1>9, <1>10, WorkerPreserves

(* ZSTDMT_serialState_ensureFinished: a failed job passes its turn on.     *)
LEMMA EnsureFinishedPreserves ==
  ASSUME IInv, NEW w \in Workers, EnsureFinished(w)
  PROVE  IInv'
<1>1. /\ UNCHANGED mainVars /\ UNCHANGED <<mainVars, poolVars>>
      /\ UNCHANGED <<mainVars, jobs, poolVars>>
      /\ ldmState' = ldmState
      /\ bufPool' = bufPool /\ cctxPool' = cctxPool
      /\ wctx' = wctx /\ wseq' = wseq /\ wlast' = wlast /\ failures' = failures
      /\ wpc[w] = "ensure" /\ wpc' = [wpc EXCEPT ![w] = "release"]
      /\ begun' = begun
  BY DEF EnsureFinished, resourceVars, poolVars
<1>2. /\ call' = call /\ NbWorkers' = NbWorkers /\ NbWorkers \in Nat /\ w \in Nat
      /\ MaxBuffers' = MaxBuffers /\ Capacity' = Capacity /\ MaxFailures' = MaxFailures
      /\ MainTypes /\ FrameTypes /\ WorkerTypes /\ PoolTypes /\ WindowTypes
      /\ WorkerPlace(w) /\ TurnsInv /\ ResourcesInv /\ Ended' = Ended
  BY <1>1, WorkerFacts
<1>3. /\ Working(w) /\ Working(w)' /\ wpc'[w] = "release" /\ wlast'[w] = wlast[w]
      /\ wctx'[w] = wctx[w]
      /\ \A v \in Workers : v # w => /\ wpc'[v] = wpc[v] /\ wctx'[v] = wctx[v]
                                     /\ wlast'[v] = wlast[v]
  BY <1>1, <1>2 DEF Working, WorkerTypes
<1>4. /\ JobsPreserved /\ HeldBuffers' = HeldBuffers
      /\ \A v \in Workers : JobOf(v)' = JobOf(v) /\ running'[v] = running[v]
  BY <1>1, QuietStep
<1>5. WorkerJob(w)
  BY <1>3, InHand
<1>6. WorkerTypes' /\ WindowTypes'
  <2>1. WorkerTypes'
    BY <1>1, <1>2 DEF WorkerTypes
  <2>2. \/ serialNext' = JobOf(w).id + 1 /\ ldmWindow' = EmptyWindow(ldmWindow)
        \/ ldmWindow' = ldmWindow
    BY DEF EnsureFinished
  <2>3. /\ EmptyWindow(ldmWindow) \in [ext : Pieces, pre : Pieces]
        /\ Within(EmptyWindow(ldmWindow).ext) /\ Within(EmptyWindow(ldmWindow).pre)
    BY <1>2 DEF WindowTypes, EmptyWindow, Within, Pieces, Ends, Span
  <2> HIDE DEF EmptyWindow
  <2>4. WindowTypes'
    BY <1>1, <1>2, <2>2, <2>3 DEF WindowTypes, Within, Ends
  <2> QED BY <2>1, <2>4
<1>7. WorkersInv' /\ JobsShared'
  <2>1. WorkerPlace(w)'
    BY <1>1, <1>2, <1>3, <1>4 DEF WorkerPlace
  <2>2. Pool!Queued' = Pool!Queued
    BY <1>1 DEF Pool!Queued, poolVars
  <2>3. WorkerJob(w)'
    BY <1>1, <1>2, <1>3, <1>4, <1>5, <2>2, MainStateKept DEF WorkerJob, Completed
  <2> QED BY <1>1, <1>3, <1>4, <2>1, <2>3, MovesAlone
<1>8. TurnsInv'
  <2>1. Pending' = Pending /\ w \notin Pending
    BY <1>1, <1>2 DEF Pending, WorkerTypes
  <2>2. Cardinality(Pending) \in Nat /\ Cardinality(Pending) <= NbWorkers - 1
    <3>1. IsFiniteSet(Pending \cup {w}) /\ Cardinality(Pending \cup {w}) = Cardinality(Pending) + 1
          /\ Cardinality(Pending) \in Nat
      BY <2>1, SetsFinite, FS_AddElement
    <3>2. w \in 1..NbWorkers
      BY <1>1, <1>2 DEF WorkerPlace, Workers
    <3>3. Pending \cup {w} \in SUBSET (1..NbWorkers)
      BY <3>2, SetsFinite
    <3>4. IsFiniteSet(1..NbWorkers) /\ Cardinality(1..NbWorkers) = NbWorkers
      BY <1>2, WorkersFinite DEF MainTypes
    <3>5. Cardinality(Pending \cup {w}) <= NbWorkers
      BY <3>3, <3>4, FS_Subset
    <3> QED BY <1>2, <3>1, <3>5
  <2>3. CASE serialNext' = serialNext
    BY <1>1, <1>2, <2>1, <2>3 DEF TurnsInv
  <2>4. CASE serialNext' = JobOf(w).id + 1
    <3>1. JobOf(w).id = running[w] /\ running[w] \in Nat
      BY <1>3, InHand DEF Described
    <3>2. Len(queue) \in Nat /\ Len(begun) \in Nat /\ nextJobID \in Nat
      BY <1>2, LenProperties DEF PoolTypes, FrameTypes
    <3>3. running[w] + 1 <= Len(begun)
      <4>1. Len(queue) <= 1 /\ Len(queue) + Len(begun) = nextJobID
        BY DEF IInv, QueueInv
      <4>2. running[w] \in doneJobID .. nextJobID - 1 /\ running[w] \notin Pool!Queued
        BY <1>5 DEF WorkerJob
      <4>3. queue = <<>> => Len(queue) = 0
        OBVIOUS
      <4>4. queue # <<>> => running[w] # nextJobID - 1
        <5> SUFFICES ASSUME queue # <<>>
                     PROVE  running[w] # nextJobID - 1
          OBVIOUS
        <5>1. queue[1] = nextJobID - 1
          BY DEF IInv, QueueInv
        <5>2. 1 \in DOMAIN queue
          BY <1>2, EmptySeq, LenProperties DEF PoolTypes
        <5> QED BY <4>2, <5>1, <5>2 DEF Pool!Queued
      <4> QED BY <1>2, <3>1, <3>2, <4>1, <4>2, <4>3, <4>4 DEF FrameTypes
    <3> QED BY <1>1, <1>2, <2>1, <2>2, <2>4, <3>1, <3>2, <3>3 DEF TurnsInv
  <2>5. serialNext' = serialNext \/ serialNext' = JobOf(w).id + 1
    BY DEF EnsureFinished
  <2> QED BY <2>3, <2>4, <2>5
<1>9. ResourcesInv'
  <2>1. Holding' = Holding
    BY <1>1 DEF Holding
  <2> QED BY <1>1, <1>2, <1>4, <2>1 DEF ResourcesInv
<1>10. failures' \in 0..MaxFailures
  BY <1>1, <1>2 DEF MainTypes
<1> QED BY <1>1, <1>4, <1>6, <1>7, <1>8, <1>9, <1>10, WorkerPreserves

(* The context and the sequence buffer go back to their pools.             *)
LEMMA ReleaseResourcesPreserves ==
  ASSUME IInv, NEW w \in Workers, ReleaseResources(w)
  PROVE  IInv'
<1>1. /\ UNCHANGED mainVars /\ UNCHANGED <<mainVars, poolVars>>
      /\ UNCHANGED <<mainVars, jobs, poolVars>>
      /\ UNCHANGED serialVars /\ serialNext' = serialNext
      /\ bufPool' = bufPool
      /\ cctxPool' = IF wctx[w] THEN Reference!Lowest(cctxPool + 1, NbWorkers) ELSE cctxPool
      /\ wctx' = [wctx EXCEPT ![w] = FALSE]
      /\ wseq' = [wseq EXCEPT ![w] = <<>>] /\ wlast' = wlast /\ failures' = failures
      /\ wpc[w] = "release" /\ wpc' = [wpc EXCEPT ![w] = "report"]
      /\ begun' = begun
  BY DEF ReleaseResources, serialVars, poolVars
<1>2. /\ call' = call /\ NbWorkers' = NbWorkers /\ NbWorkers \in Nat /\ w \in Nat
      /\ MaxBuffers' = MaxBuffers /\ Capacity' = Capacity /\ MaxFailures' = MaxFailures
      /\ MainTypes /\ WorkerTypes /\ WindowTypes
      /\ WorkerPlace(w) /\ TurnsInv /\ ResourcesInv /\ Ended' = Ended
  BY <1>1, WorkerFacts
<1>3. /\ Working(w) /\ Working(w)' /\ wpc'[w] = "report" /\ wlast'[w] = wlast[w]
      /\ wctx'[w] = FALSE
      /\ \A v \in Workers : v # w => /\ wpc'[v] = wpc[v] /\ wctx'[v] = wctx[v]
                                     /\ wlast'[v] = wlast[v]
  BY <1>1, <1>2 DEF Working, WorkerTypes
<1>4. /\ JobsPreserved /\ HeldBuffers' = HeldBuffers
      /\ \A v \in Workers : JobOf(v)' = JobOf(v) /\ running'[v] = running[v]
  BY <1>1, QuietStep
<1>5. WorkerJob(w)
  BY <1>3, InHand
<1>6. WorkerTypes' /\ WindowTypes'
  <2>1. <<>> \in Seq(Seq(Nat))
    OBVIOUS
  <2>2. WorkerTypes'
    BY <1>1, <1>2, <2>1 DEF WorkerTypes
  <2> QED BY <1>1, <1>2, <2>2 DEF WindowTypes, Within, Ends, serialVars
<1>7. WorkersInv' /\ JobsShared'
  <2>1. WorkerPlace(w)'
    BY <1>1, <1>2, <1>3, <1>4 DEF WorkerPlace
  <2>2. Pool!Queued' = Pool!Queued
    BY <1>1 DEF Pool!Queued, poolVars
  <2>3. WorkerJob(w)'
    BY <1>1, <1>2, <1>3, <1>4, <1>5, <2>2, MainStateKept DEF WorkerJob, Completed
  <2> QED BY <1>1, <1>3, <1>4, <2>1, <2>3, MovesAlone
<1>8. TurnsInv'
  <2>1. Pending' = Pending
    BY <1>1, <1>2 DEF Pending, WorkerTypes
  <2> QED BY <1>1, <1>2, <2>1 DEF TurnsInv
<1>9. ResourcesInv'
  <2>1. cctxPool \in Nat /\ cctxPool + Cardinality(Holding) <= NbWorkers
    BY <1>2 DEF ResourcesInv
  <2>2. IsFiniteSet(Holding) /\ Cardinality(Holding) \in Nat
    BY SetsFinite
  <2>3. CASE wctx[w]
    <3>1. Holding' = Holding \ {w} /\ w \in Holding
      BY <1>1, <1>2, <2>3 DEF Holding, WorkerTypes
    <3>2. Cardinality(Holding') = Cardinality(Holding) - 1 /\ Cardinality(Holding') \in Nat
      BY <2>2, <3>1, OneLess
    <3>3. cctxPool' = cctxPool + 1
      BY <1>1, <1>2, <2>1, <2>2, <2>3, <3>2 DEF Reference!Lowest
    <3> QED BY <1>1, <1>2, <1>4, <2>1, <2>2, <3>2, <3>3 DEF ResourcesInv
  <2>4. CASE ~wctx[w]
    <3>1. Holding' = Holding
      BY <1>1, <1>2, <2>4 DEF Holding, WorkerTypes
    <3> QED BY <1>1, <1>2, <1>4, <2>4, <3>1 DEF ResourcesInv
  <2> QED BY <2>3, <2>4
<1>10. failures' \in 0..MaxFailures
  BY <1>1, <1>2 DEF MainTypes
<1> QED BY <1>1, <1>4, <1>6, <1>7, <1>8, <1>9, <1>10, WorkerPreserves

(* An interval no longer than the table has a place for each of its        *)
(* members.                                                                *)
LEMMA SlotsOfInterval ==
  ASSUME NEW H, NEW a \in Nat, NEW b \in Nat, NEW n \in Nat, b - a <= n,
         H \subseteq {Slot(k) : k \in a .. b - 1}
  PROVE  Cardinality(H) <= n
<1> DEFINE K == {k \in a .. b - 1 : Slot(k) \in H}
           g == [k \in K |-> Slot(k)]
<1>1. IsFiniteSet(a .. b - 1) /\ Cardinality(a .. b - 1) <= n
  <2>1. a \in Int /\ b - 1 \in Int
    OBVIOUS
  <2>2. /\ IsFiniteSet(a .. b - 1)
        /\ Cardinality(a .. b - 1) = IF a > b - 1 THEN 0 ELSE (b - 1) - a + 1
    BY <2>1, FS_Interval
  <2> QED BY <2>2
<1>2. IsFiniteSet(K) /\ Cardinality(K) <= Cardinality(a .. b - 1)
  BY <1>1, FS_Subset
<1>3. g \in Surjection(K, H)
  BY DEF Surjection
<1> HIDE DEF K, g
<1>4. IsFiniteSet(H) /\ Cardinality(H) <= Cardinality(K)
  BY <1>2, <1>3, FS_Surjection
<1>5. Cardinality(H) \in Nat /\ Cardinality(K) \in Nat /\ Cardinality(a .. b - 1) \in Nat
  BY <1>1, <1>2, <1>4, FS_CardinalityType
<1> QED BY <1>1, <1>2, <1>4, <1>5

(* The worker takes a context and the output and sequence buffers.         *)
LEMMA GetResourcesPreserves ==
  ASSUME IInv, NEW w \in Workers, GetResources(w)
  PROVE  IInv'
<1> DEFINE job == [JobOf(w) EXCEPT !.dst = TRUE]
<1>1. /\ UNCHANGED mainVars /\ UNCHANGED <<mainVars, poolVars>>
      /\ UNCHANGED serialVars /\ serialNext' = serialNext
      /\ bufPool' = Reference!Highest(bufPool - 1, 0)
      /\ cctxPool' = Reference!Highest(cctxPool - 1, 0)
      /\ wctx' = [wctx EXCEPT ![w] = TRUE]
      /\ wseq' = wseq /\ wlast' = wlast /\ failures' = failures
      /\ wpc[w] = "resources" /\ wpc' = [wpc EXCEPT ![w] = "serial"]
      /\ begun' = begun
      /\ jobs' = [jobs EXCEPT ![SlotOf(w)].dst = TRUE]
  BY DEF GetResources, GetCCtx, serialVars, poolVars
<1>2. /\ call' = call /\ NbWorkers' = NbWorkers /\ NbWorkers \in Nat /\ w \in Nat
      /\ MaxBuffers' = MaxBuffers /\ Capacity' = Capacity /\ MaxFailures' = MaxFailures
      /\ MainTypes /\ FrameTypes /\ JobTypes /\ WorkerTypes /\ WindowTypes
      /\ WorkerPlace(w) /\ TurnsInv /\ ResourcesInv /\ Ended' = Ended
  BY <1>1, WorkerFacts
<1>3. /\ Working(w) /\ Working(w)' /\ wpc'[w] = "serial" /\ wlast'[w] = wlast[w]
      /\ wctx'[w] = TRUE
      /\ \A v \in Workers : v # w => /\ wpc'[v] = wpc[v] /\ wctx'[v] = wctx[v]
                                     /\ wlast'[v] = wlast[v]
  BY <1>1, <1>2 DEF Working, WorkerTypes
<1>4. /\ WorkerJob(w) /\ Advanced(running[w]) /\ JobOf(w) = JobAt(running[w])
      /\ JobOf(w) \in Descriptions /\ Sized(JobOf(w)) /\ SlotOf(w) \in TableSlots
  BY <1>3, InHand
<1>5. JobWrite(w, job)
  <2>1. jobs' = [jobs EXCEPT ![SlotOf(w)] = job]
    BY <1>1 DEF JobOf
  <2>2. /\ job \in Descriptions /\ job.src = JobOf(w).src /\ job.prefix = JobOf(w).prefix
        /\ job.id = JobOf(w).id /\ job.last = JobOf(w).last /\ job.consumed = JobOf(w).consumed
        /\ job.blocks = JobOf(w).blocks /\ job.flushed = JobOf(w).flushed
        /\ job.error = JobOf(w).error /\ job.dst
    BY <1>4 DEF Descriptions
  <2> HIDE DEF job
  <2> QED BY <1>4, <2>1, <2>2 DEF JobWrite, Sized, Advanced, Completed
<1>6. /\ JobsPreserved /\ JobOf(w)' = job
      /\ \A v \in Workers : v # w /\ Working(v) => JobOf(v)' = JobOf(v)
      /\ \A v \in Workers : running'[v] = running[v]
  <2> HIDE DEF job
  <2> QED BY <1>1, <1>3, <1>5, WriteStep
<1>7. /\ job.consumed = JobOf(w).consumed /\ job.src = JobOf(w).src
      /\ job.error = JobOf(w).error /\ job.dst
  BY <1>4 DEF Descriptions
<1>8. WorkerTypes' /\ WindowTypes'
  <2>1. WorkerTypes'
    BY <1>1, <1>2 DEF WorkerTypes
  <2> QED BY <1>1, <1>2, <2>1 DEF WindowTypes, Within, Ends, serialVars
<1>9. DOMAIN jobs' = DOMAIN jobs /\ DOMAIN jobs = TableSlots
      /\ \A s \in TableSlots : jobs'[s] = IF s = SlotOf(w) THEN job ELSE jobs[s]
  <2> HIDE DEF job
  <2> QED BY <1>1, <1>2, <1>3, <1>5, WrittenJob DEF JobTypes
<1> HIDE DEF job
<1>10. WorkersInv' /\ JobsShared'
  <2>1. WorkerPlace(w)'
    BY <1>1, <1>2, <1>3, <1>6 DEF WorkerPlace
  <2>2. Pool!Queued' = Pool!Queued
    BY <1>1 DEF Pool!Queued, poolVars
  <2>3. WorkerJob(w)'
    BY <1>1, <1>2, <1>3, <1>4, <1>6, <1>7, <2>2, MainStateKept DEF WorkerJob, Completed, WorkerPlace
  <2> QED BY <1>1, <1>3, <1>6, <2>1, <2>3, MovesAlone
<1>11. TurnsInv'
  <2>1. Pending' = Pending
    BY <1>1, <1>2 DEF Pending, WorkerTypes
  <2> QED BY <1>1, <1>2, <2>1 DEF TurnsInv
<1>12. cctxPool' \in Nat /\ cctxPool' + Cardinality(Holding)' <= NbWorkers
  <2>1. Holding' = Holding \cup {w} /\ w \notin Holding /\ w \in 1..NbWorkers
    BY <1>1, <1>2 DEF Holding, WorkerTypes, WorkerPlace, Workers
  <2>2. Cardinality(Holding') = Cardinality(Holding) + 1 /\ Cardinality(Holding) \in Nat
    BY <2>1, SetsFinite, OneMore
  <2>3. Cardinality(Holding') <= NbWorkers
    <3>1. Holding' \in SUBSET (1..NbWorkers)
      BY <2>1, SetsFinite
    <3>2. IsFiniteSet(1..NbWorkers) /\ Cardinality(1..NbWorkers) = NbWorkers
      BY <1>2, WorkersFinite DEF MainTypes
    <3> QED BY <3>1, <3>2, FS_Subset
  <2>4. cctxPool \in Nat /\ cctxPool + Cardinality(Holding) <= NbWorkers
    BY <1>2 DEF ResourcesInv
  <2>5. cctxPool' = IF cctxPool - 1 > 0 THEN cctxPool - 1 ELSE 0
    BY <1>1 DEF Reference!Highest
  <2> QED BY <1>2, <2>2, <2>3, <2>4, <2>5
<1>13. bufPool' \in Nat /\ bufPool' + HeldBuffers' <= MaxBuffers
  <2> DEFINE H == {s \in DOMAIN jobs : jobs[s].dst}
  <2>1. H' = H \cup {SlotOf(w)}
    BY <1>4, <1>7, <1>9
  <2>2. HeldBuffers = Cardinality(H) /\ HeldBuffers' = Cardinality(H')
    BY DEF HeldBuffers
  <2>3. IsFiniteSet(H) /\ HeldBuffers \in Nat
    BY SetsFinite
  <2>4. HeldBuffers' = HeldBuffers \/ HeldBuffers' = HeldBuffers + 1
    <3> HIDE DEF H
    <3> QED BY <2>1, <2>2, <2>3, FS_AddElement
  <2>5. HeldBuffers' <= MaxBuffers
    <3>1. PICK from \in 0..doneJobID : HeldFrom(from)'
      BY <1>6 DEF IInv, HeldInv, JobsPreserved
    <3>2. from \in Nat /\ Prepared \in Nat /\ MaxBuffers \in Nat
      BY <1>2, PreparedJobs, Sizes DEF FrameTypes, MainTypes
    <3>3. Prepared' = Prepared /\ (\A k : Slot(k)' = Slot(k)) /\ TableSlots' = TableSlots
      BY <1>1, <1>2, MainStateKept, CallKept
    <3>4. Prepared - from <= MaxBuffers
      BY <1>2, <3>1, <3>3 DEF HeldFrom
    <3>5. \A h \in H' : \E k \in from .. Prepared - 1 : h = Slot(k)
      BY <1>9, <3>1, <3>3 DEF HeldFrom
    <3> DEFINE K == H'
               b == Prepared
               n == MaxBuffers
    <3>8. /\ b \in Nat /\ n \in Nat /\ b - from <= n
          /\ K \subseteq {Slot(k) : k \in from .. b - 1}
      BY <3>2, <3>4, <3>5
    <3> HIDE DEF H, K, b, n
    <3>9. Cardinality(K) <= n
      BY <3>2, <3>8, SlotsOfInterval
    <3> QED BY <2>2, <3>9 DEF K, n
  <2>6. bufPool \in Nat /\ bufPool + HeldBuffers <= MaxBuffers /\ MaxBuffers \in Nat
    BY <1>2, Sizes DEF ResourcesInv, MainTypes
  <2>7. bufPool' = IF bufPool - 1 > 0 THEN bufPool - 1 ELSE 0
    BY <1>1 DEF Reference!Highest
  <2> QED BY <2>3, <2>4, <2>5, <2>6, <2>7
<1>14. ResourcesInv'
  BY <1>2, <1>12, <1>13 DEF ResourcesInv
<1>15. failures' \in 0..MaxFailures
  BY <1>1, <1>2 DEF MainTypes
<1> QED BY <1>1, <1>6, <1>8, <1>10, <1>11, <1>14, <1>15, WorkerPreserves

(* A worker without a context yet takes one.                               *)
LEMMA ContextTaken ==
  ASSUME IInv, NEW w \in Workers, call' = call, wpc[w] = "resources", GetCCtx(w)
  PROVE  cctxPool' \in Nat /\ cctxPool' + Cardinality(Holding)' <= NbWorkers
<1>1. /\ MainTypes /\ WorkerTypes /\ WorkerPlace(w) /\ ResourcesInv
      /\ NbWorkers \in Nat /\ w \in Nat
  <2>1. MainTypes
    BY DEF IInv, Types
  <2>2. NbWorkers \in Nat /\ w \in Nat
    BY <2>1, CallFacts DEF MainTypes, Workers
  <2> QED BY <2>1, <2>2 DEF IInv, Types, WorkersInv
<1>2. /\ wctx' = [wctx EXCEPT ![w] = TRUE]
      /\ cctxPool' = Reference!Highest(cctxPool - 1, 0)
  BY DEF GetCCtx
<1>3. Holding' = Holding \cup {w} /\ w \notin Holding /\ w \in 1..NbWorkers
  BY <1>1, <1>2 DEF Holding, WorkerTypes, WorkerPlace, Workers
<1>4. Cardinality(Holding') = Cardinality(Holding) + 1 /\ Cardinality(Holding) \in Nat
  BY <1>3, SetsFinite, OneMore
<1>5. Cardinality(Holding') <= NbWorkers
  <2>1. Holding' \in SUBSET (1..NbWorkers)
    BY <1>3, SetsFinite
  <2>2. IsFiniteSet(1..NbWorkers) /\ Cardinality(1..NbWorkers) = NbWorkers
    BY <1>1, WorkersFinite DEF MainTypes
  <2> QED BY <2>1, <2>2, FS_Subset
<1>6. cctxPool \in Nat /\ cctxPool + Cardinality(Holding) <= NbWorkers
  BY <1>1 DEF ResourcesInv
<1>7. cctxPool' = IF cctxPool - 1 > 0 THEN cctxPool - 1 ELSE 0
  BY <1>2 DEF Reference!Highest
<1> QED BY <1>1, <1>4, <1>5, <1>6, <1>7

(* What a write that leaves the buffers alone means for their number.      *)
LEMMA HeldAlike ==
  ASSUME IInv, NEW w \in Workers, Working(w), UNCHANGED mainVars,
         NEW job, JobWrite(w, job), job.dst = JobOf(w).dst
  PROVE  HeldBuffers' = HeldBuffers
<1>1. DOMAIN jobs' = DOMAIN jobs /\ DOMAIN jobs = TableSlots
      /\ \A s \in TableSlots : jobs'[s] = IF s = SlotOf(w) THEN job ELSE jobs[s]
  BY WrittenJob DEF IInv, Types, JobTypes
<1>2. \A s \in TableSlots : jobs'[s].dst = jobs[s].dst
  BY <1>1 DEF JobOf
<1>3. {s \in DOMAIN jobs : jobs[s].dst}' = {s \in DOMAIN jobs : jobs[s].dst}
  BY <1>1, <1>2
<1> QED BY <1>3 DEF HeldBuffers

(* JOB_ERROR: the job is marked failed and the worker goes to its end.     *)
LEMMA ErrorPreserves ==
  ASSUME IInv, NEW w \in Workers, wpc[w] \in {"resources", "compress"}, JOB_ERROR(w),
         UNCHANGED <<mainVars, serialVars, bufPool, wseq, wlast, poolVars>>,
         \/ wpc[w] = "resources" /\ GetCCtx(w)
         \/ UNCHANGED <<wctx, cctxPool>>
  PROVE  IInv'
<1> DEFINE job == [JobOf(w) EXCEPT !.error = TRUE]
<1>1. /\ UNCHANGED mainVars /\ UNCHANGED <<mainVars, poolVars>>
      /\ UNCHANGED serialVars /\ serialNext' = serialNext
      /\ bufPool' = bufPool
      /\ wseq' = wseq /\ wlast' = wlast
      /\ failures' = failures + 1 /\ failures < MaxFailures
      /\ wpc' = [wpc EXCEPT ![w] = "ensure"]
      /\ begun' = begun
      /\ jobs' = [jobs EXCEPT ![SlotOf(w)].error = TRUE]
  BY DEF JOB_ERROR, CountFailure, MayFail, serialVars, poolVars
<1>2. /\ call' = call /\ NbWorkers' = NbWorkers /\ NbWorkers \in Nat /\ w \in Nat
      /\ MaxBuffers' = MaxBuffers /\ Capacity' = Capacity /\ MaxFailures' = MaxFailures
      /\ MainTypes /\ FrameTypes /\ JobTypes /\ WorkerTypes /\ WindowTypes
      /\ WorkerPlace(w) /\ TurnsInv /\ ResourcesInv /\ Ended' = Ended
  BY <1>1, WorkerFacts
<1>13. wctx' \in [Workers -> BOOLEAN] /\ \A v \in Workers : v # w => wctx'[v] = wctx[v]
  BY <1>2 DEF WorkerTypes, GetCCtx
<1>3. /\ Working(w) /\ Working(w)' /\ wpc'[w] = "ensure" /\ wlast'[w] = wlast[w]
      /\ \A v \in Workers : v # w => /\ wpc'[v] = wpc[v] /\ wctx'[v] = wctx[v]
                                     /\ wlast'[v] = wlast[v]
  BY <1>1, <1>2, <1>13 DEF Working, WorkerTypes
<1>4. /\ WorkerJob(w) /\ Advanced(running[w]) /\ JobOf(w) = JobAt(running[w])
      /\ JobOf(w) \in Descriptions /\ Sized(JobOf(w)) /\ SlotOf(w) \in TableSlots
      /\ ~Completed(JobOf(w))
  BY <1>3, InHand
<1>7. /\ job \in Descriptions /\ job.src = JobOf(w).src /\ job.prefix = JobOf(w).prefix
      /\ job.id = JobOf(w).id /\ job.last = JobOf(w).last /\ job.consumed = JobOf(w).consumed
      /\ job.blocks = JobOf(w).blocks /\ job.flushed = JobOf(w).flushed
      /\ job.error = TRUE /\ job.dst = JobOf(w).dst
  BY <1>4 DEF Descriptions
<1>5. JobWrite(w, job)
  <2>1. jobs' = [jobs EXCEPT ![SlotOf(w)] = job]
    BY <1>1 DEF JobOf
  <2> HIDE DEF job
  <2> QED BY <1>4, <1>7, <2>1 DEF JobWrite, Sized, Advanced, Completed
<1> HIDE DEF job
<1>6. /\ JobsPreserved /\ JobOf(w)' = job /\ HeldBuffers' = HeldBuffers
      /\ \A v \in Workers : v # w /\ Working(v) => JobOf(v)' = JobOf(v)
      /\ \A v \in Workers : running'[v] = running[v]
  BY <1>1, <1>3, <1>5, <1>7, WriteStep, HeldAlike
<1>8. WorkerTypes' /\ WindowTypes'
  <2>1. WorkerTypes'
    BY <1>1, <1>2, <1>13 DEF WorkerTypes
  <2> QED BY <1>1, <1>2, <2>1 DEF WindowTypes, Within, Ends, serialVars
<1>10. WorkersInv' /\ JobsShared'
  <2>1. WorkerPlace(w)'
    BY <1>1, <1>2, <1>3, <1>6 DEF WorkerPlace
  <2>2. Pool!Queued' = Pool!Queued
    BY <1>1 DEF Pool!Queued, poolVars
  <2>3. wlast[w] = <<>>
    BY <1>2 DEF WorkerPlace
  <2>4. WorkerJob(w)'
    BY <1>1, <1>2, <1>3, <1>4, <1>6, <1>7, <2>2, <2>3, MainStateKept DEF WorkerJob, Completed
  <2> QED BY <1>1, <1>3, <1>6, <2>1, <2>4, MovesAlone
<1>11. TurnsInv'
  <2>1. Pending' = Pending \ {w}
    BY <1>1, <1>2 DEF Pending, WorkerTypes
  <2>2. IsFiniteSet(Pending) /\ Cardinality(Pending) \in Nat
    BY SetsFinite
  <2>3. Cardinality(Pending') \in Nat /\ Cardinality(Pending') <= Cardinality(Pending)
    BY <2>1, <2>2, FS_Subset, FS_CardinalityType
  <2>4. Len(begun) \in Nat
    BY LenProperties DEF IInv, Types, PoolTypes
  <2> QED BY <1>1, <1>2, <2>2, <2>3, <2>4 DEF TurnsInv
<1>14. ResourcesInv'
  <2>1. CASE wpc[w] = "resources" /\ GetCCtx(w)
    <3>1. cctxPool' \in Nat /\ cctxPool' + Cardinality(Holding)' <= NbWorkers
      BY <1>2, <2>1, ContextTaken
    <3> QED BY <1>1, <1>2, <1>6, <3>1 DEF ResourcesInv
  <2>2. CASE UNCHANGED <<wctx, cctxPool>>
    BY <1>1, <1>2, <1>6, <2>2 DEF ResourcesInv, Holding
  <2> QED BY <2>1, <2>2
<1>15. failures' \in 0..MaxFailures
  BY <1>1, <1>2, CallFacts DEF MainTypes
<1> QED BY <1>1, <1>6, <1>8, <1>10, <1>11, <1>14, <1>15, WorkerPreserves

(* Every step that may fail is such an error.                              *)
LEMMA FailingPreserves ==
  ASSUME IInv, NEW w \in Workers, NoResources(w) \/ CompressFails(w)
  PROVE  IInv'
<1>1. CASE NoResources(w)
  BY <1>1, ErrorPreserves DEF NoResources
<1>2. CASE CompressFails(w)
  BY <1>2, ErrorPreserves DEF CompressFails, resourceVars
<1> QED BY <1>1, <1>2

-----------------------------------------------------------------------------
(* Pieces of the round buffer, and blocks.                                 *)

(* The content of a piece of the round buffer is a sequence of units.      *)
LEMMA ContentsSeq ==
  ASSUME MainTypes, BufferTypes, NEW r, Within(r)
  PROVE  Contents(roundBuff, r) \in Seq(Nat) /\ Len(Contents(roundBuff, r)) = r.size
<1> DEFINE n == r.size
           f == [i \in 1..n |-> roundBuff[r.start + i - 1]]
<1>1. n \in Nat /\ r.start \in Nat /\ r.start + n <= Capacity /\ Capacity \in Nat
      /\ Total \in Nat
  BY CallFacts, Sizes DEF Within, Pieces, Ends, MainTypes
<1>2. \A i \in 1..n : r.start + i - 1 \in Cells
  BY <1>1 DEF Cells
<1>3. \A i \in 1..n : roundBuff[r.start + i - 1] \in Nat
  BY <1>1, <1>2 DEF BufferTypes
<1> HIDE DEF n
<1>4. f \in [1..n -> Nat]
  BY <1>3
<1>5. f \in Seq(Nat) /\ DOMAIN f = 1..n
  BY <1>1, <1>4, SeqDef
<1>6. Len(f) = n
  BY <1>1, <1>5, LenProperties
<1> QED BY <1>5, <1>6 DEF Contents, n

(* A block is made of such sequences.                                      *)
LEMMA CompressedBlock ==
  ASSUME IInv, NEW w \in Workers, Working(w), NEW c \in Nat, c <= JobOf(w).src.size
  PROVE  Compressed(w, c) \in Blocks
<1>1. MainTypes /\ BufferTypes /\ WorkerTypes
  BY DEF IInv, Types
<1>2. JobOf(w) \in Descriptions /\ Sized(JobOf(w))
  BY InHand
<1>3. Within(JobOf(w).prefix) /\ Within(Span(JobOf(w).src.start, c))
  BY <1>1, <1>2, Sizes DEF Sized, Within, Span, Ends, Pieces, MainTypes
<1>4. /\ Contents(roundBuff, JobOf(w).prefix) \in Seq(Nat)
      /\ Contents(roundBuff, Span(JobOf(w).src.start, c)) \in Seq(Nat)
  BY <1>1, <1>3, ContentsSeq
<1>5. wseq[w] \in Seq(Seq(Nat)) /\ JobOf(w).last \in BOOLEAN
  BY <1>1, <1>2 DEF WorkerTypes, Descriptions
<1> QED BY <1>4, <1>5 DEF Compressed, Blocks

(* The last block also carries well-formed content.                        *)
LEMMA CompressLastKeeps ==
  ASSUME IInv, NEW w \in Workers, CompressLast(w)
  PROVE  IInv'
<1>1. Working(w)
  BY DEF CompressLast, Working
<1>2. JobOf(w).src.size \in Nat
  BY <1>1, InHand DEF Descriptions, Pieces
<1>3. JobOf(w).src.size <= JobOf(w).src.size
  BY <1>2
<1> QED BY <1>1, <1>2, <1>3, CompressedBlock, CompressLastPreserves

(* One chunk of the section is compressed.                                 *)
LEMMA CompressPiecePreserves ==
  ASSUME IInv, NEW w \in Workers, CompressPiece(w)
  PROVE  IInv'
<1> DEFINE old == JobOf(w)
           c == old.consumed + 1
           block == Compressed(w, c)
           job == [old EXCEPT !.consumed = c, !.blocks = Append(@, block)]
<1>1. /\ UNCHANGED mainVars /\ UNCHANGED <<mainVars, poolVars>>
      /\ UNCHANGED serialVars /\ serialNext' = serialNext
      /\ bufPool' = bufPool /\ cctxPool' = cctxPool
      /\ wpc' = wpc /\ wctx' = wctx /\ wseq' = wseq /\ wlast' = wlast
      /\ failures' = failures
      /\ wpc[w] = "compress" /\ ~LastPiece(w)
      /\ begun' = begun
      /\ jobs' = [jobs EXCEPT ![SlotOf(w)].consumed = c,
                              ![SlotOf(w)].blocks = Append(@, block)]
  BY DEF CompressPiece, serialVars, resourceVars, poolVars, workerVars
<1>2. /\ call' = call /\ NbWorkers' = NbWorkers /\ NbWorkers \in Nat /\ w \in Nat
      /\ MaxBuffers' = MaxBuffers /\ Capacity' = Capacity /\ MaxFailures' = MaxFailures
      /\ MainTypes /\ FrameTypes /\ JobTypes /\ WorkerTypes /\ WindowTypes
      /\ WorkerPlace(w) /\ TurnsInv /\ ResourcesInv /\ Ended' = Ended
  BY <1>1, WorkerFacts
<1>3. Working(w) /\ wlast[w] = <<>>
  BY <1>1, <1>2 DEF Working, WorkerPlace
<1>4. /\ WorkerJob(w) /\ Advanced(running[w]) /\ JobOf(w) = JobAt(running[w])
      /\ old \in Descriptions /\ Sized(old) /\ SlotOf(w) \in TableSlots
      /\ ~Completed(old)
  BY <1>3, InHand
<1>5. /\ c \in Nat /\ c < old.src.size /\ old.consumed \in Nat /\ old.blocks \in Seq(Blocks)
      /\ Len(old.blocks) <= old.consumed /\ old.src.size \in Nat
  BY <1>1, <1>4 DEF Descriptions, Sized, Completed, LastPiece, Pieces
<1>6. block \in Blocks
  BY <1>3, <1>5, CompressedBlock
<1> HIDE DEF block
<1>7. /\ Append(old.blocks, block) \in Seq(Blocks)
      /\ Len(old.blocks) \in Nat /\ Len(Append(old.blocks, block)) = Len(old.blocks) + 1
      /\ Append(old.blocks, block) # <<>>
  BY <1>5, <1>6, AppendProperties, LenProperties
<1>8. /\ job \in Descriptions /\ job.src = old.src /\ job.prefix = old.prefix
      /\ job.id = old.id /\ job.last = old.last /\ job.consumed = c
      /\ job.blocks = Append(old.blocks, block) /\ job.flushed = old.flushed
      /\ job.error = old.error /\ job.dst = old.dst
  <2> DEFINE d == old
             k == c
             b == Append(old.blocks, block)
  <2>1. d \in Descriptions /\ k \in Nat /\ b \in Seq(Blocks)
    BY <1>4, <1>5, <1>7
  <2>2. job = [d EXCEPT !.consumed = k, !.blocks = b]
    BY <1>4 DEF Descriptions
  <2> HIDE DEF d, k, b, job
  <2>3. job \in Descriptions /\ job.src = d.src /\ job.prefix = d.prefix
        /\ job.id = d.id /\ job.last = d.last /\ job.consumed = k
        /\ job.blocks = b /\ job.flushed = d.flushed /\ job.error = d.error
        /\ job.dst = d.dst
    BY <2>1, <2>2 DEF Descriptions
  <2> QED BY <2>3 DEF d, k, b
<1>9. jobs' = [jobs EXCEPT ![SlotOf(w)] = job]
  <2>1. old = jobs[SlotOf(w)]
    BY DEF JobOf
  <2> QED BY <1>1, <1>2, <1>4, <2>1 DEF JobTypes, Descriptions
<1>10. old.dst
  BY <1>1, <1>4 DEF WorkerJob
<1>11. Len(old.blocks) \in Nat /\ old.flushed \in Nat /\ old.flushed <= Len(old.blocks)
  BY <1>4, <1>5, LenProperties DEF Advanced, Descriptions
<1>12. JobWrite(w, job)
  <2>1. Sized(job)
    BY <1>4, <1>5, <1>7, <1>8 DEF Sized
  <2>2. job.flushed <= Len(job.blocks) /\ ~Completed(job)
    BY <1>5, <1>7, <1>8, <1>11 DEF Completed
  <2> HIDE DEF old, job
  <2> QED BY <1>8, <1>9, <1>10, <2>1, <2>2 DEF JobWrite, old
<1>13. job.consumed < job.src.size /\ job.consumed \in Nat /\ job.src.size \in Nat
  BY <1>5, <1>8
<1> HIDE DEF job
<1>14. /\ JobsPreserved /\ JobOf(w)' = job /\ HeldBuffers' = HeldBuffers
       /\ \A v \in Workers : v # w /\ Working(v) => JobOf(v)' = JobOf(v)
       /\ \A v \in Workers : running'[v] = running[v]
  BY <1>1, <1>3, <1>8, <1>12, WriteStep, HeldAlike
<1>15. WorkerTypes' /\ WindowTypes'
  <2>1. WorkerTypes'
    BY <1>1, <1>2 DEF WorkerTypes
  <2> QED BY <1>1, <1>2, <2>1 DEF WindowTypes, Within, Ends, serialVars
<1>16. WorkersInv' /\ JobsShared'
  <2>1. WorkerPlace(w)'
    BY <1>1, <1>2, <1>14 DEF WorkerPlace
  <2>2. Pool!Queued' = Pool!Queued
    BY <1>1 DEF Pool!Queued, poolVars
  <2>4. WorkerJob(w)'
    BY <1>1, <1>2, <1>3, <1>4, <1>8, <1>13, <1>14, <2>2, MainStateKept
       DEF WorkerJob, Completed
  <2> QED BY <1>1, <1>3, <1>14, <2>1, <2>4, MovesAlone
<1>17. TurnsInv'
  <2>1. Pending' = Pending
    BY <1>1 DEF Pending
  <2> QED BY <1>1, <1>2, <2>1 DEF TurnsInv
<1>18. ResourcesInv'
  BY <1>1, <1>2, <1>14 DEF ResourcesInv, Holding
<1>19. failures' \in 0..MaxFailures
  BY <1>1, <1>2 DEF MainTypes
<1> QED BY <1>1, <1>14, <1>15, <1>16, <1>17, <1>18, <1>19, WorkerPreserves

(* _endJob: the worker reports its section consumed.                       *)
LEMMA ReportPreserves ==
  ASSUME IInv, NEW w \in Workers, Report(w)
  PROVE  IInv'
<1> DEFINE old == JobOf(w)
           c == old.src.size
           last == wlast[w]
           job == [old EXCEPT !.consumed = c, !.blocks = @ \o last]
<1>1. /\ UNCHANGED mainVars /\ UNCHANGED <<mainVars, poolVars>>
      /\ UNCHANGED serialVars /\ serialNext' = serialNext
      /\ bufPool' = bufPool /\ cctxPool' = cctxPool
      /\ wctx' = wctx /\ wseq' = wseq /\ wlast' = [wlast EXCEPT ![w] = <<>>]
      /\ failures' = failures
      /\ wpc[w] = "report" /\ wpc' = [wpc EXCEPT ![w] = "end"]
      /\ begun' = begun
      /\ jobs' = [jobs EXCEPT ![SlotOf(w)].consumed = c,
                              ![SlotOf(w)].blocks = @ \o last]
  BY DEF Report, serialVars, resourceVars, poolVars
<1>2. /\ call' = call /\ NbWorkers' = NbWorkers /\ NbWorkers \in Nat /\ w \in Nat
      /\ MaxBuffers' = MaxBuffers /\ Capacity' = Capacity /\ MaxFailures' = MaxFailures
      /\ MainTypes /\ FrameTypes /\ JobTypes /\ WorkerTypes /\ WindowTypes
      /\ WorkerPlace(w) /\ TurnsInv /\ ResourcesInv /\ Ended' = Ended
  BY <1>1, WorkerFacts
<1>3. /\ Working(w) /\ ~Working(w)' /\ wpc'[w] = "end" /\ wlast'[w] = <<>>
      /\ \A v \in Workers : v # w => /\ wpc'[v] = wpc[v] /\ wctx'[v] = wctx[v]
                                     /\ wlast'[v] = wlast[v]
  BY <1>1, <1>2 DEF Working, WorkerTypes
<1>4. /\ WorkerJob(w) /\ Advanced(running[w]) /\ JobOf(w) = JobAt(running[w])
      /\ old \in Descriptions /\ Sized(old) /\ SlotOf(w) \in TableSlots
      /\ ~Completed(old)
  BY <1>3, InHand
<1>5. /\ c \in Nat /\ old.consumed \in Nat /\ old.consumed <= c
      /\ old.blocks \in Seq(Blocks) /\ last \in Seq(Blocks)
      /\ Len(old.blocks) \in Nat /\ Len(old.blocks) <= old.consumed
      /\ old.flushed \in Nat /\ old.flushed <= Len(old.blocks)
  BY <1>2, <1>4, LenProperties DEF Descriptions, Sized, Pieces, Advanced, WorkerTypes
<1>6. \/ last = <<>> /\ Len(last) = 0 /\ old.error
      \/ last # <<>> /\ Len(last) = 1 /\ old.consumed + 1 = c /\ old.dst
  BY <1>1, <1>2, <1>4 DEF WorkerJob, WorkerPlace
<1>7. /\ old.blocks \o last \in Seq(Blocks)
      /\ Len(old.blocks \o last) = Len(old.blocks) + Len(last)
  BY <1>5, ConcatProperties
<1>20. /\ old.blocks \o last # <<>> => old.dst
       /\ ~old.error => old.blocks \o last # <<>>
  <2>1. old.blocks # <<>> => old.dst
    BY <1>4 DEF Advanced
  <2>2. last = <<>> => old.blocks \o last = old.blocks
    BY <1>5, ConcatEmptySeq
  <2>3. last # <<>> => old.blocks \o last # <<>>
    BY <1>5, ConcatEqualIffEmpty
  <2> QED BY <1>6, <2>1, <2>2, <2>3
<1>8. /\ job \in Descriptions /\ job.src = old.src /\ job.prefix = old.prefix
      /\ job.id = old.id /\ job.last = old.last /\ job.consumed = c
      /\ job.blocks = old.blocks \o last /\ job.flushed = old.flushed
      /\ job.error = old.error /\ job.dst = old.dst
  <2> DEFINE d == old
             k == c
             b == old.blocks \o last
  <2>1. d \in Descriptions /\ k \in Nat /\ b \in Seq(Blocks)
    BY <1>4, <1>5, <1>7
  <2>2. job = [d EXCEPT !.consumed = k, !.blocks = b]
    BY <1>4 DEF Descriptions
  <2> HIDE DEF d, k, b, job
  <2>3. job \in Descriptions /\ job.src = d.src /\ job.prefix = d.prefix
        /\ job.id = d.id /\ job.last = d.last /\ job.consumed = k
        /\ job.blocks = b /\ job.flushed = d.flushed /\ job.error = d.error
        /\ job.dst = d.dst
    BY <2>1, <2>2 DEF Descriptions
  <2> QED BY <2>3 DEF d, k, b
<1>9. jobs' = [jobs EXCEPT ![SlotOf(w)] = job]
  <2>1. old = jobs[SlotOf(w)]
    BY DEF JobOf
  <2> QED BY <1>1, <1>2, <1>4, <2>1 DEF JobTypes, Descriptions
<1>12. JobWrite(w, job)
  <2>1. Len(old.blocks \o last) <= c /\ old.flushed <= Len(old.blocks \o last)
    <3> DEFINE n == Len(old.blocks)
               m == Len(last)
               t == Len(old.blocks \o last)
               k == old.consumed
               f == old.flushed
    <3>1. /\ c \in Nat /\ k \in Nat /\ n \in Nat /\ f \in Nat
          /\ k <= c /\ n <= k /\ f <= n
      BY <1>5
    <3>3. t = n + m
      BY <1>7
    <3>4. m = 0 \/ (m = 1 /\ k + 1 = c)
      BY <1>6
    <3> HIDE DEF c, n, m, t, k, f
    <3>2. t <= c /\ f <= t
      BY <3>1, <3>3, <3>4
    <3> QED BY <3>2 DEF t, f
  <2> HIDE DEF old, job, last
  <2>2. Sized(job)
    BY <1>4, <1>5, <1>8, <2>1 DEF Sized
  <2> QED BY <1>8, <1>9, <1>20, <2>1, <2>2 DEF JobWrite, old
<1> HIDE DEF job
<1>14. /\ JobsPreserved /\ HeldBuffers' = HeldBuffers
       /\ \A v \in Workers : v # w /\ Working(v) => JobOf(v)' = JobOf(v)
       /\ \A v \in Workers : running'[v] = running[v]
  BY <1>1, <1>3, <1>8, <1>12, WriteStep, HeldAlike
<1>15. WorkerTypes' /\ WindowTypes'
  <2>1. <<>> \in Seq(Blocks)
    OBVIOUS
  <2>2. WorkerTypes'
    BY <1>1, <1>2, <2>1 DEF WorkerTypes
  <2> QED BY <1>1, <1>2, <2>2 DEF WindowTypes, Within, Ends, serialVars
<1>16. WorkersInv' /\ JobsShared'
  <2>1. WorkerPlace(w)'
    BY <1>1, <1>2, <1>3, <1>14 DEF WorkerPlace
  <2> QED BY <1>1, <1>3, <1>14, <2>1, MovesAlone
<1>17. TurnsInv'
  <2>1. Pending' = Pending
    BY <1>1, <1>2 DEF Pending, WorkerTypes
  <2> QED BY <1>1, <1>2, <2>1 DEF TurnsInv
<1>18. ResourcesInv'
  BY <1>1, <1>2, <1>14 DEF ResourcesInv, Holding
<1>19. failures' \in 0..MaxFailures
  BY <1>1, <1>2 DEF MainTypes
<1> QED BY <1>1, <1>14, <1>15, <1>16, <1>17, <1>18, <1>19, WorkerPreserves

-----------------------------------------------------------------------------
(* The window of long distance matching stays within the round buffer.     *)

Window(x) == x \in [ext : Pieces, pre : Pieces] /\ Within(x.ext) /\ Within(x.pre)

(* ZSTD_window_update: the window takes in a section of the round buffer.  *)
LEMMA WindowTakesIn ==
  ASSUME MainTypes, NEW x, Window(x), NEW src, Within(src)
  PROVE  Window(WindowWith(x, src)) /\ src.size <= WindowWith(x, src).pre.size
<1> DEFINE moved == src.start # Ends(x.pre)
           ext == IF moved THEN x.pre ELSE x.ext
           cut == IF isOverlapped(src, ext) THEN Reference!Lowest(Ends(ext), Ends(src))
                  ELSE ext.start
           pre == IF moved THEN src ELSE Span(x.pre.start, x.pre.size + src.size)
<1>1. Within(x.ext) /\ Within(x.pre) /\ Capacity \in Nat
  BY Sizes DEF Window, MainTypes
<1>2. Within(ext) /\ Within(src)
  BY <1>1
<1>3. Within(pre) /\ src.size <= pre.size
  BY <1>1 DEF Within, Pieces, Ends, Span
<1>4. cut \in Nat /\ cut <= Ends(ext)
  <2>1. /\ ext.start \in Nat /\ ext.size \in Nat /\ Ends(ext) = ext.start + ext.size
        /\ Ends(src) \in Nat
    BY <1>2 DEF Within, Pieces, Ends
  <2> HIDE DEF ext
  <2> QED BY <2>1 DEF Reference!Lowest
<1>5. Within(Span(cut, Ends(ext) - cut))
  <2>1. Ends(ext) \in Nat /\ Ends(ext) <= Capacity
    BY <1>2 DEF Within, Pieces, Ends
  <2> HIDE DEF cut, ext
  <2> QED BY <1>4, <2>1 DEF Within, Pieces, Span, Ends
<1>6. WindowWith(x, src) = [ext |-> Span(cut, Ends(ext) - cut), pre |-> pre]
  BY DEF WindowWith
<1> HIDE DEF cut, ext, pre
<1> QED BY <1>3, <1>5, <1>6 DEF Window, Within

(* ZSTD_window_enforceMaxDist: the window only loses its oldest part.      *)
LEMMA WindowEnforced ==
  ASSUME MainTypes, NEW x, Window(x), NEW after \in Nat, after <= x.pre.size
  PROVE  Window(Enforced(x, after)) /\ after <= Enforced(x, after).pre.size
<1> DEFINE e == x.ext.size
           p == x.pre.size
           l == LdmWindow
           excess == Reference!Highest(0, e + p - after - l)
           fromExt == Reference!Lowest(excess, e)
           fromPre == excess - fromExt
<1>1. /\ e \in Nat /\ p \in Nat /\ x.ext.start \in Nat /\ x.pre.start \in Nat
      /\ x.ext.start + e <= Capacity /\ x.pre.start + p <= Capacity
      /\ l \in Nat /\ Capacity \in Nat
  BY Sizes, CallFacts DEF Window, Within, Pieces, Ends, MainTypes
<1>2. Enforced(x, after) =
        [ext |-> Span(x.ext.start + fromExt, e - fromExt),
         pre |-> Span(x.pre.start + fromPre, p - fromPre)]
  BY DEF Enforced
<1>3. after <= p
  OBVIOUS
<1> HIDE DEF e, p, l
<1>4. /\ fromExt \in Nat /\ fromPre \in Nat /\ fromExt <= e /\ fromPre <= p
      /\ after <= p - fromPre
  BY <1>1, <1>3 DEF Reference!Highest, Reference!Lowest
<1> HIDE DEF fromExt, fromPre
<1>5. Within(Span(x.ext.start + fromExt, e - fromExt))
  BY <1>1, <1>4 DEF Within, Pieces, Span, Ends
<1>6. Within(Span(x.pre.start + fromPre, p - fromPre))
  BY <1>1, <1>4 DEF Within, Pieces, Span, Ends
<1> QED BY <1>2, <1>4, <1>5, <1>6 DEF Window, Within, Span

(* What the matcher sees through the window is a sequence of units.        *)
LEMMA SeenSeq ==
  ASSUME MainTypes, BufferTypes, NEW x, Window(x), NEW after \in Nat,
         after <= x.pre.size
  PROVE  SeenAt(x, after) \in Seq(Nat)
<1> DEFINE r == [x.pre EXCEPT !.size = @ - after]
<1>1. Within(r) /\ Within(x.ext)
  <2> DEFINE p == x.pre
  <2>1. p \in Pieces /\ Ends(p) <= Capacity /\ after <= p.size /\ Capacity \in Nat
    BY Sizes DEF Window, Within, MainTypes
  <2>2. r = [p EXCEPT !.size = @ - after]
    OBVIOUS
  <2> HIDE DEF p, r
  <2>3. r \in Pieces /\ r.start = p.start /\ r.size = p.size - after
    BY <2>1, <2>2 DEF Pieces
  <2>4. Within(r)
    BY <2>1, <2>3 DEF Within, Pieces, Ends
  <2> QED BY <2>4 DEF Window
<1> HIDE DEF r
<1>2. Contents(roundBuff, x.ext) \in Seq(Nat) /\ Contents(roundBuff, r) \in Seq(Nat)
  BY <1>1, ContentsSeq
<1> QED BY <1>2, ConcatProperties DEF SeenAt, r

(* ZSTDMT_serialState_genSequences keeps the window in the round buffer.   *)
LEMMA SerialStepTypes ==
  ASSUME IInv, NEW w \in Workers, Working(w), SerialStep(w)
  PROVE  /\ wseq' \in [Workers -> Seq(Seq(Nat))]
         /\ Window(ldmState') /\ Window(ldmWindow')
<1> DEFINE src == JobOf(w).src
           full == WindowWith(ldmState, src)
           At(c) == Enforced(full, src.size - c)
           n == src.size
           seen == [c \in 1..n |-> SeenAt(At(c), n - c)]
<1>1. MainTypes /\ BufferTypes /\ WorkerTypes /\ Window(ldmState)
  BY DEF IInv, Types, WindowTypes, Window
<1>2. Within(src) /\ n \in Nat
  BY InHand DEF Sized, Within, Pieces
<1>3. /\ wseq' = [wseq EXCEPT ![w] = seen]
      /\ ldmState' = At(n) /\ ldmWindow' = At(n)
  BY DEF SerialStep
<1> HIDE DEF src
<1>4. Window(full) /\ n <= full.pre.size
  BY <1>1, <1>2, WindowTakesIn
<1> HIDE DEF full
<1>5. full.pre.size \in Nat
  BY <1>4 DEF Window, Pieces
<1> HIDE DEF n
<1>6. ASSUME NEW c \in 0..n
      PROVE  n - c \in Nat /\ Window(Enforced(full, n - c))
             /\ n - c <= Enforced(full, n - c).pre.size
  <2>1. n - c \in Nat /\ n - c <= full.pre.size
    BY <1>2, <1>4, <1>5
  <2> QED BY <1>1, <1>4, <2>1, WindowEnforced
<1>7. At(n) = Enforced(full, n - n)
  BY DEF n
<1>8. Window(At(n))
  <2>1. n \in 0..n
    BY <1>2
  <2>2. Window(Enforced(full, n - n))
    BY <1>6, <2>1
  <2> QED BY <1>7, <2>2
<1>9. \A c \in 1..n : SeenAt(At(c), n - c) \in Seq(Nat)
  <2> SUFFICES ASSUME NEW c \in 1..n
               PROVE  SeenAt(Enforced(full, n - c), n - c) \in Seq(Nat)
    BY DEF n
  <2>1. c \in 0..n
    BY <1>2
  <2>2. n - c \in Nat /\ Window(Enforced(full, n - c))
        /\ n - c <= Enforced(full, n - c).pre.size
    BY <1>6, <2>1
  <2> QED BY <1>1, <2>2, SeenSeq
<1> HIDE DEF At
<1>10. seen \in Seq(Seq(Nat))
  <2>1. seen \in [1..n -> Seq(Nat)]
    BY <1>9
  <2> QED BY <1>2, <2>1, SeqDef
<1> HIDE DEF seen
<1> QED BY <1>1, <1>3, <1>8, <1>10 DEF WorkerTypes

(* The worker whose turn it is runs the serial step.                       *)
LEMMA GenSequencesPreserves ==
  ASSUME IInv, NEW w \in Workers, GenSequences(w)
  PROVE  IInv'
<1>1. /\ UNCHANGED mainVars /\ UNCHANGED <<mainVars, poolVars>>
      /\ UNCHANGED <<mainVars, jobs, poolVars>>
      /\ serialNext' = serialNext + 1
      /\ bufPool' = bufPool /\ cctxPool' = cctxPool
      /\ wctx' = wctx /\ wlast' = wlast /\ failures' = failures
      /\ wpc[w] = "serial" /\ wpc' = [wpc EXCEPT ![w] = "compress"]
      /\ begun' = begun
  BY DEF GenSequences, resourceVars, poolVars
<1>2. /\ call' = call /\ NbWorkers' = NbWorkers /\ NbWorkers \in Nat /\ w \in Nat
      /\ MaxBuffers' = MaxBuffers /\ Capacity' = Capacity /\ MaxFailures' = MaxFailures
      /\ MainTypes /\ FrameTypes /\ WorkerTypes /\ PoolTypes /\ WindowTypes
      /\ WorkerPlace(w) /\ TurnsInv /\ ResourcesInv /\ Ended' = Ended
  BY <1>1, WorkerFacts
<1>3. /\ Working(w) /\ Working(w)' /\ wpc'[w] = "compress" /\ wlast'[w] = wlast[w]
      /\ wctx'[w] = wctx[w]
      /\ \A v \in Workers : v # w => /\ wpc'[v] = wpc[v] /\ wctx'[v] = wctx[v]
                                     /\ wlast'[v] = wlast[v]
  BY <1>1, <1>2 DEF Working, WorkerTypes
<1>4. /\ JobsPreserved /\ HeldBuffers' = HeldBuffers
      /\ \A v \in Workers : JobOf(v)' = JobOf(v) /\ running'[v] = running[v]
  BY <1>1, QuietStep
<1>5. WorkerJob(w)
  BY <1>3, InHand
<1>6. WorkerTypes' /\ WindowTypes'
  <2>1. \/ SerialStep(w)
        \/ wseq' = [wseq EXCEPT ![w] = <<>>] /\ ldmState' = ldmState /\ ldmWindow' = ldmWindow
    BY DEF GenSequences
  <2>2. <<>> \in Seq(Seq(Nat))
    OBVIOUS
  <2>3. /\ wseq' \in [Workers -> Seq(Seq(Nat))]
        /\ Window(ldmState') /\ Window(ldmWindow')
    <3>1. CASE SerialStep(w)
      BY <1>3, <3>1, SerialStepTypes
    <3>2. CASE wseq' = [wseq EXCEPT ![w] = <<>>] /\ ldmState' = ldmState /\ ldmWindow' = ldmWindow
      <4>1. Window(ldmState) /\ Window(ldmWindow)
        BY <1>2 DEF WindowTypes, Window
      <4>2. wseq' \in [Workers -> Seq(Seq(Nat))]
        BY <1>2, <2>2, <3>2 DEF WorkerTypes
      <4> QED BY <3>2, <4>1, <4>2
    <3> QED BY <2>1, <3>1, <3>2
  <2>4. WorkerTypes'
    BY <1>1, <1>2, <2>3 DEF WorkerTypes
  <2>5. WindowTypes'
    BY <1>2, <2>3 DEF WindowTypes, Window, Within, Ends
  <2> QED BY <2>4, <2>5
<1>7. WorkersInv' /\ JobsShared'
  <2>1. WorkerPlace(w)'
    BY <1>1, <1>2, <1>3, <1>4 DEF WorkerPlace
  <2>2. Pool!Queued' = Pool!Queued
    BY <1>1 DEF Pool!Queued, poolVars
  <2>4. wlast[w] = <<>>
    BY <1>1, <1>2 DEF WorkerPlace
  <2>3. WorkerJob(w)'
    BY <1>1, <1>2, <1>3, <1>4, <1>5, <2>2, <2>4, MainStateKept DEF WorkerJob, Completed
  <2> QED BY <1>1, <1>3, <1>4, <2>1, <2>3, MovesAlone
<1>8. TurnsInv'
  <2>1. Pending' = Pending \ {w} /\ w \in Pending
    BY <1>1, <1>2 DEF Pending, WorkerTypes
  <2>2. /\ Cardinality(Pending) \in Nat /\ Cardinality(Pending') = Cardinality(Pending) - 1
        /\ Cardinality(Pending') \in Nat
    BY <2>1, SetsFinite, OneLess
  <2>3. Len(begun) \in Nat
    BY <1>2, LenProperties DEF PoolTypes
  <2> QED BY <1>1, <1>2, <2>2, <2>3 DEF TurnsInv
<1>9. ResourcesInv'
  <2>1. Holding' = Holding
    BY <1>1 DEF Holding
  <2> QED BY <1>1, <1>2, <1>4, <2>1 DEF ResourcesInv
<1>10. failures' \in 0..MaxFailures
  BY <1>1, <1>2 DEF MainTypes
<1> QED BY <1>1, <1>4, <1>6, <1>7, <1>8, <1>9, <1>10, WorkerPreserves

(* No step of a worker breaks the invariant.                               *)
LEMMA WorkersPreserve ==
  ASSUME IInv, NEW w \in Workers, Worker(w)
  PROVE  IInv'
BY BeginPreserves, GetResourcesPreserves, FailingPreserves, GenSequencesPreserves,
   CompressPiecePreserves, CompressLastKeeps, EnsureFinishedPreserves,
   ReleaseResourcesPreserves, ReportPreserves, EndPreserves DEF Worker

-----------------------------------------------------------------------------
(* Steps of main.                                                          *)

(* With every job completed and the queue empty, no worker has one in      *)
(* hand.                                                                   *)
LEMMA NoneWorking ==
  ASSUME IInv, Ended \/ doneJobID = nextJobID
  PROVE  queue = <<>> /\ \A w \in Workers : ~Working(w)
<1>1. FrameTypes
  BY DEF IInv, Types
<1>2. queue = <<>>
  BY <1>1 DEF IInv, QueueInv, FrameTypes
<1>3. \A w \in Workers : ~Working(w)
  <2> SUFFICES ASSUME NEW w \in Workers, Working(w)
               PROVE  FALSE
    OBVIOUS
  <2>1. ~Ended /\ running[w] \in doneJobID .. nextJobID - 1
    BY DEF IInv, WorkersInv, WorkerJob
  <2> QED BY <1>1, <2>1 DEF FrameTypes
<1> QED BY <1>2, <1>3

(* The parts of the invariant, by name.                                    *)
LEMMA MainTypesNow ==
  ASSUME IInv
  PROVE  /\ MainTypes /\ BufferTypes /\ FrameTypes /\ JobTypes /\ WindowTypes
         /\ WorkerTypes /\ PoolTypes /\ call \in Calls
         /\ WorkersInv /\ JobsShared /\ QueueInv /\ TurnsInv /\ ResourcesInv /\ HeldInv
         /\ ~Ended => /\ Taken /\ Rounding /\ Places /\ LiveDescribed /\ LiveAdvanced
                      /\ Geometry
         /\ mpc = "range" => Scanned
BY DEF IInv, Types, FrameInv, MainTypes

(* What the threads have is not disturbed by a step of main.               *)
Threads == <<serialVars, workerVars, running, begun>>

(* The threads' part of the invariant outlives main's steps that keep it.  *)
LEMMA ThreadsKept ==
  ASSUME IInv, call' = call, UNCHANGED Threads
  PROVE  WindowTypes' /\ WorkerTypes' /\ TurnsInv' /\ JobsShared' /\ Holding' = Holding
         /\ \A w \in Workers : WorkerPlace(w)' /\ (Working(w)' <=> Working(w))
<1>1. /\ serialNext' = serialNext /\ ldmState' = ldmState /\ ldmWindow' = ldmWindow
      /\ wpc' = wpc /\ wctx' = wctx /\ wseq' = wseq /\ wlast' = wlast
      /\ running' = running /\ begun' = begun
  BY DEF Threads, serialVars, workerVars
<1>2. NbWorkers' = NbWorkers /\ Capacity' = Capacity
  BY CallKept
<1>3. WindowTypes' /\ WorkerTypes'
  BY <1>1, <1>2 DEF IInv, Types, WindowTypes, WorkerTypes, Within, Ends
<1>4. Pending' = Pending /\ Holding' = Holding
  BY <1>1 DEF Pending, Holding
<1>5. TurnsInv'
  BY <1>1, <1>2, <1>4 DEF IInv, TurnsInv
<1>6. \A w \in Workers : Working(w)' <=> Working(w)
  BY <1>1 DEF Working
<1>7. JobsShared'
  BY <1>1, <1>6 DEF IInv, JobsShared
<1>8. \A w \in Workers : WorkerPlace(w)'
  BY <1>1, <1>2 DEF IInv, WorkersInv, WorkerPlace
<1> QED BY <1>3, <1>4, <1>5, <1>6, <1>7, <1>8

(* So do the workers' own conditions, when jobs stay described.            *)
LEMMA WorkersKept ==
  ASSUME IInv, call' = call, UNCHANGED Threads,
         \A w \in Workers :
           Working(w) =>
             /\ ~Ended' /\ running[w] \in doneJobID' .. nextJobID' - 1
             /\ running[w] \notin Pool!Queued'
             /\ JobOf(w)'.consumed = JobOf(w).consumed /\ JobOf(w)'.src = JobOf(w).src
             /\ JobOf(w)'.error = JobOf(w).error /\ JobOf(w)'.dst = JobOf(w).dst
  PROVE  WorkersInv'
<1>1. /\ wpc' = wpc /\ wlast' = wlast /\ running' = running
  BY DEF Threads, workerVars
<1>2. \A w \in Workers : WorkerPlace(w)' /\ (Working(w)' <=> Working(w))
  BY ThreadsKept
<1>3. ASSUME NEW w \in Workers, Working(w)
      PROVE  WorkerJob(w)'
  <2>1. WorkerJob(w)
    BY <1>3 DEF IInv, WorkersInv
  <2> QED BY <1>1, <1>3, <2>1 DEF WorkerJob, Completed
<1> QED BY <1>2, <1>3 DEF WorkersInv

(* A step of main that prepares, flushes and starts no job.                *)
Jobs == <<call, jobs, doneJobID, nextJobID, jobReady, frameEnded, bufPool, cctxPool,
          queue>>

(* A step of main that leaves the table alone.                             *)
LEMMA JobsKept ==
  ASSUME IInv, UNCHANGED Jobs, UNCHANGED Threads
  PROVE  /\ call' = call /\ jobs' = jobs /\ doneJobID' = doneJobID
         /\ nextJobID' = nextJobID /\ jobReady' = jobReady /\ frameEnded' = frameEnded
         /\ queue' = queue
         /\ Prepared' = Prepared /\ Live' = Live /\ \A k : JobAt(k)' = JobAt(k)
         /\ \A k : Completed(JobAt(k))' = Completed(JobAt(k))
         /\ Completed(Oldest)' = Completed(Oldest)
         /\ Unfinished' = Unfinished
         /\ JobTypes' /\ FrameTypes' /\ PoolTypes' /\ ResourcesInv'
         /\ \A from \in 0..doneJobID : HeldFrom(from) => HeldFrom(from)'
         /\ LiveDescribed => LiveDescribed'
         /\ LiveAdvanced => LiveAdvanced'
         /\ ~Ended' \/ Ended \/ doneJobID = nextJobID => WorkersInv' /\ QueueInv'
<1>1. /\ call' = call /\ jobs' = jobs /\ doneJobID' = doneJobID
      /\ nextJobID' = nextJobID /\ jobReady' = jobReady /\ frameEnded' = frameEnded
      /\ bufPool' = bufPool /\ cctxPool' = cctxPool /\ queue' = queue
      /\ running' = running /\ begun' = begun
  BY DEF Jobs, Threads
<1>2. /\ NbWorkers' = NbWorkers /\ Section' = Section /\ Overlap' = Overlap
      /\ JobCount' = JobCount /\ Capacity' = Capacity /\ TableSize' = TableSize
      /\ MaxBuffers' = MaxBuffers /\ TableSlots' = TableSlots
      /\ \A k : Slot(k)' = Slot(k)
  BY <1>1, CallKept
<1>3. Prepared' = Prepared /\ Live' = Live
  BY <1>1 DEF Prepared, Live
<1>4. /\ \A k : JobAt(k)' = JobAt(k) /\ (Completed(JobAt(k))' = Completed(JobAt(k)))
      /\ Oldest' = Oldest
  BY <1>1, <1>2 DEF JobAt, Completed, Oldest
<1>5. Unfinished' = Unfinished
  BY <1>3, <1>4 DEF Unfinished
<1>6. JobTypes' /\ FrameTypes' /\ PoolTypes'
  <2>1. JobTypes'
    BY <1>1, <1>2 DEF IInv, Types, JobTypes, Sized, Within, Ends
  <2>2. FrameTypes'
    BY <1>1, <1>2, <1>3 DEF IInv, Types, FrameTypes
  <2>3. PoolTypes'
    BY <1>1 DEF IInv, Types, PoolTypes
  <2> QED BY <2>1, <2>2, <2>3
<1>7. ResourcesInv'
  <2>1. HeldBuffers' = HeldBuffers
    BY <1>1 DEF HeldBuffers
  <2>2. Holding' = Holding
    BY <1>1, ThreadsKept
  <2> QED BY <1>1, <1>2, <2>1, <2>2 DEF IInv, ResourcesInv
<1>8. \A from \in 0..doneJobID : HeldFrom(from) => HeldFrom(from)'
  BY <1>1, <1>2, <1>3 DEF HeldFrom
<1>9. LiveDescribed => LiveDescribed'
  BY <1>1, <1>2, <1>3, <1>4 DEF LiveDescribed, Described, Ends
<1>10. LiveAdvanced => LiveAdvanced'
  <2>1. \A k : Waiting(k)' <=> Waiting(k)
    BY <1>1 DEF Waiting, Pool!Queued
  <2> QED BY <1>3, <1>4, <2>1 DEF LiveAdvanced, Advanced, Completed
<1>11. ASSUME ~Ended' \/ Ended \/ doneJobID = nextJobID
       PROVE  WorkersInv' /\ QueueInv'
  <2>1. ASSUME NEW w \in Workers, Working(w)
        PROVE  /\ ~Ended' /\ running[w] \in doneJobID' .. nextJobID' - 1
               /\ running[w] \notin Pool!Queued'
               /\ JobOf(w)' = JobOf(w)
    <3>1. ~(Ended \/ doneJobID = nextJobID)
      BY <2>1, NoneWorking
    <3>2. JobOf(w)' = JobOf(w)
      BY <1>1, <1>2 DEF JobOf, SlotOf
    <3>3. WorkerJob(w)
      BY <2>1 DEF IInv, WorkersInv
    <3>4. Pool!Queued' = Pool!Queued
      BY <1>1 DEF Pool!Queued
    <3> QED BY <1>1, <1>11, <3>1, <3>2, <3>3, <3>4 DEF WorkerJob
  <2>2. WorkersInv'
    BY <1>1, <2>1, WorkersKept
  <2>3. QueueInv'
    <3>1. queue # <<>> => ~Ended'
      BY <1>11, NoneWorking
    <3> QED BY <1>1, <3>1 DEF IInv, QueueInv
  <2> QED BY <2>2, <2>3
<1> QED BY <1>1, <1>3, <1>4, <1>5, <1>6, <1>7, <1>8, <1>9, <1>10, <1>11

(* A step of main that leaves the input where it is.                       *)
Inputs == <<srcOffset, inPos, inBuff, prefix, roundBuff, roundPos>>

(* A step of main that leaves the input where it is keeps the geometry.    *)
LEMMA InputsKept ==
  ASSUME IInv, UNCHANGED Jobs, UNCHANGED Threads, UNCHANGED Inputs
  PROVE  /\ srcOffset' = srcOffset /\ inPos' = inPos /\ inBuff' = inBuff
         /\ roundPos' = roundPos
         /\ ThisChunk' = ThisChunk /\ LastChunk' = LastChunk /\ InputLeft' = InputLeft
         /\ Reserved' = Reserved /\ Claims' = Claims
         /\ inUse' = inUse => BufferTypes'
         /\ Taken => Taken'
         /\ Rounding => Rounding'
         /\ Geometry => Geometry'
         /\ Scanned /\ inUse' = inUse => Scanned'
<1>1. /\ call' = call /\ frameEnded' = frameEnded /\ jobReady' = jobReady
      /\ doneJobID' = doneJobID
      /\ Prepared' = Prepared /\ Live' = Live /\ \A k : JobAt(k)' = JobAt(k)
      /\ Unfinished' = Unfinished
  BY JobsKept
<1>2. /\ srcOffset' = srcOffset /\ inPos' = inPos /\ inBuff' = inBuff /\ prefix' = prefix
      /\ roundBuff' = roundBuff /\ roundPos' = roundPos
  BY DEF Inputs
<1>3. /\ Total' = Total /\ Section' = Section /\ Overlap' = Overlap
      /\ CallerChunk' = CallerChunk /\ JobCount' = JobCount /\ Capacity' = Capacity
      /\ Cells' = Cells
  BY <1>1, CallKept
<1>4. /\ ThisChunk' = ThisChunk /\ LastChunk' = LastChunk /\ InputLeft' = InputLeft
      /\ EndFrame' = EndFrame /\ Reserved' = Reserved
  BY <1>2, <1>3 DEF ThisChunk, LastChunk, InputLeft, EndFrame, Reserved, NoInBuff, Reference!Lowest
<1>5. Claims' = Claims
  BY <1>1, <1>4 DEF Claims
<1>6. inUse' = inUse => BufferTypes'
  BY <1>2, <1>3 DEF IInv, Types, BufferTypes, Within, Ends
<1>7. Taken => Taken'
  BY <1>1, <1>2, <1>3, <1>4 DEF Taken, NoInBuff
<1>8. Rounding => Rounding'
  BY <1>1, <1>2, <1>3, <1>4 DEF Rounding, Ends
<1>9. /\ \A k : Behind(k)' <=> Behind(k)
      /\ \A k : Ahead(k)' <=> Ahead(k)
      /\ \A k : Lap(k)' = Lap(k)
      /\ \A k : Low(JobAt(k))' = Low(JobAt(k))
  <2>1. Frontier' = Frontier
    BY <1>2, <1>3, <1>4 DEF Frontier
  <2>2. \A k : Low(JobAt(k))' = Low(JobAt(k))
    BY <1>1 DEF Low
  <2>3. \A k : Behind(k)' <=> Behind(k)
    BY <1>1, <1>2 DEF Behind, Ends
  <2>4. \A k : Ahead(k)' <=> Ahead(k)
    BY <2>1, <2>2 DEF Ahead
  <2>5. \A k : Lap(k)' = Lap(k)
    BY <1>3, <2>3 DEF Lap
  <2> QED BY <2>2, <2>3, <2>4, <2>5
<1>10. Geometry => Geometry'
  <2>1. Sides => Sides'
    BY <1>1, <1>9 DEF Sides
  <2>2. Ordered => Ordered'
    BY <1>1, <1>9 DEF Ordered
  <2>3. Distances => Distances'
    BY <1>1, <1>2, <1>3, <1>9 DEF Distances
  <2> QED BY <1>1, <2>1, <2>2, <2>3 DEF Geometry
<1>11. Scanned /\ inUse' = inUse => Scanned'
  BY <1>1, <1>2, <1>3, <1>9 DEF Scanned
<1> QED BY <1>2, <1>4, <1>5, <1>6, <1>7, <1>8, <1>10, <1>11

(* The steps that only move main on.                                       *)
LEMMA MovesPreserve ==
  ASSUME IInv, UNCHANGED Jobs, UNCHANGED Threads, UNCHANGED <<Inputs, inUse>>,
         mpc' \in {"scan", "load", "create", "flush", "waitAll", "free", "join"},
         mpc # mpc', mpc \notin {"load", "join", "returned"},
         failed' \in BOOLEAN, forward' \in BOOLEAN, outcome' = outcome,
         failures' \in 0..MaxFailures,
         Ended' => Ended \/ nextJobID = doneJobID,
         Stopping => Stopping', Ended => Ended',
         mpc' = "scan" => mpc = "start",
         mpc' = "load" => ~jobReady /\ InputLeft /\ Reserved,
         mpc' = "create" => ~InputLeft \/ inBuff = NoInBuff,
         mpc' \in {"load", "create", "flush"} => ~Stopping
  PROVE  IInv'
<1>1. /\ UNCHANGED Inputs /\ inUse' = inUse
  OBVIOUS
<1>2. /\ call' = call /\ jobs' = jobs /\ doneJobID' = doneJobID
      /\ nextJobID' = nextJobID /\ jobReady' = jobReady
      /\ Completed(Oldest)' = Completed(Oldest)
      /\ JobTypes' /\ FrameTypes' /\ PoolTypes' /\ ResourcesInv'
      /\ \A from \in 0..doneJobID : HeldFrom(from) => HeldFrom(from)'
      /\ LiveDescribed => LiveDescribed'
      /\ LiveAdvanced => LiveAdvanced'
      /\ WorkersInv' /\ QueueInv'
  BY JobsKept
<1>3. WindowTypes' /\ WorkerTypes' /\ TurnsInv' /\ JobsShared'
  BY <1>2, ThreadsKept
<1>4. /\ InputLeft' = InputLeft /\ LastChunk' = LastChunk /\ inBuff' = inBuff
      /\ srcOffset' = srcOffset /\ inPos' = inPos
      /\ Reserved' = Reserved /\ Claims' = Claims
      /\ BufferTypes'
      /\ Taken => Taken'
      /\ Rounding => Rounding'
      /\ Geometry => Geometry'
  BY <1>1, InputsKept
<1>5. /\ Total' = Total /\ CallerChunk' = CallerChunk /\ MaxFailures' = MaxFailures
      /\ NbWorkers' = NbWorkers /\ Section' = Section
  BY <1>2, CallKept
<1>6. Types'
  <2>1. MainTypes'
    BY <1>2, <1>4, <1>5, MainTypesNow DEF MainTypes
  <2> QED BY <1>2, <1>3, <1>4, <2>1 DEF Types
<1>7. FrameInv'
  <2> SUFFICES ASSUME ~Ended'
               PROVE  /\ Taken' /\ Rounding' /\ Places' /\ LiveDescribed'
                      /\ LiveAdvanced' /\ Geometry'
    BY DEF FrameInv
  <2>1. ~Ended
    BY DEF Ended, Stopping
  <2>2. Taken /\ Rounding /\ Places /\ LiveDescribed /\ LiveAdvanced /\ Geometry
    BY <2>1, MainTypesNow
  <2>3. Places'
    BY <1>2, <1>4 DEF Places, NoInBuff
  <2> QED BY <1>2, <1>4, <2>2, <2>3
<1>8. HeldInv'
  <2>1. ~Stopping' => Bounded'
    <3> SUFFICES ASSUME ~Stopping'
                 PROVE  Bounded'
      OBVIOUS
    <3>1. ~Stopping /\ Bounded
      BY MainTypesNow DEF HeldInv
    <3>2. mpc \in {"load", "create", "flush"} => mpc' \in {"load", "create", "flush"}
      BY DEF Stopping, Ended
    <3> QED BY <1>2, <1>4, <1>5, <3>1, <3>2 DEF Bounded
  <2>2. doneJobID \in 0..doneJobID
    BY MainTypesNow DEF FrameTypes
  <2> QED BY <1>2, <2>1, <2>2, MainTypesNow DEF HeldInv
<1>9. (mpc = "range" => Scanned)'
  OBVIOUS
<1> QED BY <1>2, <1>3, <1>6, <1>7, <1>8, <1>9 DEF IInv

(* The steps of main that only move it on.                                 *)
LEMMA SmallStepsPreserve ==
  ASSUME IInv,
         \/ StartCall \/ StartFails \/ ScanSkipped \/ RangeInUse \/ NoJobToCreate
         \/ FlushError \/ FreeCCtx
  PROVE  IInv'
<1> USE DEF Jobs, Threads, Inputs, inputVars, frameVars, serialVars, resourceVars,
            workerVars, poolVars
<1>1. /\ failures \in 0..MaxFailures /\ failed \in BOOLEAN /\ forward \in BOOLEAN
      /\ MaxFailures \in Nat
  BY MainTypesNow, CallFacts DEF MainTypes
<1>2. CASE StartCall
  BY <1>1, <1>2, MovesPreserve DEF StartCall, Stopping, Ended
<1>3. CASE StartFails
  <2>1. nextJobID = doneJobID /\ failures' \in 0..MaxFailures
    BY <1>1, <1>3, MainTypesNow
       DEF StartFails, CountFailure, MayFail, Places, FrameTypes, Ended
  <2> QED BY <1>1, <1>3, <2>1, MovesPreserve DEF StartFails, Stopping, Ended
<1>4. CASE ScanSkipped
  <2>1. mpc' = "create" => ~InputLeft \/ inBuff = NoInBuff
    BY <1>4, MainTypesNow DEF ScanSkipped, Rounding, Reserved, Ended
  <2> QED BY <1>1, <1>4, <2>1, MovesPreserve DEF ScanSkipped, Stopping, Ended, Reserved
<1>5. CASE RangeInUse
  <2>1. inBuff = NoInBuff
    BY <1>5, MainTypesNow DEF RangeInUse, Places, Reserved, Ended
  <2> QED BY <1>1, <1>5, <2>1, MovesPreserve DEF RangeInUse, Stopping, Ended
<1>6. CASE NoJobToCreate
  BY <1>1, <1>6, MovesPreserve DEF NoJobToCreate, Stopping, Ended
<1>7. CASE FlushError
  BY <1>1, <1>7, MovesPreserve DEF FlushError, Stopping, Ended
<1>8. CASE FreeCCtx
  BY <1>1, <1>8, MovesPreserve DEF FreeCCtx, Pool!Close, Stopping, Ended
<1> QED BY <1>2, <1>3, <1>4, <1>5, <1>6, <1>7, <1>8

(* A step of main in the loop that moves the input.                        *)
LEMMA LoopPreserves ==
  ASSUME IInv, UNCHANGED Jobs, UNCHANGED Threads, ~Ended, ~Ended', ~Stopping,
         MainTypes', BufferTypes', Taken', Rounding', Places', Geometry', Bounded',
         mpc' = "range" => Scanned'
  PROVE  IInv'
<1>2. /\ call' = call /\ doneJobID' = doneJobID
      /\ JobTypes' /\ FrameTypes' /\ PoolTypes' /\ ResourcesInv'
      /\ \A from \in 0..doneJobID : HeldFrom(from) => HeldFrom(from)'
      /\ LiveDescribed => LiveDescribed'
      /\ LiveAdvanced => LiveAdvanced'
      /\ WorkersInv' /\ QueueInv'
  BY JobsKept
<1>3. WindowTypes' /\ WorkerTypes' /\ TurnsInv' /\ JobsShared'
  BY <1>2, ThreadsKept
<1>4. Types'
  BY <1>2, <1>3 DEF Types
<1>5. FrameInv'
  BY <1>2, MainTypesNow DEF FrameInv
<1>6. HeldInv'
  <2>1. doneJobID \in 0..doneJobID
    BY MainTypesNow DEF FrameTypes
  <2> QED BY <1>2, <2>1, MainTypesNow DEF HeldInv
<1>7. (mpc = "range" => Scanned)'
  OBVIOUS
<1> QED BY <1>2, <1>3, <1>4, <1>5, <1>6, <1>7 DEF IInv

(* While there is input left the frame has not ended.                      *)
LEMMA InputAhead ==
  ASSUME IInv, ~Ended, InputLeft
  PROVE  ~frameEnded
<1>1. Taken /\ MainTypes
  BY MainTypesNow
<1>2. /\ Total \in Nat /\ CallerChunk \in Nat /\ srcOffset \in Nat /\ inPos \in Nat
      /\ srcOffset < Total
  BY <1>1, CallFacts DEF MainTypes, Taken
<1>3. ThisChunk \in Nat /\ srcOffset + ThisChunk <= Total
  BY <1>2 DEF ThisChunk, Reference!Lowest
<1>4. inPos < ThisChunk
  BY DEF InputLeft
<1>5. srcOffset + inPos < Total
  BY <1>2, <1>3, <1>4
<1>6. frameEnded => srcOffset + inPos = Total
  BY <1>1 DEF Taken
<1> QED BY <1>2, <1>5, <1>6

(* An unfinished job is live and still reads its section.                  *)
LEMMA UnfinishedJob ==
  ASSUME IInv, ~Ended, NEW k \in Unfinished
  PROVE  /\ k \in Live /\ k \in Nat /\ k >= doneJobID /\ k < Prepared
         /\ JobAt(k) \in Descriptions /\ Sized(JobAt(k)) /\ ~Completed(JobAt(k))
         /\ JobAt(k).src.start \in Nat /\ JobAt(k).src.size \in Nat
         /\ JobAt(k).prefix.start \in Nat /\ JobAt(k).prefix.size \in Nat
         /\ Ends(JobAt(k).src) = JobAt(k).src.start + JobAt(k).src.size
         /\ Ends(JobAt(k).src) <= Capacity
         /\ JobAt(k).src.size > 0 /\ Described(k)
         /\ Low(JobAt(k)) \in Nat /\ Low(JobAt(k)) <= JobAt(k).src.start
         /\ ~frameEnded => JobAt(k).src.size = Section
<1>1. k \in Live /\ ~Completed(JobAt(k)) /\ Unfinished \subseteq Live
  BY DEF Unfinished
<1>2. k \in Nat /\ k >= doneJobID /\ k < Prepared
  BY <1>1, MainTypesNow, PreparedJobs
<1>3. JobAt(k) \in Descriptions /\ Sized(JobAt(k))
  BY <1>1, MainTypesNow, LiveSlots
<1> DEFINE job == JobAt(k)
<1>4. /\ job.src.start \in Nat /\ job.src.size \in Nat
      /\ job.prefix.start \in Nat /\ job.prefix.size \in Nat
      /\ Ends(job.src) = job.src.start + job.src.size
      /\ Ends(job.prefix) = job.prefix.start + job.prefix.size
      /\ Ends(job.src) <= Capacity
  BY <1>3, Describing
<1>5. Described(k)
  BY <1>1, MainTypesNow DEF LiveDescribed
<1>6. /\ job.src.size > 0 /\ (job.last => frameEnded)
      /\ ~job.last => job.src.size = Section
      /\ job.prefix.size > 0 => Ends(job.prefix) = job.src.start
  BY <1>5 DEF Described
<1>7. Low(job) = IF job.prefix.size = 0 THEN job.src.start ELSE job.prefix.start
  BY DEF Low
<1> HIDE DEF job
<1>8. Low(job) \in Nat /\ Low(job) <= job.src.start
  BY <1>4, <1>6, <1>7
<1> QED BY <1>1, <1>2, <1>3, <1>4, <1>5, <1>6, <1>8 DEF job

(* What the positions in the round buffer can be.                          *)
LEMMA RoundSizes ==
  ASSUME IInv
  PROVE  /\ Capacity \in Nat /\ Section \in Nat /\ Section > 0 /\ roundPos \in Nat
         /\ roundPos <= Capacity /\ NbWorkers \in Nat
         /\ Prepared \in Nat /\ doneJobID \in Nat /\ nextJobID \in Nat
         /\ Within(inUse) /\ Within(prefix) /\ Overlap \in Nat /\ Overlap <= Section
         /\ inUse.start \in Nat /\ inUse.size \in Nat
         /\ Ends(inUse) = inUse.start + inUse.size /\ Ends(inUse) <= Capacity
         /\ prefix.start \in Nat /\ prefix.size \in Nat
         /\ Ends(prefix) = prefix.start + prefix.size /\ Ends(prefix) <= Capacity
         /\ inBuff.filled \in Nat /\ inBuff.filled <= Section /\ inBuff.start \in Int
         /\ Total \in Nat /\ CallerChunk \in Nat /\ CallerChunk > 0
         /\ srcOffset \in Nat /\ inPos \in Nat /\ srcOffset <= Total
         /\ Capacity <= (NbWorkers + 3) * Section
<1>1. /\ MainTypes /\ BufferTypes /\ FrameTypes /\ call \in Calls
  BY MainTypesNow
<1>2. /\ Capacity \in Nat /\ Section \in Nat /\ Section > 0 /\ NbWorkers \in Nat
      /\ Total \in Nat /\ CallerChunk \in Nat /\ CallerChunk > 0
      /\ Overlap \in Nat /\ Overlap <= Section
      /\ Capacity <= (NbWorkers + 3) * Section
  BY <1>1, CallFacts, Sizes
<1>3. roundPos \in Nat /\ roundPos <= Capacity /\ Within(inUse) /\ Within(prefix)
      /\ inBuff.filled \in Nat /\ inBuff.filled <= Section /\ inBuff.start \in Int
  BY <1>1, <1>2 DEF BufferTypes
<1>4. Prepared \in Nat /\ doneJobID \in Nat /\ nextJobID \in Nat
  BY <1>1, PreparedJobs DEF FrameTypes
<1>5. srcOffset \in Nat /\ inPos \in Nat /\ srcOffset <= Total
  BY <1>1, <1>2 DEF MainTypes
<1> QED BY <1>2, <1>3, <1>4, <1>5 DEF Within, Pieces, Ends

(* What a scan of the jobs tells of the unfinished ones.                   *)
ScanShows(r) ==
  \/ Unfinished = {}
  \/ r.size = 0 /\ (Prepared + 1) * Section <= Capacity
  \/ /\ r.size > 0 /\ r.start + Section <= Capacity
     /\ \A k \in Unfinished :
          /\ r.start <= Low(JobAt(k)) \/ (Behind(k) /\ roundPos <= r.start)
          /\ ~Behind(k) => roundPos <= r.start

(* ZSTDMT_getInputDataInUse finds the oldest job not completed, or none.   *)
LEMMA ScanFinds ==
  ASSUME IInv, ~Ended, ~jobReady, InputLeft, ~Reserved
  PROVE  Within(ZSTDMT_getInputDataInUse) /\ ScanShows(ZSTDMT_getInputDataInUse)
<1> DEFINE Incomplete == {id \in doneJobID .. nextJobID - 1 : ~Completed(jobs[Slot(id)])}
           first == CHOOSE id \in Incomplete : \A other \in Incomplete : id <= other
           job == jobs[Slot(first)]
           result == ZSTDMT_getInputDataInUse
<1>1. result = IF nextJobID < Capacity \div Section \/ Incomplete = {} THEN kNullRange
               ELSE IF job.prefix.size = 0 THEN job.src ELSE job.prefix
  BY DEF ZSTDMT_getInputDataInUse
<1> HIDE DEF result
<1>2. Prepared = nextJobID /\ Incomplete = Unfinished
  BY MainTypesNow DEF Prepared, Live, Unfinished, JobAt, FrameTypes
<1>3. /\ Capacity \in Nat /\ Section \in Nat /\ Section > 0 /\ roundPos \in Nat
      /\ nextJobID \in Nat
  BY RoundSizes
<1>4. kNullRange \in Pieces /\ kNullRange.size = 0 /\ Within(kNullRange)
  BY <1>3 DEF kNullRange, Span, Within, Pieces, Ends
<1>5. CASE Unfinished = {}
  BY <1>1, <1>2, <1>4, <1>5 DEF ScanShows, result
<1>6. CASE Unfinished # {} /\ nextJobID < Capacity \div Section
  <2> DEFINE q == Capacity \div Section
             p == nextJobID
  <2>1. q \in Nat /\ q * Section <= Capacity /\ p \in Nat /\ p < q
    BY <1>3, <1>6, DivRange
  <2> HIDE DEF p, q
  <2>2. p + 1 <= q
    BY <2>1
  <2>3. (p + 1) * Section <= q * Section
    BY <1>3, <2>1, <2>2, Products
  <2>4. (p + 1) * Section \in Nat /\ q * Section \in Nat
    BY <1>3, <2>1, Products
  <2>5. (p + 1) * Section <= Capacity
    BY <1>3, <2>1, <2>3, <2>4
  <2>6. result = kNullRange
    BY <1>1, <1>6
  <2> QED BY <1>2, <1>4, <2>5, <2>6 DEF ScanShows, result, p
<1>7. CASE Unfinished # {} /\ ~(nextJobID < Capacity \div Section)
  <2>1. first \in Unfinished /\ \A k \in Unfinished : first <= k
    <3>1. Incomplete \in SUBSET Nat
      BY <1>2, UnfinishedJob
    <3> HIDE DEF Incomplete
    <3>2. \E m \in Incomplete : \A k \in Incomplete : m <= k
      BY <1>2, <1>7, <3>1, LeastElement
    <3> QED BY <1>2, <3>2
  <2>2. job = JobAt(first)
    BY DEF JobAt
  <2>3. result = IF job.prefix.size = 0 THEN job.src ELSE job.prefix
    BY <1>1, <1>2, <1>7
  <2> HIDE DEF first, Incomplete, job
  <2>4. ~frameEnded
    BY InputAhead
  <2>5. /\ first \in Nat /\ Sized(job) /\ Described(first)
        /\ job.src.size = Section
        /\ Ends(job.src) = job.src.start + job.src.size /\ Ends(job.src) <= Capacity
        /\ job.src.start \in Nat /\ job.prefix.start \in Nat
        /\ job.src.size \in Nat /\ job.prefix.size \in Nat
        /\ Low(job) \in Nat /\ Low(job) <= job.src.start
    BY <2>1, <2>2, <2>4, UnfinishedJob
  <2>6. Within(result) /\ result.start = Low(job) /\ result.size > 0
    BY <1>3, <2>3, <2>5 DEF Sized, Low
  <2>7. Low(job) + Section <= Capacity
    BY <1>3, <2>5
  <2>8. ASSUME NEW k \in Unfinished
        PROVE  /\ Low(job) <= Low(JobAt(k)) \/ (Behind(k) /\ roundPos <= Low(job))
               /\ ~Behind(k) => roundPos <= Low(job)
    <3>1. Geometry /\ Frontier = roundPos
      BY MainTypesNow DEF Frontier
    <3>2. k \in Nat /\ first <= k
      BY <2>1, UnfinishedJob
    <3>3. (Behind(first) \/ Ahead(first)) /\ (Ahead(first) => roundPos <= Low(job))
      BY <2>1, <2>2, <3>1 DEF Geometry, Sides, Ahead
    <3>4. CASE k = first
      BY <2>2, <2>5, <3>3, <3>4
    <3>5. CASE k # first
      <4>1. first < k
        BY <2>5, <3>2, <3>5
      <4>2. /\ Behind(first) => Behind(k)
            /\ (Behind(first) <=> Behind(k)) => Low(job) <= Low(JobAt(k))
        BY <2>1, <2>2, <3>1, <4>1 DEF Geometry, Ordered
      <4> QED BY <3>3, <4>2
    <3> QED BY <3>4, <3>5
  <2> QED BY <2>6, <2>7, <2>8 DEF ScanShows, result
<1> QED BY <1>5, <1>6, <1>7

(* Main has scanned the jobs for the input still in use.                   *)
LEMMA ScanJobsPreserves ==
  ASSUME IInv, ScanJobs
  PROVE  IInv'
<1>1. /\ UNCHANGED Jobs /\ UNCHANGED Threads /\ UNCHANGED Inputs
      /\ mpc = "scan" /\ mpc' = "range" /\ ~jobReady /\ InputLeft /\ ~Reserved
      /\ inUse' = ZSTDMT_getInputDataInUse
      /\ failed' = failed /\ forward' = forward /\ outcome' = outcome
      /\ failures' = failures
  BY DEF ScanJobs, Jobs, Threads, Inputs, frameVars, serialVars, resourceVars,
         workerVars, poolVars, Reserved
<1>2. ~Ended /\ ~Ended' /\ ~Stopping
  BY <1>1 DEF Ended, Stopping
<1>3. /\ call' = call /\ jobReady' = jobReady /\ Completed(Oldest)' = Completed(Oldest)
      /\ Prepared' = Prepared /\ Unfinished' = Unfinished
      /\ \A k : JobAt(k)' = JobAt(k)
  BY <1>1, JobsKept
<1>4. /\ InputLeft' = InputLeft /\ LastChunk' = LastChunk /\ inBuff' = inBuff
      /\ srcOffset' = srcOffset /\ inPos' = inPos /\ roundPos' = roundPos
      /\ Reserved' = Reserved /\ Claims' = Claims
      /\ Taken' /\ Rounding' /\ Geometry'
  BY <1>1, <1>2, InputsKept, MainTypesNow
<1>5. /\ Total' = Total /\ CallerChunk' = CallerChunk /\ MaxFailures' = MaxFailures
      /\ NbWorkers' = NbWorkers /\ Section' = Section /\ Capacity' = Capacity
      /\ Cells' = Cells
  BY <1>3, CallKept
<1>6. MainTypes'
  BY <1>1, <1>3, <1>4, <1>5, MainTypesNow DEF MainTypes
<1>7. Within(inUse)' /\ ScanShows(inUse')
  BY <1>1, <1>2, <1>5, ScanFinds DEF Within, Ends
<1>8. BufferTypes'
  <2>1. prefix' = prefix /\ roundBuff' = roundBuff
    BY <1>1 DEF Inputs
  <2> QED BY <1>4, <1>5, <1>7, <2>1, MainTypesNow DEF BufferTypes, Within, Ends
<1>9. Scanned'
  <2>1. \A k : Behind(k)' <=> Behind(k)
    BY <1>3, <1>4 DEF Behind, Ends
  <2>2. \A k : Low(JobAt(k))' = Low(JobAt(k))
    BY <1>3 DEF Low
  <2> QED BY <1>3, <1>4, <1>5, <1>7, <2>1, <2>2 DEF ScanShows, Scanned
<1>10. Places'
  BY <1>1, <1>3, <1>4 DEF Places
<1>11. Bounded'
  <2>1. Bounded
    BY <1>2, MainTypesNow DEF HeldInv
  <2> QED BY <1>1, <1>4, <1>5, <2>1 DEF Bounded
<1> QED BY <1>1, <1>2, <1>4, <1>6, <1>8, <1>9, <1>10, <1>11, LoopPreserves

(* Main has found a place, and the round buffer must wrap or need not.     *)
LEMMA WrapPlace ==
  ASSUME IInv, mpc = "range", MustWrap, ~isOverlapped(WantedRange, inUse)
  PROVE  /\ (Prepared + 1) * Section > Capacity
         /\ \A k \in Unfinished : Behind(k) /\ prefix.size <= Low(JobAt(k))
<1>1. ~Ended /\ Scanned /\ Rounding /\ ~Reserved /\ InputLeft
  BY MainTypesNow DEF Ended, Places
<1>2. ~frameEnded
  BY <1>1, InputAhead
<1>3. /\ Capacity \in Nat /\ Section \in Nat /\ Section > 0 /\ roundPos \in Nat
      /\ Prepared \in Nat /\ inUse.start \in Nat /\ inUse.size \in Nat
      /\ Ends(inUse) = inUse.start + inUse.size /\ prefix.size \in Nat
  BY RoundSizes
<1>4. Capacity - roundPos < Section
  BY DEF MustWrap
<1> DEFINE P == Prepared * Section
           P1 == (Prepared + 1) * Section
<1>5. P \in Nat /\ P1 \in Nat /\ P1 = P + Section
  BY <1>3, Products
<1>6. P1 <= Capacity => roundPos = P
  BY <1>1, <1>2 DEF Rounding
<1> HIDE DEF P, P1
<1>7. P1 > Capacity
  BY <1>3, <1>4, <1>5, <1>6
<1>8. ASSUME NEW k \in Unfinished
      PROVE  Behind(k) /\ prefix.size <= Low(JobAt(k))
  <2>1. /\ inUse.size > 0 /\ inUse.start + Section <= Capacity
        /\ inUse.start <= Low(JobAt(k)) \/ roundPos <= inUse.start
        /\ ~Behind(k) => roundPos <= inUse.start
    BY <1>1, <1>3, <1>5, <1>7, <1>8 DEF Scanned, P1
  <2>2. ~(roundPos <= inUse.start)
    BY <1>3, <1>4, <2>1
  <2>3. prefix.size = 0 \/ prefix.size <= inUse.start
    <3>1. WantedRange = Span(0, prefix.size)
      BY DEF WantedRange
    <3>2. WantedRange.start = 0 /\ WantedRange.size = prefix.size
          /\ Ends(WantedRange) = prefix.size
      BY <1>3, <3>1 DEF Span, Ends
    <3>3. ~(prefix.size > 0 /\ inUse.size > 0 /\ 0 < Ends(inUse) /\ inUse.start < prefix.size)
      BY <3>2 DEF isOverlapped
    <3> QED BY <1>3, <2>1, <3>3
  <2>4. Low(JobAt(k)) \in Nat
    BY <1>1, UnfinishedJob
  <2> QED BY <1>3, <2>1, <2>2, <2>3, <2>4
<1> QED BY <1>3, <1>5, <1>7, <1>8 DEF P1

(* ZSTDMT_tryGetInputRange: the prefix moves to the front of the round     *)
(* buffer.                                                                 *)
LEMMA WrapRangePreserves ==
  ASSUME IInv, WrapRange
  PROVE  IInv'
<1>1. /\ UNCHANGED Jobs /\ UNCHANGED Threads
      /\ mpc = "range" /\ MustWrap /\ mpc' = mpc
      /\ ~isOverlapped(WantedRange, inUse)
      /\ srcOffset' = srcOffset /\ inPos' = inPos /\ inUse' = inUse /\ inBuff' = inBuff
      /\ failed' = failed /\ forward' = forward /\ outcome' = outcome
      /\ failures' = failures
      /\ roundBuff' = MovedPrefix /\ prefix' = Span(0, prefix.size)
      /\ roundPos' = prefix.size
  BY DEF WrapRange, Jobs, Threads, Inputs, callVars, frameVars, serialVars, resourceVars,
         workerVars, poolVars
<1>2. ~Ended /\ ~Ended' /\ ~Stopping
  BY <1>1 DEF Ended, Stopping
<1>3. /\ call' = call /\ jobReady' = jobReady /\ Completed(Oldest)' = Completed(Oldest)
      /\ frameEnded' = frameEnded
      /\ Prepared' = Prepared /\ Unfinished' = Unfinished /\ doneJobID' = doneJobID
      /\ \A k : JobAt(k)' = JobAt(k)
  BY <1>1, JobsKept
<1>4. Taken /\ Rounding /\ Places /\ Geometry /\ Scanned /\ MainTypes /\ BufferTypes
  BY <1>1, <1>2, MainTypesNow
<1>5. /\ Total' = Total /\ CallerChunk' = CallerChunk /\ MaxFailures' = MaxFailures
      /\ NbWorkers' = NbWorkers /\ Section' = Section /\ Capacity' = Capacity
      /\ Cells' = Cells /\ JobCount' = JobCount /\ Overlap' = Overlap
  BY <1>3, CallKept
<1>6. /\ Capacity \in Nat /\ Section \in Nat /\ Section > 0 /\ roundPos \in Nat
      /\ roundPos <= Capacity /\ Prepared \in Nat
      /\ inUse.start \in Nat /\ inUse.size \in Nat
      /\ prefix.start \in Nat /\ prefix.size \in Nat
      /\ prefix.start + prefix.size <= Capacity /\ Total \in Nat
  BY RoundSizes
<1>7. /\ (Prepared + 1) * Section > Capacity
      /\ \A k \in Unfinished : Behind(k) /\ prefix.size <= Low(JobAt(k))
  BY <1>1, WrapPlace
<1>8. ~Reserved /\ ~frameEnded /\ InputLeft /\ ~jobReady
  BY <1>1, <1>2, <1>4, InputAhead DEF Places
<1>9. /\ ThisChunk' = ThisChunk /\ LastChunk' = LastChunk /\ InputLeft' = InputLeft
      /\ EndFrame' = EndFrame /\ Reserved' = Reserved
  BY <1>1, <1>5 DEF ThisChunk, LastChunk, InputLeft, EndFrame, Reserved, NoInBuff, Reference!Lowest
<1>10. MainTypes'
  BY <1>1, <1>3, <1>4, <1>5 DEF MainTypes
<1>11. BufferTypes'
  <2>1. roundBuff' \in [Cells -> 0..Total]
    <3>1. \A i \in Cells : i < prefix.size => prefix.start + i \in Cells
      BY <1>6 DEF Cells
    <3>2. MovedPrefix = [i \in Cells |-> IF i < prefix.size THEN roundBuff[prefix.start + i]
                                         ELSE roundBuff[i]]
      BY DEF MovedPrefix
    <3> QED BY <1>1, <1>4, <3>1, <3>2 DEF BufferTypes
  <2>2. Within(prefix)' /\ Within(inUse)'
    BY <1>1, <1>4, <1>5, <1>6 DEF Within, Pieces, Ends, Span, BufferTypes
  <2>3. roundPos' \in 0..Capacity
    BY <1>1, <1>6
  <2> QED BY <1>1, <1>4, <1>5, <2>1, <2>2, <2>3 DEF BufferTypes
<1>12. Taken'
  BY <1>1, <1>3, <1>4, <1>5, <1>9 DEF Taken, NoInBuff
<1>13. Rounding'
  <2>1. prefix'.size = prefix.size /\ Ends(prefix') = roundPos'
    BY <1>1, <1>6 DEF Span, Ends
  <2>2. /\ prefix.size = IF Prepared = 0 THEN 0 ELSE Overlap
    BY <1>4, <1>8 DEF Rounding
  <2>3. (Prepared + 1) * Section \in Nat
    BY <1>6, Products
  <2>4. ~((Prepared + 1) * Section <= Capacity)
    BY <1>6, <1>7, <2>3
  <2> QED BY <1>3, <1>5, <1>8, <1>9, <2>1, <2>2, <2>4 DEF Rounding, Ends
<1>14. Places'
  BY <1>1, <1>3, <1>4, <1>9 DEF Places
<1>15. \A k \in Unfinished :
         ~Behind(k)' /\ Ahead(k)' /\ Lap(k)' = Capacity /\ Low(JobAt(k))' = Low(JobAt(k))
  <2> SUFFICES ASSUME NEW k \in Unfinished
               PROVE  ~Behind(k)' /\ Ahead(k)' /\ Lap(k)' = Capacity
                      /\ Low(JobAt(k))' = Low(JobAt(k))
    OBVIOUS
  <2>1. prefix.size <= Low(JobAt(k))
    BY <1>7
  <2>2. /\ Low(JobAt(k)) \in Nat /\ Low(JobAt(k)) <= JobAt(k).src.start
        /\ JobAt(k).src.start \in Nat /\ JobAt(k).src.size \in Nat /\ JobAt(k).src.size > 0
    BY <1>2, UnfinishedJob
  <2>3. Low(JobAt(k))' = Low(JobAt(k)) /\ JobAt(k)' = JobAt(k)
    BY <1>3 DEF Low
  <2>4. Frontier' = prefix.size
    BY <1>1, <1>8, <1>9 DEF Frontier
  <2>5. ~Behind(k)'
    BY <1>1, <1>6, <2>1, <2>2, <2>3 DEF Behind, Ends
  <2>6. Ahead(k)'
    BY <2>1, <2>3, <2>4 DEF Ahead
  <2> QED BY <1>5, <2>3, <2>5, <2>6 DEF Lap
<1>16. Geometry'
  <2>1. Sides'
    BY <1>3, <1>15 DEF Sides
  <2>2. Ordered'
    BY <1>3, <1>4, <1>7, <1>15 DEF Ordered, Geometry
  <2>3. Distances'
    <3> SUFFICES ASSUME NEW k \in Unfinished
                 PROVE  (Prepared - k) * Section + JobAt(k).src.start <= roundPos' + Capacity
      BY <1>3, <1>5, <1>15 DEF Distances
    <3> DEFINE d == (Prepared - k) * Section
    <3>1. d + JobAt(k).src.start <= roundPos + Lap(k) /\ Lap(k) = 0
      BY <1>4, <1>7, <1>8 DEF Geometry, Distances, Lap
    <3>2. JobAt(k).src.start \in Nat /\ k \in Nat /\ k < Prepared
      BY <1>2, UnfinishedJob
    <3>3. d \in Nat
      <4>1. Prepared - k \in Nat
        BY <1>6, <3>2
      <4> QED BY <1>6, <4>1, Products
    <3> HIDE DEF d
    <3>4. d + JobAt(k).src.start <= roundPos' + Capacity
      BY <1>1, <1>6, <3>1, <3>2, <3>3
    <3> QED BY <3>4 DEF d
  <2> QED BY <2>1, <2>2, <2>3 DEF Geometry
<1>17. Scanned'
  <2>1. CASE Unfinished = {}
    BY <1>3, <2>1 DEF Scanned
  <2>2. CASE Unfinished # {}
    <3>1. /\ inUse.size > 0 /\ inUse.start + Section <= Capacity
          /\ \A k \in Unfinished : inUse.start <= Low(JobAt(k)) \/ roundPos <= inUse.start
      <4>1. ~((Prepared + 1) * Section <= Capacity)
        <5>1. (Prepared + 1) * Section \in Nat
          BY <1>6, Products
        <5> QED BY <1>6, <1>7, <5>1
      <4> QED BY <1>4, <2>2, <4>1 DEF Scanned
    <3>2. ~(roundPos <= inUse.start)
      BY <1>1, <1>6, <3>1 DEF MustWrap
    <3>3. prefix.size <= inUse.start
      <4>1. WantedRange.start = 0 /\ WantedRange.size = prefix.size
            /\ Ends(WantedRange) = prefix.size
        BY <1>1, <1>6 DEF WantedRange, Span, Ends
      <4> QED BY <1>1, <1>6, <3>1, <4>1 DEF isOverlapped, Ends
    <3> QED BY <1>1, <1>3, <1>5, <1>15, <3>1, <3>2, <3>3 DEF Scanned
  <2> QED BY <2>1, <2>2
<1>18. Bounded'
  <2>1. Claims' = Claims
    BY <1>3, <1>9 DEF Claims
  <2>2. Bounded
    BY <1>2, MainTypesNow DEF HeldInv
  <2> QED BY <1>1, <1>3, <1>5, <2>1, <2>2 DEF Bounded
<1> QED BY <1>1, <1>2, <1>10, <1>11, <1>12, <1>13, <1>14, <1>16, <1>17, <1>18, LoopPreserves

(* The section main takes holds nothing an unfinished job still reads.     *)
LEMMA SectionFree ==
  ASSUME IInv, mpc = "range", ~MustWrap, ~isOverlapped(WantedRange, inUse)
  PROVE  /\ roundPos + Section <= Capacity
         /\ \A k \in Unfinished : Behind(k) \/ roundPos + Section <= Low(JobAt(k))
<1>1. ~Ended /\ Scanned /\ Rounding /\ ~Reserved /\ InputLeft
  BY MainTypesNow DEF Ended, Places
<1>2. ~frameEnded
  BY <1>1, InputAhead
<1>3. /\ Capacity \in Nat /\ Section \in Nat /\ Section > 0 /\ roundPos \in Nat
      /\ Prepared \in Nat /\ inUse.start \in Nat /\ inUse.size \in Nat
      /\ Ends(inUse) = inUse.start + inUse.size
  BY RoundSizes
<1>4. roundPos + Section <= Capacity
  BY <1>3 DEF MustWrap
<1>5. ASSUME NEW k \in Unfinished
      PROVE  Behind(k) \/ roundPos + Section <= Low(JobAt(k))
  <2>1. /\ k \in Nat /\ k < Prepared /\ JobAt(k).src.start \in Nat /\ Described(k)
        /\ Ends(JobAt(k).src) = JobAt(k).src.start + JobAt(k).src.size
        /\ JobAt(k).src.size = Section /\ Low(JobAt(k)) \in Nat
    BY <1>1, <1>2, UnfinishedJob
  <2>2. CASE inUse.size = 0 /\ (Prepared + 1) * Section <= Capacity
    <3> DEFINE P == Prepared * Section
               K1 == (k + 1) * Section
    <3>1. (Prepared + 1) * Section = P + Section /\ P \in Nat
      BY <1>3, Products
    <3>2. K1 = k * Section + Section /\ K1 \in Nat /\ k * Section \in Nat
      BY <1>3, <2>1, Products
    <3>3. K1 <= P
      <4>1. k + 1 <= Prepared /\ k + 1 \in Nat
        BY <1>3, <2>1
      <4> QED BY <1>3, <4>1, Products
    <3>4. roundPos = P
      BY <1>1, <1>2, <2>2 DEF Rounding
    <3>5. K1 <= Capacity => JobAt(k).src.start = k * Section
      BY <2>1 DEF Described
    <3> HIDE DEF P, K1
    <3>6. K1 <= Capacity
      BY <1>3, <2>2, <3>1, <3>2, <3>3
    <3>7. Ends(JobAt(k).src) <= roundPos
      BY <1>3, <2>1, <3>2, <3>3, <3>4, <3>5, <3>6
    <3> QED BY <3>7 DEF Behind
  <2>3. CASE inUse.size > 0
    <3>1. WantedRange.start = roundPos /\ WantedRange.size = Section
          /\ Ends(WantedRange) = roundPos + Section
      BY DEF WantedRange, Span, Ends
    <3>2. ~(roundPos < Ends(inUse) /\ inUse.start < roundPos + Section)
      BY <1>3, <2>3, <3>1 DEF isOverlapped
    <3>3. ~Behind(k) => inUse.start <= Low(JobAt(k)) /\ roundPos <= inUse.start
      BY <1>1, <1>3, <1>5, <2>3 DEF Scanned
    <3> QED BY <1>3, <2>1, <2>3, <3>2, <3>3
  <2> QED BY <1>1, <1>3, <1>5, <2>2, <2>3 DEF Scanned
<1> QED BY <1>4, <1>5

(* When the scan finds none in use, nothing of the buffer is read any      *)
(* more.                                                                   *)
LEMMA OldestDone ==
  ASSUME IInv, mpc = "range", ~MustWrap, ~isOverlapped(WantedRange, inUse),
         Claims = NbWorkers + 3
  PROVE  Completed(Oldest)
<1>1. ~Ended /\ Geometry /\ ~Reserved /\ InputLeft /\ FrameTypes
  BY MainTypesNow DEF Ended, Places
<1>2. ~frameEnded
  BY <1>1, InputAhead
<1>3. /\ Capacity \in Nat /\ Section \in Nat /\ Section > 0 /\ roundPos \in Nat
      /\ Prepared \in Nat /\ doneJobID \in Nat /\ NbWorkers \in Nat
      /\ Capacity <= (NbWorkers + 3) * Section
  BY RoundSizes
<1>4. Prepared - doneJobID = NbWorkers + 3
  BY <1>1, <1>3 DEF Claims
<1>5. doneJobID \in Live /\ Oldest = JobAt(doneJobID)
  BY <1>1, <1>3, <1>4, PreparedJobs DEF Oldest, JobAt
<1>6. ASSUME ~Completed(Oldest)
      PROVE  FALSE
  <2> DEFINE k == doneJobID
             start == JobAt(k).src.start
             d == (Prepared - k) * Section
  <2>1. k \in Unfinished
    BY <1>5, <1>6 DEF Unfinished
  <2>2. d + start <= roundPos + Lap(k)
    BY <1>1, <1>2, <2>1 DEF Geometry, Distances
  <2>3. d = (NbWorkers + 3) * Section
    BY <1>4
  <2>4. d \in Nat
    BY <1>3, <2>3, Products
  <2>5. /\ start \in Nat /\ Low(JobAt(k)) \in Nat /\ Low(JobAt(k)) <= start
    BY <1>1, <2>1, UnfinishedJob
  <2>6. /\ roundPos + Section <= Capacity
        /\ Behind(k) \/ roundPos + Section <= Low(JobAt(k))
    BY <2>1, SectionFree
  <2> HIDE DEF d, start
  <2>7. CASE Behind(k)
    BY <1>3, <2>2, <2>3, <2>4, <2>5, <2>6, <2>7 DEF Lap
  <2>8. CASE ~Behind(k)
    BY <1>3, <2>2, <2>3, <2>4, <2>5, <2>6, <2>8 DEF Lap
  <2> QED BY <2>7, <2>8
<1> QED BY <1>6

(* Main takes the next section's range of the round buffer.                *)
LEMMA TakeRangePreserves ==
  ASSUME IInv, TakeRange
  PROVE  IInv'
<1>1. /\ UNCHANGED Jobs /\ UNCHANGED Threads
      /\ mpc = "range" /\ ~MustWrap /\ mpc' = "load"
      /\ ~isOverlapped(WantedRange, inUse)
      /\ srcOffset' = srcOffset /\ inPos' = inPos /\ inUse' = inUse /\ prefix' = prefix
      /\ failed' = failed /\ forward' = forward /\ outcome' = outcome
      /\ failures' = failures /\ roundBuff' = roundBuff /\ roundPos' = roundPos
      /\ inBuff' = [start |-> roundPos, filled |-> 0]
  BY DEF TakeRange, Jobs, Threads, frameVars, serialVars, resourceVars,
         workerVars, poolVars
<1>2. ~Ended /\ ~Ended' /\ ~Stopping
  BY <1>1 DEF Ended, Stopping
<1>3. /\ call' = call /\ jobReady' = jobReady /\ Completed(Oldest)' = Completed(Oldest)
      /\ frameEnded' = frameEnded
      /\ Prepared' = Prepared /\ Unfinished' = Unfinished /\ doneJobID' = doneJobID
      /\ \A k : JobAt(k)' = JobAt(k)
  BY <1>1, JobsKept
<1>4. Taken /\ Rounding /\ Places /\ Geometry /\ MainTypes /\ BufferTypes
  BY <1>1, <1>2, MainTypesNow
<1>5. /\ Total' = Total /\ CallerChunk' = CallerChunk /\ MaxFailures' = MaxFailures
      /\ NbWorkers' = NbWorkers /\ Section' = Section /\ Capacity' = Capacity
      /\ Cells' = Cells /\ JobCount' = JobCount /\ Overlap' = Overlap
  BY <1>3, CallKept
<1>6. /\ Capacity \in Nat /\ Section \in Nat /\ Section > 0 /\ roundPos \in Nat
      /\ roundPos <= Capacity /\ Prepared \in Nat /\ doneJobID \in Nat /\ NbWorkers \in Nat
  BY RoundSizes
<1>7. /\ roundPos + Section <= Capacity
      /\ \A k \in Unfinished : Behind(k) \/ roundPos + Section <= Low(JobAt(k))
  BY <1>1, SectionFree
<1>8. ~Reserved /\ ~frameEnded /\ InputLeft /\ ~jobReady
  BY <1>1, <1>2, <1>4, InputAhead DEF Places
<1>9. Reserved' /\ inBuff'.start = roundPos /\ inBuff'.filled = 0 /\ inBuff.filled = 0
  BY <1>1, <1>6, <1>8 DEF Reserved, NoInBuff
<1>10. /\ ThisChunk' = ThisChunk /\ LastChunk' = LastChunk /\ InputLeft' = InputLeft
       /\ EndFrame' = EndFrame /\ ~EndFrame
  BY <1>1, <1>5, <1>8 DEF ThisChunk, LastChunk, InputLeft, EndFrame, Reference!Lowest
<1>11. MainTypes'
  BY <1>1, <1>3, <1>4, <1>5 DEF MainTypes
<1>12. BufferTypes'
  <2>1. inBuff' \in [start : -1..Capacity, filled : 0..Section]
    BY <1>1, <1>6
  <2> QED BY <1>1, <1>4, <1>5, <2>1 DEF BufferTypes, Within, Ends
<1>13. Taken'
  BY <1>1, <1>3, <1>4, <1>5, <1>8, <1>9, <1>10 DEF Taken
<1>14. Rounding'
  BY <1>1, <1>3, <1>4, <1>5, <1>7, <1>8, <1>9 DEF Rounding, Ends
<1>15. Places'
  BY <1>1, <1>3, <1>8, <1>9, <1>10 DEF Places
<1>16. Geometry'
  <2>1. \A k : /\ Behind(k)' <=> Behind(k)
               /\ Low(JobAt(k))' = Low(JobAt(k))
               /\ JobAt(k)' = JobAt(k)
    BY <1>1, <1>3 DEF Behind, Ends, Low
  <2>2. \A k : Lap(k)' = Lap(k)
    BY <1>5, <2>1 DEF Lap
  <2>3. Frontier' = roundPos + Section
    BY <1>1, <1>5, <1>9 DEF Frontier
  <2>4. \A k \in Unfinished : Behind(k)' \/ Ahead(k)'
    BY <1>7, <2>1, <2>3 DEF Ahead
  <2>5. Sides'
    BY <1>3, <2>4 DEF Sides
  <2>6. Ordered'
    BY <1>3, <1>4, <2>1 DEF Ordered, Geometry
  <2>7. Distances'
    BY <1>1, <1>3, <1>4, <1>5, <1>8, <2>1, <2>2 DEF Distances, Geometry
  <2> QED BY <2>5, <2>6, <2>7 DEF Geometry
<1>17. Bounded'
  <2>1. Claims' = Claims + 1 /\ Claims = Prepared - doneJobID
    BY <1>3, <1>6, <1>8, <1>9 DEF Claims
  <2>2. Bounded
    BY <1>2, MainTypesNow DEF HeldInv
  <2>3. Claims <= NbWorkers + 3
    BY <1>1, <2>2 DEF Bounded
  <2>4. CASE Claims = NbWorkers + 3
    <3>1. Completed(Oldest)
      BY <1>1, <2>4, OldestDone
    <3> QED BY <1>1, <1>3, <1>5, <1>6, <2>1, <2>4, <3>1 DEF Bounded
  <2>5. CASE Claims # NbWorkers + 3
    <3>1. Claims' <= NbWorkers + 3
      BY <1>6, <2>1, <2>3, <2>5
    <3> QED BY <1>5, <3>1 DEF Bounded
  <2> QED BY <2>4, <2>5
<1>18. (mpc = "range" => Scanned)'
  BY <1>1
<1> QED BY <1>1, <1>2, <1>11, <1>12, <1>13, <1>14, <1>15, <1>16, <1>17, <1>18, LoopPreserves

(* How much is loaded, and where.                                          *)
LEMMA LoadFacts ==
  ASSUME IInv, mpc = "load"
  PROVE  /\ ToLoad \in Nat /\ inPos + ToLoad <= ThisChunk /\ inBuff.filled + ToLoad <= Section
         /\ inPos + ToLoad = ThisChunk \/ inBuff.filled + ToLoad = Section
         /\ inBuff.filled + ToLoad > 0
         /\ ThisChunk \in Nat /\ ThisChunk <= CallerChunk /\ srcOffset + ThisChunk <= Total
         /\ Reserved /\ inBuff.start = roundPos /\ roundPos + Section <= Capacity
         /\ ~frameEnded /\ InputLeft /\ ~jobReady
<1>1. ~Ended /\ Rounding /\ Reserved /\ InputLeft /\ ~jobReady
  BY MainTypesNow DEF Ended, Places
<1>2. ~frameEnded
  BY <1>1, InputAhead
<1>3. /\ Section \in Nat /\ Section > 0 /\ inBuff.filled \in Nat /\ inBuff.filled <= Section
      /\ Total \in Nat /\ CallerChunk \in Nat /\ srcOffset \in Nat /\ inPos \in Nat
      /\ srcOffset <= Total
  BY RoundSizes
<1>4. ThisChunk \in Nat /\ ThisChunk <= CallerChunk /\ srcOffset + ThisChunk <= Total
  BY <1>3 DEF ThisChunk, Reference!Lowest
<1>5. inPos < ThisChunk
  BY <1>1 DEF InputLeft
<1>6. ToLoad = IF ThisChunk - inPos < Section - inBuff.filled THEN ThisChunk - inPos
               ELSE Section - inBuff.filled
  BY DEF ToLoad, Reference!Lowest
<1>7. /\ ToLoad \in Nat /\ inPos + ToLoad <= ThisChunk /\ inBuff.filled + ToLoad <= Section
      /\ inPos + ToLoad = ThisChunk \/ inBuff.filled + ToLoad = Section
      /\ inBuff.filled + ToLoad > 0
  BY <1>3, <1>4, <1>5, <1>6
<1>8. inBuff.start = roundPos /\ roundPos + Section <= Capacity
  BY <1>1 DEF Rounding
<1> QED BY <1>1, <1>2, <1>4, <1>7, <1>8

(* The caller's bytes are copied into the range.                           *)
LEMMA LoadInputPreserves ==
  ASSUME IInv, LoadInput
  PROVE  IInv'
<1> DEFINE n == ToLoad
           to == inBuff.start + inBuff.filled
<1>1. /\ UNCHANGED Jobs /\ UNCHANGED Threads
      /\ mpc = "load" /\ mpc' = "create"
      /\ srcOffset' = srcOffset /\ inUse' = inUse /\ prefix' = prefix
      /\ failed' = failed /\ forward' = (n > 0) /\ outcome' = outcome
      /\ failures' = failures /\ roundPos' = roundPos
      /\ inPos' = inPos + n
      /\ inBuff' = [inBuff EXCEPT !.filled = @ + n]
      /\ roundBuff' = [i \in Cells |-> IF to <= i /\ i < to + n THEN UnitAt(inPos + i - to)
                                       ELSE roundBuff[i]]
  BY DEF LoadInput, Jobs, Threads, frameVars, serialVars, resourceVars,
         workerVars, poolVars
<1>2. ~Ended /\ ~Ended' /\ ~Stopping
  BY <1>1 DEF Ended, Stopping
<1>3. /\ call' = call /\ jobReady' = jobReady /\ Completed(Oldest)' = Completed(Oldest)
      /\ frameEnded' = frameEnded
      /\ Prepared' = Prepared /\ Unfinished' = Unfinished /\ doneJobID' = doneJobID
      /\ \A k : JobAt(k)' = JobAt(k)
  BY <1>1, JobsKept
<1>4. Taken /\ Rounding /\ Places /\ Geometry /\ MainTypes /\ BufferTypes
  BY <1>1, <1>2, MainTypesNow
<1>5. /\ Total' = Total /\ CallerChunk' = CallerChunk /\ MaxFailures' = MaxFailures
      /\ NbWorkers' = NbWorkers /\ Section' = Section /\ Capacity' = Capacity
      /\ Cells' = Cells /\ JobCount' = JobCount /\ Overlap' = Overlap
  BY <1>3, CallKept
<1>6. /\ Capacity \in Nat /\ Section \in Nat /\ Section > 0 /\ roundPos \in Nat
      /\ roundPos <= Capacity /\ Prepared \in Nat /\ Total \in Nat /\ CallerChunk \in Nat
      /\ srcOffset \in Nat /\ inPos \in Nat /\ inBuff.filled \in Nat
  BY RoundSizes
<1>7. /\ n \in Nat /\ inPos + n <= ThisChunk /\ inBuff.filled + n <= Section
      /\ inPos + n = ThisChunk \/ inBuff.filled + n = Section
      /\ inBuff.filled + n > 0
      /\ ThisChunk \in Nat /\ ThisChunk <= CallerChunk /\ srcOffset + ThisChunk <= Total
      /\ Reserved /\ inBuff.start = roundPos /\ roundPos + Section <= Capacity
      /\ ~frameEnded /\ InputLeft /\ ~jobReady
  BY <1>1, LoadFacts
<1> HIDE DEF n
<1>8. /\ inBuff'.start = roundPos /\ inBuff'.filled = inBuff.filled + n /\ Reserved'
      /\ inBuff' \in [start : -1..Capacity, filled : 0..Section]
  <2>1. inBuff \in [start : -1..Capacity, filled : 0..Section]
    BY <1>4 DEF BufferTypes
  <2>2. inBuff'.start = inBuff.start /\ inBuff'.filled = inBuff.filled + n
        /\ inBuff' = [start |-> inBuff.start, filled |-> inBuff.filled + n]
    BY <1>1, <2>1
  <2>3. inBuff.filled + n \in 0..Section /\ inBuff.start \in -1..Capacity
    BY <1>6, <1>7, <2>1
  <2>4. inBuff' # NoInBuff
    BY <1>6, <1>7, <2>2 DEF NoInBuff
  <2> QED BY <1>7, <2>2, <2>3, <2>4 DEF Reserved
<1>9. ThisChunk' = ThisChunk /\ LastChunk' = LastChunk
  BY <1>1, <1>5 DEF ThisChunk, LastChunk, Reference!Lowest
<1>10. InputLeft' <=> inPos + n < ThisChunk
  BY <1>1, <1>9 DEF InputLeft
<1>11. MainTypes'
  <2>1. inPos + n \in 0..CallerChunk /\ (n > 0) \in BOOLEAN
    BY <1>6, <1>7
  <2> QED BY <1>1, <1>3, <1>4, <1>5, <2>1 DEF MainTypes
<1>12. BufferTypes'
  <2>1. roundBuff' \in [Cells -> 0..Total]
    <3>1. ASSUME NEW i \in Cells, to <= i, i < to + n
          PROVE  UnitAt(inPos + i - to) \in 0..Total
      BY <1>6, <1>7, <3>1 DEF UnitAt, Cells
    <3>2. roundBuff \in [Cells -> 0..Total]
      BY <1>4 DEF BufferTypes
    <3> HIDE DEF to
    <3> QED BY <1>1, <3>1, <3>2
  <2> QED BY <1>1, <1>4, <1>5, <1>8, <2>1 DEF BufferTypes, Within, Ends
<1>13. Taken'
  <2>1. srcOffset + inPos = Prepared * Section + inBuff.filled /\ srcOffset < Total
    BY <1>4, <1>7 DEF Taken
  <2>2. Prepared * Section \in Nat
    BY <1>6, Products
  <2>3. srcOffset + inPos + n = Prepared * Section + (inBuff.filled + n)
    BY <1>6, <1>7, <2>1, <2>2
  <2>4. srcOffset' + inPos' = Prepared' * Section' + inBuff'.filled
    BY <1>1, <1>3, <1>5, <1>6, <1>7, <1>8, <2>3
  <2>5. inPos' <= ThisChunk'
    BY <1>1, <1>7, <1>9
  <2>6. inBuff'.filled > 0
    BY <1>7, <1>8
  <2> QED BY <1>1, <1>3, <1>5, <1>7, <2>1, <2>4, <2>5, <2>6 DEF Taken
<1>14. Rounding'
  BY <1>1, <1>3, <1>4, <1>5, <1>7, <1>8 DEF Rounding, Ends
<1>15. Places'
  <2>1. ~InputLeft' \/ inBuff'.filled = Section
    BY <1>7, <1>8, <1>10
  <2> QED BY <1>1, <1>5, <2>1 DEF Places
<1>16. Geometry'
  <2>1. \A k : /\ Behind(k)' <=> Behind(k)
               /\ Low(JobAt(k))' = Low(JobAt(k))
               /\ JobAt(k)' = JobAt(k)
    BY <1>1, <1>3 DEF Behind, Ends, Low
  <2>2. \A k : Lap(k)' = Lap(k)
    BY <1>5, <2>1 DEF Lap
  <2>3. Frontier' = Frontier
    BY <1>1, <1>5, <1>7, <1>8 DEF Frontier
  <2>4. Sides'
    BY <1>3, <1>4, <2>1, <2>3 DEF Sides, Ahead, Geometry
  <2>5. Ordered'
    BY <1>3, <1>4, <2>1 DEF Ordered, Geometry
  <2>6. Distances'
    BY <1>1, <1>3, <1>4, <1>5, <1>7, <2>1, <2>2 DEF Distances, Geometry
  <2> QED BY <2>4, <2>5, <2>6 DEF Geometry
<1>17. Bounded'
  <2>1. Claims' = Claims
    BY <1>3, <1>7, <1>8 DEF Claims
  <2>2. Bounded
    BY <1>2, MainTypesNow DEF HeldInv
  <2> QED BY <1>1, <1>3, <1>5, <2>1, <2>2 DEF Bounded
<1>18. (mpc = "range" => Scanned)'
  BY <1>1
<1> QED BY <1>1, <1>2, <1>11, <1>12, <1>13, <1>14, <1>15, <1>16, <1>17, <1>18, LoopPreserves

(* Whether the job is dispatched or must wait.                             *)
LEMMA DispatchFacts ==
  ASSUME IInv, CreateJob
  PROVE  /\ UNCHANGED Threads /\ call' = call /\ doneJobID' = doneJobID
         /\ mpc = "create" /\ mpc' = "flush" /\ ~Ended /\ ~Ended' /\ ~Stopping
         /\ Prepared' = nextJobID + 1 /\ nextJobID' \in nextJobID .. nextJobID + 1
         /\ jobReady' \in BOOLEAN
         /\ PoolTypes' /\ QueueInv'
         /\ \A k \in doneJobID .. nextJobID : Waiting(k)' => Waiting(k)
         /\ \A w \in Workers :
              Working(w) => /\ running[w] \in doneJobID' .. nextJobID' - 1
                            /\ running[w] \notin Pool!Queued'
         /\ nextJobID + 1 - doneJobID <= TableSize
<1>1. /\ UNCHANGED <<serialVars, workerVars>> /\ call' = call /\ doneJobID' = doneJobID
      /\ mpc = "create" /\ mpc' = "flush" /\ ~TableFull
      /\ \/ /\ WorkerAvailable /\ Pool!Accept(nextJobID)
            /\ nextJobID' = nextJobID + 1 /\ jobReady' = FALSE
         \/ jobReady' = TRUE /\ UNCHANGED <<nextJobID, poolVars>>
  BY DEF CreateJob
<1>2. ~Ended /\ ~Ended' /\ ~Stopping
  BY <1>1 DEF Ended, Stopping
<1>3. /\ FrameTypes /\ PoolTypes /\ QueueInv /\ MainTypes
  BY MainTypesNow
<1>4. doneJobID \in Nat /\ nextJobID \in Nat /\ doneJobID <= nextJobID
  BY <1>3 DEF FrameTypes
<1>5. nextJobID + 1 - doneJobID <= TableSize
  <2>1. TableSize \in Nat
    BY <1>3, Sizes DEF MainTypes
  <2> QED BY <1>1, <1>4, <2>1 DEF TableFull
<1>6. \A w \in Workers :
        Working(w) => /\ running[w] \in doneJobID .. nextJobID - 1
                      /\ running[w] \notin Pool!Queued
  BY MainTypesNow DEF WorkersInv, WorkerJob
<1>7. CASE WorkerAvailable /\ Pool!Accept(nextJobID)
           /\ nextJobID' = nextJobID + 1 /\ jobReady' = FALSE
  <2>1. /\ queue = <<>> /\ queue' = Append(queue, nextJobID)
        /\ running' = running /\ begun' = begun
    BY <1>7 DEF WorkerAvailable, Pool!Accept
  <2>2. queue' = <<nextJobID>> /\ Len(queue') = 1 /\ queue'[1] = nextJobID
        /\ queue' \in Seq(Nat) /\ queue' # <<>> /\ Len(queue) = 0
    BY <1>4, <2>1
  <2>3. Pool!Queued' = {nextJobID}
    BY <2>2 DEF Pool!Queued
  <2>4. PoolTypes' /\ QueueInv'
    <3>1. PoolTypes'
      BY <1>3, <2>1, <2>2 DEF PoolTypes
    <3>2. Len(begun) = nextJobID
      <4>1. Len(begun) \in Nat
        BY <1>3, LenProperties DEF PoolTypes
      <4> QED BY <1>3, <1>4, <2>2, <4>1 DEF QueueInv
    <3> QED BY <1>1, <1>2, <1>4, <1>7, <2>1, <2>2, <3>1, <3>2 DEF QueueInv
  <2>5. Prepared' = nextJobID + 1
    BY <1>4, <1>7 DEF Prepared
  <2>6. \A k \in doneJobID .. nextJobID : Waiting(k)' => Waiting(k)
    BY <1>4, <1>7, <2>3 DEF Waiting
  <2>7. UNCHANGED Threads
    BY <1>1, <2>1 DEF Threads
  <2>8. \A w \in Workers :
          Working(w) => /\ running[w] \in doneJobID' .. nextJobID' - 1
                        /\ running[w] \notin Pool!Queued'
    BY <1>1, <1>4, <1>6, <1>7, <2>3
  <2>9. nextJobID' \in nextJobID .. nextJobID + 1
    BY <1>4, <1>7
  <2>10. jobReady' \in BOOLEAN
    BY <1>7
  <2> QED BY <1>1, <1>2, <1>5, <2>4, <2>5, <2>6, <2>7, <2>8, <2>9, <2>10
<1>8. CASE jobReady' = TRUE /\ UNCHANGED <<nextJobID, poolVars>>
  <2>1. queue' = queue /\ running' = running /\ begun' = begun /\ nextJobID' = nextJobID
    BY <1>8 DEF poolVars
  <2>2. Pool!Queued' = Pool!Queued
    BY <2>1 DEF Pool!Queued
  <2>3. PoolTypes' /\ QueueInv'
    BY <1>1, <1>2, <1>3, <2>1 DEF PoolTypes, QueueInv
  <2>4. Prepared' = nextJobID + 1
    BY <1>4, <1>8, <2>1 DEF Prepared
  <2>5. \A k \in doneJobID .. nextJobID : Waiting(k)' => Waiting(k)
    BY <2>1, <2>2 DEF Waiting
  <2>6. UNCHANGED Threads
    BY <1>1, <2>1 DEF Threads
  <2> QED BY <1>1, <1>2, <1>4, <1>5, <1>6, <1>8, <2>1, <2>2, <2>3, <2>4, <2>5, <2>6
<1> QED BY <1>1, <1>7, <1>8

(* The job that waited for a worker.                                       *)
LEMMA ReadyJobPreserves ==
  ASSUME IInv, CreateJob, jobReady
  PROVE  IInv'
<1>1. /\ UNCHANGED Threads /\ call' = call /\ doneJobID' = doneJobID
      /\ mpc = "create" /\ mpc' = "flush" /\ ~Ended /\ ~Ended' /\ ~Stopping
      /\ Prepared' = nextJobID + 1 /\ nextJobID' \in nextJobID .. nextJobID + 1
      /\ jobReady' \in BOOLEAN
      /\ PoolTypes' /\ QueueInv'
      /\ \A k \in doneJobID .. nextJobID : Waiting(k)' => Waiting(k)
      /\ \A w \in Workers :
           Working(w) => /\ running[w] \in doneJobID' .. nextJobID' - 1
                         /\ running[w] \notin Pool!Queued'
      /\ nextJobID + 1 - doneJobID <= TableSize
  BY DispatchFacts
<1>2. /\ jobs' = jobs /\ inBuff' = inBuff /\ prefix' = prefix /\ roundPos' = roundPos
      /\ frameEnded' = frameEnded /\ failed' = failed /\ srcOffset' = srcOffset
      /\ inPos' = inPos /\ forward' = forward /\ outcome' = outcome /\ inUse' = inUse
      /\ roundBuff' = roundBuff /\ bufPool' = bufPool /\ cctxPool' = cctxPool
      /\ failures' = failures
  BY DEF CreateJob, PrepareJob, resourceVars
<1>3. /\ MainTypes /\ BufferTypes /\ FrameTypes /\ JobTypes /\ ResourcesInv /\ HeldInv
      /\ Taken /\ Rounding /\ Places /\ LiveDescribed /\ LiveAdvanced /\ Geometry
  BY <1>1, MainTypesNow
<1>4. /\ Total' = Total /\ CallerChunk' = CallerChunk /\ MaxFailures' = MaxFailures
      /\ NbWorkers' = NbWorkers /\ Section' = Section /\ Capacity' = Capacity
      /\ Cells' = Cells /\ JobCount' = JobCount /\ Overlap' = Overlap
      /\ TableSize' = TableSize /\ MaxBuffers' = MaxBuffers /\ TableSlots' = TableSlots
      /\ \A k : Slot(k)' = Slot(k)
  BY <1>1, CallKept
<1>5. nextJobID \in Nat /\ doneJobID \in Nat /\ doneJobID <= nextJobID
  BY <1>3 DEF FrameTypes
<1>6. Prepared' = Prepared /\ Live' = Live /\ Live = doneJobID .. nextJobID
  <2>1. Prepared = nextJobID + 1
    BY DEF Prepared
  <2>2. Prepared' = Prepared
    BY <1>1, <2>1
  <2> HIDE DEF Prepared
  <2>3. Live = doneJobID .. Prepared - 1 /\ Live' = doneJobID' .. Prepared' - 1
    BY DEF Live
  <2>4. Live' = Live /\ Live = doneJobID .. nextJobID
    BY <1>1, <1>5, <2>1, <2>2, <2>3
  <2> QED BY <2>2, <2>4
<1>7. /\ \A k : JobAt(k)' = JobAt(k) /\ (Completed(JobAt(k))' = Completed(JobAt(k)))
      /\ Oldest' = Oldest /\ Completed(Oldest)' = Completed(Oldest)
      /\ \A w \in Workers : JobOf(w)' = JobOf(w)
  BY <1>1, <1>2, <1>4 DEF JobAt, Completed, Oldest, JobOf, SlotOf, Threads
<1>8. Unfinished' = Unfinished
  BY <1>6, <1>7 DEF Unfinished
<1>9. /\ ThisChunk' = ThisChunk /\ LastChunk' = LastChunk /\ InputLeft' = InputLeft
      /\ EndFrame' = EndFrame /\ Reserved' = Reserved
  BY <1>2, <1>4 DEF ThisChunk, LastChunk, InputLeft, EndFrame, Reserved, NoInBuff, Reference!Lowest
<1>10. Types'
  <2>1. MainTypes' /\ BufferTypes'
    BY <1>1, <1>2, <1>3, <1>4 DEF MainTypes, BufferTypes, Within, Ends
  <2>2. FrameTypes'
    BY <1>1, <1>2, <1>3, <1>4, <1>5, <1>6 DEF FrameTypes
  <2>3. JobTypes'
    BY <1>2, <1>3, <1>4 DEF JobTypes, Sized, Within, Ends
  <2>4. WindowTypes' /\ WorkerTypes'
    BY <1>1, ThreadsKept
  <2> QED BY <1>1, <2>1, <2>2, <2>3, <2>4 DEF Types
<1>11. Taken'
  BY <1>2, <1>3, <1>4, <1>6, <1>9 DEF Taken, NoInBuff
<1>12. Rounding'
  <2>1. ~Reserved
    BY <1>3 DEF Rounding
  <2> QED BY <1>2, <1>3, <1>4, <1>6, <1>9, <2>1 DEF Rounding, Ends
<1>13. Places'
  BY <1>1 DEF Places
<1>14. LiveDescribed'
  BY <1>2, <1>3, <1>4, <1>6, <1>7 DEF LiveDescribed, Described, Ends
<1>15. LiveAdvanced'
  BY <1>1, <1>3, <1>6, <1>7 DEF LiveAdvanced, Advanced, Completed
<1>16. Geometry'
  <2>1. \A k : /\ Behind(k)' <=> Behind(k)
               /\ Low(JobAt(k))' = Low(JobAt(k))
    BY <1>2, <1>7 DEF Behind, Ends, Low
  <2>2. \A k : Lap(k)' = Lap(k)
    BY <1>4, <2>1 DEF Lap
  <2>3. Frontier' = Frontier
    BY <1>2, <1>4, <1>9 DEF Frontier
  <2>4. Sides'
    BY <1>3, <1>8, <2>1, <2>3 DEF Sides, Ahead, Geometry
  <2>5. Ordered'
    BY <1>3, <1>8, <2>1 DEF Ordered, Geometry
  <2>6. ~frameEnded => Distances'
    BY <1>2, <1>3, <1>4, <1>6, <1>7, <1>8, <2>2 DEF Distances, Geometry
  <2> QED BY <1>2, <2>4, <2>5, <2>6 DEF Geometry
<1>17. HeldInv'
  <2>1. Claims' = Claims
    BY <1>1, <1>6, <1>9 DEF Claims
  <2>2. Bounded /\ HeldFrom(doneJobID)
    BY <1>1, <1>3 DEF HeldInv
  <2>3. Bounded'
    BY <1>1, <1>4, <1>7, <2>1, <2>2 DEF Bounded
  <2>4. HeldFrom(doneJobID)'
    BY <1>1, <1>2, <1>4, <1>6, <2>2 DEF HeldFrom
  <2>5. doneJobID' \in 0..doneJobID'
    BY <1>1, <1>5
  <2> QED BY <2>3, <2>4, <2>5 DEF HeldInv
<1>18. WorkersInv'
  BY <1>1, <1>7, WorkersKept
<1>19. JobsShared' /\ TurnsInv' /\ Holding' = Holding
  BY <1>1, ThreadsKept
<1>20. ResourcesInv'
  <2>1. HeldBuffers' = HeldBuffers
    BY <1>2 DEF HeldBuffers
  <2> QED BY <1>2, <1>3, <1>4, <1>19, <2>1 DEF ResourcesInv
<1>21. (mpc = "range" => Scanned)'
  BY <1>1
<1>22. FrameInv'
  BY <1>11, <1>12, <1>13, <1>14, <1>15, <1>16 DEF FrameInv
<1> QED BY <1>1, <1>10, <1>17, <1>18, <1>19, <1>20, <1>21, <1>22 DEF IInv

(* What is in the input buffer when main makes a job of it.                *)
LEMMA JobToPrepare ==
  ASSUME IInv, CreateJob, ~jobReady
  PROVE  /\ Prepared = nextJobID /\ ~frameEnded
         /\ Reserved /\ inBuff.start = roundPos /\ roundPos + Section <= Capacity
         /\ inBuff.filled > 0 /\ (~EndFrame => inBuff.filled = Section)
         /\ srcOffset + inPos = Prepared * Section + inBuff.filled
         /\ EndFrame => srcOffset + inPos = Total /\ JobCount = Prepared + 1
         /\ Prepared + 1 <= JobCount
<1>1. mpc = "create" /\ MustCreate /\ ~Ended /\ call \in Calls
  BY MainTypesNow DEF CreateJob, Ended
<1>2. Taken /\ Rounding /\ Places /\ FrameTypes
  BY <1>1, MainTypesNow
<1>3. /\ Section \in Nat /\ Section > 0 /\ inBuff.filled \in Nat /\ inBuff.filled <= Section
      /\ Total \in Nat /\ CallerChunk \in Nat /\ srcOffset \in Nat /\ inPos \in Nat
      /\ srcOffset <= Total /\ Prepared \in Nat /\ nextJobID \in Nat
  BY RoundSizes
<1>4. Prepared = nextJobID
  BY <1>3 DEF Prepared
<1>5. ~frameEnded
  <2> SUFFICES ASSUME frameEnded
               PROVE  FALSE
    OBVIOUS
  <2>1. inBuff.filled = 0
    BY <1>2 DEF Taken, NoInBuff
  <2> QED BY <1>1, <1>3, <2>1 DEF MustCreate
<1>6. srcOffset + inPos = Prepared * Section + inBuff.filled /\ inPos <= ThisChunk
      /\ srcOffset < Total
      /\ (EndFrame => inBuff.filled > 0)
  BY <1>2, <1>5 DEF Taken
<1>7. inBuff.filled > 0
  BY <1>1, <1>3, <1>6 DEF MustCreate
<1>8. ~EndFrame => inBuff.filled = Section
  BY <1>1, <1>2, <1>3, <1>7 DEF MustCreate, MustFlush, EndFrame, Places
<1>9. Reserved
  BY <1>7 DEF Reserved, NoInBuff
<1>10. inBuff.start = roundPos /\ roundPos + Section <= Capacity
  BY <1>2, <1>9 DEF Rounding
<1>11. ThisChunk \in Nat /\ srcOffset + ThisChunk <= Total
  BY <1>3 DEF ThisChunk, Reference!Lowest
<1>12. EndFrame => srcOffset + inPos = Total
  BY <1>3, <1>6, <1>11 DEF EndFrame, LastChunk, InputLeft
<1> DEFINE P == Prepared * Section
           P1 == (Prepared + 1) * Section
<1>13. P \in Nat /\ P1 \in Nat /\ P1 = P + Section
  BY <1>3, Products
<1>14. /\ JobCount \in Nat
       /\ P < Total => Prepared < JobCount
       /\ P < Total /\ Total <= P1 => JobCount = Prepared + 1
  BY <1>1, <1>3, JobsOfInput
<1>15. srcOffset + inPos = P + inBuff.filled
  BY <1>6
<1> HIDE DEF P, P1
<1>16. P < Total
  BY <1>3, <1>6, <1>7, <1>11, <1>13, <1>15
<1>17. EndFrame => Total <= P1
  BY <1>3, <1>12, <1>13, <1>15
<1> QED BY <1>3, <1>4, <1>5, <1>6, <1>7, <1>8, <1>9, <1>10, <1>12, <1>14, <1>16, <1>17

(* The table with the new job in it.                                       *)
LEMMA PreparedTable ==
  ASSUME IInv, CreateJob, ~jobReady
  PROVE  /\ jobs' = [jobs EXCEPT ![Slot(Prepared)] = PreparedJob]
         /\ DOMAIN jobs = TableSlots /\ DOMAIN jobs' = TableSlots
         /\ Slot(Prepared) \in TableSlots
         /\ \A s \in TableSlots : s # Slot(Prepared) => jobs'[s] = jobs[s]
         /\ \A k : k = Prepared => JobAt(k)' = PreparedJob
         /\ \A k \in Live : Slot(k) # Slot(Prepared) /\ JobAt(k)' = JobAt(k)
         /\ ~jobs[Slot(Prepared)].dst
         /\ PreparedJob \in Descriptions /\ Sized(PreparedJob)
         /\ PreparedJob.src = Span(roundPos, inBuff.filled) /\ PreparedJob.prefix = prefix
         /\ PreparedJob.id = Prepared /\ (PreparedJob.last <=> EndFrame)
         /\ PreparedJob.consumed = 0 /\ PreparedJob.blocks = <<>>
         /\ PreparedJob.flushed = 0 /\ ~PreparedJob.error /\ ~PreparedJob.dst
<1>1. /\ Prepared = nextJobID /\ inBuff.start = roundPos /\ roundPos + Section <= Capacity
  BY JobToPrepare
<1>2. /\ call' = call /\ nextJobID + 1 - doneJobID <= TableSize /\ ~Stopping
  BY DispatchFacts
<1>3. \A k : Slot(k)' = Slot(k)
  BY <1>2, CallKept
<1>4. /\ MainTypes /\ FrameTypes /\ JobTypes /\ BufferTypes /\ HeldInv
  BY MainTypesNow
<1>5. /\ Section \in Nat /\ inBuff.filled \in Nat /\ inBuff.filled <= Section
      /\ Prepared \in Nat /\ nextJobID \in Nat /\ doneJobID \in Nat /\ roundPos \in Nat
      /\ Within(prefix) /\ Capacity \in Nat
  BY RoundSizes
<1>6. TableSize \in Nat
  BY <1>4, Sizes DEF MainTypes
<1>7. /\ Slot(Prepared) \in TableSlots
      /\ \A k \in Live : Slot(Prepared) # Slot(k) /\ Slot(k) \in TableSlots
  <2>1. Prepared - doneJobID < TableSize
    BY <1>1, <1>2, <1>5, <1>6
  <2> QED BY <1>1, <1>4, <2>1, LiveSlots
<1>8. jobs' = [jobs EXCEPT ![Slot(Prepared)] = PreparedJob]
  BY <1>1 DEF CreateJob, PrepareJob
<1>9. DOMAIN jobs = TableSlots
  BY <1>4 DEF JobTypes
<1>10. /\ DOMAIN jobs' = TableSlots
       /\ jobs'[Slot(Prepared)] = PreparedJob
       /\ \A s \in TableSlots : s # Slot(Prepared) => jobs'[s] = jobs[s]
  BY <1>7, <1>8, <1>9
<1>11. \A k : k = Prepared => JobAt(k)' = PreparedJob
  BY <1>3, <1>10 DEF JobAt
<1>12. \A k \in Live : Slot(k) # Slot(Prepared) /\ JobAt(k)' = JobAt(k)
  BY <1>3, <1>7, <1>10 DEF JobAt
<1>13. ~jobs[Slot(Prepared)].dst
  <2>1. HeldFrom(doneJobID)
    BY <1>2, <1>4 DEF HeldInv
  <2> QED BY <1>7, <2>1 DEF HeldFrom, Live
<1>14. /\ PreparedJob.src = Span(roundPos, inBuff.filled) /\ PreparedJob.prefix = prefix
       /\ PreparedJob.id = Prepared /\ (PreparedJob.last <=> EndFrame)
       /\ PreparedJob.consumed = 0 /\ PreparedJob.blocks = <<>>
       /\ PreparedJob.flushed = 0 /\ ~PreparedJob.error /\ ~PreparedJob.dst
  BY <1>1 DEF PreparedJob
<1>15. PreparedJob \in Descriptions
  <2>1. prefix \in Pieces /\ Span(roundPos, inBuff.filled) \in Pieces
    BY <1>5 DEF Within, Pieces, Span
  <2>2. EndFrame \in BOOLEAN
    BY DEF EndFrame
  <2>3. <<>> \in Seq(Blocks)
    OBVIOUS
  <2> QED BY <1>1, <1>5, <2>1, <2>2, <2>3 DEF PreparedJob, Descriptions
<1>16. Sized(PreparedJob)
  <2>1. Within(Span(roundPos, inBuff.filled))
    BY <1>1, <1>5 DEF Within, Span, Pieces, Ends
  <2>2. Span(roundPos, inBuff.filled).size = inBuff.filled /\ Len(<<>>) = 0
    BY DEF Span
  <2> QED BY <1>5, <1>14, <2>1, <2>2 DEF Sized
<1> QED BY <1>7, <1>8, <1>9, <1>10, <1>11, <1>12, <1>13, <1>14, <1>15, <1>16

(* The job prepared lies behind main, and leaves the others where they are.*)
LEMMA PreparedGeometry ==
  ASSUME IInv, CreateJob, ~jobReady
  PROVE  Geometry'
<1>0. PICK p \in Nat : p = Prepared
  BY RoundSizes
<1>1. /\ p = nextJobID /\ ~frameEnded
      /\ Reserved /\ inBuff.start = roundPos /\ roundPos + Section <= Capacity
      /\ inBuff.filled > 0 /\ (~EndFrame => inBuff.filled = Section)
  BY <1>0, JobToPrepare
<1>2. /\ call' = call /\ ~Ended /\ Prepared' = p + 1 /\ doneJobID' = doneJobID
  BY <1>1, DispatchFacts
<1>3. /\ Section' = Section /\ Capacity' = Capacity
  BY <1>2, CallKept
<1>4. /\ \A k \in Live : JobAt(k)' = JobAt(k)
      /\ JobAt(p)' = PreparedJob
      /\ PreparedJob.src = Span(roundPos, inBuff.filled) /\ PreparedJob.prefix = prefix
      /\ PreparedJob.consumed = 0
  BY <1>0, PreparedTable
<1>5. /\ roundPos' = roundPos + inBuff.filled /\ inBuff' = NoInBuff
      /\ (frameEnded' <=> EndFrame)
  BY <1>1 DEF CreateJob, PrepareJob
<1>6. Frontier' = roundPos'
  BY <1>5 DEF Frontier, Reserved, NoInBuff
<1>7. /\ Section \in Nat /\ inBuff.filled \in Nat /\ inBuff.filled <= Section
      /\ doneJobID \in Nat /\ roundPos \in Nat /\ Capacity \in Nat /\ Section > 0
      /\ prefix.start \in Nat /\ prefix.size \in Nat /\ prefix.size <= Section
      /\ Ends(prefix) = prefix.start + prefix.size
      /\ (prefix.size > 0 => Ends(prefix) = roundPos)
  <2>1. Rounding
    BY <1>2, MainTypesNow
  <2>2. prefix.size <= Section
    BY <1>1, <2>1, RoundSizes DEF Rounding
  <2> QED BY <1>1, <2>1, <2>2, RoundSizes DEF Rounding
<1>8. Live' \subseteq Live \cup {p}
  BY <1>0, <1>2, <1>7 DEF Live
<1>9. Unfinished' \subseteq Unfinished \cup {p}
  BY <1>4, <1>8 DEF Unfinished, Completed
<1>10. Behind(p)' /\ Lap(p)' = 0 /\ Low(JobAt(p))' = Low(PreparedJob)
       /\ JobAt(p)'.src.start = roundPos
  BY <1>4, <1>5, <1>7 DEF Behind, Lap, Low, Ends, Span
<1>11. Low(PreparedJob) = IF prefix.size = 0 THEN roundPos ELSE prefix.start
  BY <1>4 DEF Low, Span
<1>12. Geometry
  BY <1>2, MainTypesNow
<1>13. ASSUME NEW k \in Unfinished
       PROVE  /\ k < p /\ k \in Nat /\ JobAt(k)' = JobAt(k)
              /\ Low(JobAt(k))' = Low(JobAt(k)) /\ Low(JobAt(k)) \in Nat
              /\ Behind(k)' <=> Behind(k)
              /\ Lap(k)' = Lap(k)
              /\ Behind(k)' \/ Ahead(k)'
              /\ Behind(k) => Low(JobAt(k)) <= Low(PreparedJob)
  <2>1. /\ k \in Live /\ k \in Nat /\ k < p /\ JobAt(k).src.start \in Nat
        /\ Ends(JobAt(k).src) = JobAt(k).src.start + JobAt(k).src.size
        /\ JobAt(k).src.size = Section
        /\ Low(JobAt(k)) \in Nat /\ Low(JobAt(k)) <= JobAt(k).src.start
    BY <1>0, <1>1, <1>2, UnfinishedJob
  <2>2. JobAt(k)' = JobAt(k)
    BY <1>4, <2>1
  <2>3. Low(JobAt(k))' = Low(JobAt(k))
    BY <2>2 DEF Low
  <2>4. Ahead(k) <=> roundPos + Section <= Low(JobAt(k))
    BY <1>1 DEF Ahead, Frontier
  <2>5. Behind(k) <=> JobAt(k).src.start + Section <= roundPos
    BY <2>1 DEF Behind
  <2>6. Behind(k)' <=> JobAt(k).src.start + Section <= roundPos + inBuff.filled
    BY <1>5, <2>1, <2>2 DEF Behind, Ends
  <2>7. Ahead(k)' <=> roundPos + inBuff.filled <= Low(JobAt(k))
    BY <1>5, <1>6, <2>3 DEF Ahead
  <2>8. Behind(k) \/ Ahead(k)
    BY <1>12 DEF Geometry, Sides
  <2>9. Behind(k)' <=> Behind(k)
    BY <1>7, <2>1, <2>4, <2>5, <2>6, <2>8
  <2>10. Behind(k)' \/ Ahead(k)'
    BY <1>7, <2>1, <2>4, <2>7, <2>8, <2>9
  <2>11. Lap(k)' = Lap(k)
    BY <1>3, <2>9 DEF Lap
  <2>12. Behind(k) => Low(JobAt(k)) <= Low(PreparedJob)
    BY <1>7, <1>11, <2>1, <2>5
  <2> QED BY <2>1, <2>2, <2>3, <2>9, <2>10, <2>11, <2>12
<1>14. Sides'
  BY <1>9, <1>10, <1>13 DEF Sides
<1>15. Ordered'
  <2> SUFFICES ASSUME NEW i \in Unfinished', NEW k \in Unfinished', i < k
               PROVE  /\ Behind(i)' => Behind(k)'
                      /\ (Behind(i)' <=> Behind(k)') => Low(JobAt(i))' <= Low(JobAt(k))'
    BY DEF Ordered
  <2>1. i \in Unfinished
    BY <1>9, <1>13
  <2>2. CASE k = p
    BY <1>10, <1>13, <2>1, <2>2
  <2>3. CASE k # p
    <3>1. k \in Unfinished
      BY <1>9, <2>3
    <3> QED BY <1>12, <1>13, <2>1, <3>1 DEF Geometry, Ordered
  <2> QED BY <2>2, <2>3
<1>16. ASSUME ~frameEnded'
       PROVE  Distances'
  <2>1. inBuff.filled = Section
    BY <1>1, <1>5, <1>16
  <2> SUFFICES ASSUME NEW k \in Unfinished'
               PROVE  (Prepared' - k) * Section' + JobAt(k)'.src.start <= roundPos' + Lap(k)'
    BY DEF Distances
  <2>2. CASE k = p
    <3>1. (Prepared' - k) * Section' = Section
      BY <1>2, <1>3, <1>7, <2>2
    <3> QED BY <1>5, <1>7, <1>10, <2>1, <2>2, <3>1
  <2>3. CASE k # p
    <3>1. k \in Unfinished
      BY <1>9, <2>3
    <3> DEFINE d == (p - k) * Section
    <3>2. /\ k \in Nat /\ k < p /\ JobAt(k)' = JobAt(k) /\ Lap(k)' = Lap(k)
      BY <1>13, <3>1
    <3>3. d + JobAt(k).src.start <= roundPos + Lap(k)
      BY <1>0, <1>1, <1>12, <3>1 DEF Geometry, Distances
    <3>4. (Prepared' - k) * Section' = d + Section /\ d \in Nat
      <4>1. p - k \in Nat /\ Prepared' - k = (p - k) + 1
        BY <1>2, <3>2
      <4> QED BY <1>3, <1>7, <4>1, Products
    <3>5. JobAt(k).src.start \in Nat
      BY <1>2, <3>1, UnfinishedJob
    <3>6. Lap(k) \in Nat
      BY <1>7 DEF Lap
    <3> HIDE DEF d
    <3> QED BY <1>5, <1>7, <2>1, <3>2, <3>3, <3>4, <3>5, <3>6
  <2> QED BY <2>2, <2>3
<1> QED BY <1>14, <1>15, <1>16 DEF Geometry

(* What main knows of its input once the job is prepared.                  *)
LEMMA PreparedInput ==
  ASSUME IInv, CreateJob, ~jobReady
  PROVE  Taken' /\ Rounding' /\ Places' /\ BufferTypes' /\ FrameTypes'
<1>0. PICK p \in Nat : p = Prepared
  BY RoundSizes
<1>1. /\ p = nextJobID /\ ~frameEnded
      /\ Reserved /\ inBuff.start = roundPos /\ roundPos + Section <= Capacity
      /\ inBuff.filled > 0 /\ (~EndFrame => inBuff.filled = Section)
      /\ srcOffset + inPos = p * Section + inBuff.filled
      /\ EndFrame => srcOffset + inPos = Total /\ JobCount = p + 1
      /\ p + 1 <= JobCount
  BY <1>0, JobToPrepare
<1>2. /\ call' = call /\ ~Ended /\ Prepared' = p + 1 /\ doneJobID' = doneJobID
      /\ mpc' = "flush" /\ nextJobID' \in p .. p + 1 /\ jobReady' \in BOOLEAN
      /\ p + 1 - doneJobID <= TableSize
  BY <1>1, DispatchFacts
<1>3. /\ Section' = Section /\ Capacity' = Capacity /\ Total' = Total /\ Cells' = Cells
      /\ JobCount' = JobCount /\ Overlap' = Overlap /\ CallerChunk' = CallerChunk
      /\ TableSize' = TableSize
  BY <1>2, CallKept
<1>4. /\ roundPos' = roundPos + inBuff.filled /\ inBuff' = NoInBuff /\ prefix' = NextPrefix
      /\ (frameEnded' <=> EndFrame) /\ frameEnded' \in BOOLEAN
      /\ srcOffset' = srcOffset /\ inPos' = inPos /\ inUse' = inUse
      /\ roundBuff' = roundBuff
  <2>1. EndFrame \in BOOLEAN
    BY DEF EndFrame
  <2> QED BY <1>1, <2>1 DEF CreateJob, PrepareJob
<1>5. /\ Section \in Nat /\ inBuff.filled \in Nat /\ inBuff.filled <= Section
      /\ doneJobID \in Nat /\ roundPos \in Nat /\ Capacity \in Nat /\ Section > 0
      /\ Overlap \in Nat /\ Overlap <= Section
  BY RoundSizes
<1>6. Taken /\ Rounding /\ BufferTypes /\ FrameTypes
  BY <1>2, MainTypesNow
<1>7. EndFrame' = EndFrame /\ ThisChunk' = ThisChunk
  BY <1>3, <1>4 DEF EndFrame, LastChunk, InputLeft, ThisChunk, Reference!Lowest
<1>8. (p + 1) * Section = p * Section + Section /\ p * Section \in Nat
      /\ (p + 2) * Section = (p + 1) * Section + Section
  <2>1. (p + 1 + 1) * Section = (p + 1) * Section + Section
    BY <1>5, Products
  <2>2. p + 1 + 1 = p + 2
    OBVIOUS
  <2> QED BY <1>5, <2>1, <2>2, Products
<1>9. inBuff'.filled = 0 /\ ~Reserved'
  BY <1>4 DEF NoInBuff, Reserved
<1>10. Taken'
  <2>1. srcOffset < Total /\ inPos <= ThisChunk
    BY <1>6 DEF Taken
  <2>2. frameEnded' => srcOffset + inPos = Total /\ Prepared' = JobCount /\ inBuff' = NoInBuff
    BY <1>1, <1>2, <1>4
  <2>3. ~frameEnded' => srcOffset + inPos = (p + 1) * Section + inBuff'.filled
    BY <1>1, <1>4, <1>5, <1>8, <1>9
  <2>4. ~frameEnded' => srcOffset' + inPos' = Prepared' * Section' + inBuff'.filled
    BY <1>2, <1>3, <1>4, <2>3
  <2>5. ~frameEnded' => ~EndFrame'
    BY <1>4, <1>7
  <2>6. NoInBuff' = NoInBuff
    BY DEF NoInBuff
  <2>7. srcOffset' < Total' /\ inPos' <= ThisChunk'
    BY <1>3, <1>4, <1>7, <2>1
  <2>8. frameEnded' => srcOffset' + inPos' = Total' /\ Prepared' = JobCount' /\ inBuff' = NoInBuff'
    BY <1>3, <1>4, <2>2, <2>6
  <2> QED BY <2>4, <2>5, <2>7, <2>8 DEF Taken
<1>11. /\ prefix' \in Pieces /\ Ends(prefix') <= roundPos'
       /\ ~EndFrame => prefix'.size = Overlap /\ Ends(prefix') = roundPos'
  <2> DEFINE size == IF inBuff.filled < Overlap THEN inBuff.filled ELSE Overlap
  <2>1. NextPrefix = IF EndFrame THEN kNullRange
                     ELSE Span(inBuff.start + inBuff.filled - size, size)
    BY DEF NextPrefix, Reference!Lowest
  <2>2. CASE EndFrame
    BY <1>4, <1>5, <2>1, <2>2 DEF kNullRange, Span, Pieces, Ends
  <2>3. CASE ~EndFrame
    <3>1. size = Overlap /\ inBuff.filled = Section
      BY <1>1, <1>5, <2>3
    <3>2. prefix' = Span(roundPos + Section - Overlap, Overlap)
      BY <1>1, <1>4, <2>1, <2>3, <3>1
    <3> QED BY <1>4, <1>5, <2>3, <3>1, <3>2 DEF Span, Pieces, Ends
  <2> QED BY <2>2, <2>3
<1>12. Rounding'
  <2> SUFFICES ASSUME ~frameEnded'
               PROVE  /\ prefix'.size = IF Prepared' = 0 THEN 0 ELSE Overlap'
                      /\ prefix'.size > 0 => Ends(prefix') = roundPos'
                      /\ (p + 2) * Section <= Capacity => roundPos' = (p + 1) * Section
    <3>1. (Prepared' + 1) * Section' = (p + 2) * Section /\ Prepared' * Section' = (p + 1) * Section
      <4>1. Prepared' + 1 = p + 2
        BY <1>2
      <4> QED BY <1>2, <1>3, <4>1
    <3> QED BY <1>3, <1>9, <3>1 DEF Rounding, Ends
  <2>1. ~EndFrame /\ inBuff.filled = Section
    BY <1>1, <1>4
  <2>2. (p + 2) * Section <= Capacity => roundPos = p * Section
    <3>1. (p + 1) * Section <= Capacity => roundPos = p * Section
      BY <1>0, <1>1, <1>6 DEF Rounding
    <3> QED BY <1>5, <1>8, <3>1
  <2> QED BY <1>2, <1>3, <1>4, <1>5, <1>8, <1>11, <2>1, <2>2
<1>13. Places'
  BY <1>2 DEF Places
<1>14. BufferTypes'
  <2>1. Within(prefix)' /\ Within(inUse)'
    <3>1. Ends(prefix') \in Nat
      BY <1>11 DEF Pieces, Ends
    <3>2. roundPos' \in Nat /\ roundPos' <= Capacity
      BY <1>1, <1>4, <1>5
    <3> QED BY <1>3, <1>4, <1>5, <1>6, <1>11, <3>1, <3>2 DEF Within, Ends, BufferTypes
  <2>2. roundPos' \in 0..Capacity
    BY <1>1, <1>4, <1>5
  <2>3. inBuff' \in [start : -1..Capacity, filled : 0..Section]
    BY <1>4, <1>5 DEF NoInBuff
  <2> QED BY <1>3, <1>4, <1>6, <2>1, <2>2, <2>3 DEF BufferTypes
<1>15. FrameTypes'
  <2>1. nextJobID' \in Nat /\ doneJobID <= nextJobID'
    BY <1>1, <1>2, <1>5, <1>6 DEF FrameTypes
  <2> QED BY <1>1, <1>2, <1>3, <1>4, <1>5, <2>1 DEF FrameTypes
<1> QED BY <1>10, <1>12, <1>13, <1>14, <1>15

(* What the table tells of the live jobs, the new one among them.          *)
LEMMA PreparedLive ==
  ASSUME IInv, CreateJob, ~jobReady
  PROVE  LiveDescribed' /\ LiveAdvanced' /\ JobTypes'
<1>0. PICK p \in Nat : p = Prepared
  BY RoundSizes
<1>1. /\ p = nextJobID /\ ~frameEnded
      /\ Reserved /\ inBuff.start = roundPos /\ roundPos + Section <= Capacity
      /\ inBuff.filled > 0 /\ (~EndFrame => inBuff.filled = Section)
  BY <1>0, JobToPrepare
<1>2. /\ call' = call /\ ~Ended /\ Prepared' = p + 1 /\ doneJobID' = doneJobID
      /\ \A k \in doneJobID .. nextJobID : Waiting(k)' => Waiting(k)
  BY <1>1, DispatchFacts
<1>3. /\ Section' = Section /\ Capacity' = Capacity /\ Overlap' = Overlap
      /\ TableSlots' = TableSlots
  BY <1>2, CallKept
<1>4. /\ \A k \in Live : JobAt(k)' = JobAt(k)
      /\ JobAt(p)' = PreparedJob
      /\ PreparedJob.src = Span(roundPos, inBuff.filled) /\ PreparedJob.prefix = prefix
      /\ PreparedJob.id = p /\ (PreparedJob.last <=> EndFrame)
      /\ PreparedJob.consumed = 0 /\ PreparedJob.blocks = <<>>
      /\ PreparedJob.flushed = 0 /\ ~PreparedJob.error /\ ~PreparedJob.dst
      /\ PreparedJob \in Descriptions /\ Sized(PreparedJob)
      /\ jobs' = [jobs EXCEPT ![Slot(p)] = PreparedJob] /\ Slot(p) \in TableSlots
  BY <1>0, PreparedTable
<1>5. (frameEnded' <=> EndFrame)
  BY <1>1 DEF CreateJob, PrepareJob
<1>6. /\ Section \in Nat /\ inBuff.filled \in Nat /\ inBuff.filled <= Section
      /\ doneJobID \in Nat /\ roundPos \in Nat /\ Capacity \in Nat /\ Section > 0
  BY RoundSizes
<1>7. Rounding /\ LiveDescribed /\ LiveAdvanced /\ JobTypes
  BY <1>2, MainTypesNow
<1>8. Live' \subseteq Live \cup {p} /\ \A k \in Live : k \in Nat /\ k < p /\ k \in doneJobID .. nextJobID
  BY <1>0, <1>1, <1>2, <1>6 DEF Live
<1>9. \A k \in Live : Described(k)'
  <2> SUFFICES ASSUME NEW k \in Live
               PROVE  Described(k)'
    OBVIOUS
  <2>1. JobAt(k)' = JobAt(k) /\ k # Prepared' - 1 /\ k \in Nat
    BY <1>2, <1>4, <1>8
  <2>2. Described(k) /\ ~JobAt(k).last
    BY <1>1, <1>7 DEF LiveDescribed, Described
  <2>3. ~JobAt(k)'.last
    BY <2>1, <2>2
  <2> QED BY <1>3, <2>1, <2>2, <2>3 DEF Described, Ends
<1>10. Described(p)'
  <2>1. /\ JobAt(p)'.src.size = inBuff.filled /\ JobAt(p)'.src.start = roundPos
        /\ JobAt(p)'.prefix = prefix /\ JobAt(p)'.id = p
        /\ JobAt(p)'.last <=> EndFrame
    BY <1>4 DEF Span
  <2>2. /\ prefix.size = IF p = 0 THEN 0 ELSE Overlap
        /\ prefix.size > 0 => Ends(prefix) = roundPos
        /\ (p + 1) * Section <= Capacity => roundPos = p * Section
    BY <1>0, <1>1, <1>7 DEF Rounding
  <2>3. p = Prepared' - 1
    BY <1>2
  <2>4. JobAt(p)'.last <=> (frameEnded' /\ p = Prepared' - 1)
    BY <1>5, <2>1, <2>3
  <2>5. ~JobAt(p)'.last => JobAt(p)'.src.size = Section
    BY <1>1, <2>1
  <2> QED BY <1>1, <1>3, <2>1, <2>2, <2>4, <2>5 DEF Described, Ends
<1>11. LiveDescribed'
  BY <1>8, <1>9, <1>10 DEF LiveDescribed
<1>12. LiveAdvanced'
  <2>1. ASSUME NEW k \in Live
        PROVE  Advanced(k)'
    <3>1. Advanced(k) /\ JobAt(k)' = JobAt(k) /\ (Waiting(k)' => Waiting(k))
      BY <1>2, <1>4, <1>7, <1>8 DEF LiveAdvanced
    <3> QED BY <3>1 DEF Advanced, Completed
  <2>2. Advanced(p)'
    <3>1. /\ JobAt(p)'.flushed = 0 /\ JobAt(p)'.blocks = <<>> /\ ~JobAt(p)'.error
          /\ JobAt(p)'.consumed = 0 /\ JobAt(p)'.src.size = inBuff.filled
      BY <1>4 DEF Span
    <3>2. ~Completed(JobAt(p))' /\ Len(<<>>) = 0
      BY <1>1, <1>6, <3>1 DEF Completed
    <3> QED BY <3>1, <3>2 DEF Advanced
  <2> QED BY <1>8, <2>1, <2>2 DEF LiveAdvanced
<1>13. JobTypes'
  <2>1. jobs' \in [TableSlots -> Descriptions]
    BY <1>4, <1>7 DEF JobTypes
  <2>2. \A s \in TableSlots : Sized(jobs'[s])
    BY <1>4, <1>7 DEF JobTypes
  <2>3. \A s \in TableSlots : Sized(jobs[s])'
    BY <1>3, <2>2 DEF Sized, Within, Ends
  <2> QED BY <1>3, <2>1, <2>3 DEF JobTypes
<1> QED BY <1>11, <1>12, <1>13

(* ZSTDMT_createCompressionJob describes the job and dispatches it.        *)
LEMMA CreateJobPreserves ==
  ASSUME IInv, CreateJob
  PROVE  IInv'
<1> SUFFICES ASSUME ~jobReady
             PROVE  IInv'
  BY ReadyJobPreserves
<1>0. PICK p \in Nat : p = Prepared
  BY RoundSizes
<1>1. /\ UNCHANGED Threads /\ call' = call /\ doneJobID' = doneJobID
      /\ mpc = "create" /\ mpc' = "flush" /\ ~Ended /\ ~Ended' /\ ~Stopping
      /\ Prepared' = p + 1 /\ p = nextJobID
      /\ PoolTypes' /\ QueueInv'
      /\ \A w \in Workers :
           Working(w) => /\ running[w] \in doneJobID' .. nextJobID' - 1
                         /\ running[w] \notin Pool!Queued'
      /\ p + 1 - doneJobID <= TableSize
  BY <1>0, JobToPrepare, DispatchFacts
<1>2. /\ failed' = failed /\ srcOffset' = srcOffset /\ inBuff' = NoInBuff
      /\ inPos' = inPos /\ forward' = forward /\ outcome' = outcome
      /\ bufPool' = bufPool /\ cctxPool' = cctxPool /\ failures' = failures
  BY DEF CreateJob, PrepareJob, resourceVars
<1>3. MainTypes /\ FrameTypes /\ JobTypes /\ ResourcesInv /\ HeldInv
  BY MainTypesNow
<1>4. /\ Total' = Total /\ CallerChunk' = CallerChunk /\ MaxFailures' = MaxFailures
      /\ NbWorkers' = NbWorkers /\ TableSize' = TableSize /\ MaxBuffers' = MaxBuffers
      /\ TableSlots' = TableSlots /\ \A k : Slot(k)' = Slot(k)
  BY <1>1, CallKept
<1>5. /\ DOMAIN jobs = TableSlots /\ DOMAIN jobs' = TableSlots
      /\ Slot(p) \in TableSlots
      /\ \A s \in TableSlots : s # Slot(p) => jobs'[s] = jobs[s]
      /\ \A k \in Live : JobAt(k)' = JobAt(k)
      /\ ~jobs[Slot(p)].dst /\ ~jobs'[Slot(p)].dst
  <2>1. JobAt(p)' = jobs'[Slot(p)]
    BY <1>4 DEF JobAt
  <2> QED BY <1>0, <2>1, PreparedTable
<1>6. Types'
  <2>1. MainTypes'
    BY <1>1, <1>2, <1>3, <1>4 DEF MainTypes
  <2>2. WindowTypes' /\ WorkerTypes'
    BY <1>1, ThreadsKept
  <2> QED BY <1>1, <2>1, <2>2, PreparedInput, PreparedLive DEF Types
<1>7. FrameInv'
  BY PreparedInput, PreparedLive, PreparedGeometry DEF FrameInv
<1>8. doneJobID \in Nat /\ NbWorkers \in Nat /\ doneJobID <= p
  BY <1>1, <1>3, RoundSizes DEF FrameTypes
<1>9. Claims' = Claims /\ Claims' = p + 1 - doneJobID
  <2>1. Reserved /\ ~Reserved'
    BY <1>2, JobToPrepare DEF Reserved, NoInBuff
  <2> QED BY <1>0, <1>1, <1>8, <2>1 DEF Claims
<1>10. Bounded'
  <2>1. Bounded
    BY <1>1, <1>3 DEF HeldInv
  <2>2. CASE Claims <= NbWorkers + 3
    BY <1>4, <1>9, <2>2 DEF Bounded
  <2>3. CASE Claims = NbWorkers + 4 /\ Completed(Oldest)
    <3>1. doneJobID \in Live
      <4>1. doneJobID < p
        <5>1. p + 1 - doneJobID = NbWorkers + 4
          BY <1>9, <2>3
        <5> QED BY <1>8, <5>1
      <4> QED BY <1>0, <1>3, <1>8, <4>1, PreparedJobs
    <3>2. Oldest' = Oldest
      BY <1>1, <3>1, <1>4, <1>5 DEF Oldest, JobAt
    <3> QED BY <1>1, <1>4, <1>9, <2>3, <3>2 DEF Bounded, Completed
  <2> QED BY <2>1, <2>2, <2>3 DEF Bounded
<1>11. HeldInv'
  <2>1. HeldFrom(doneJobID)'
    <3>1. Prepared' - doneJobID' <= TableSize' /\ Prepared' - doneJobID' <= MaxBuffers'
      <4>1. Claims' <= NbWorkers + 4
        BY <1>4, <1>8, <1>9, <1>10 DEF Bounded
      <4>2. MaxBuffers \in Nat /\ MaxBuffers >= NbWorkers + 4
        BY <1>3, Sizes DEF MainTypes
      <4> QED BY <1>1, <1>4, <1>8, <1>9, <4>1, <4>2
    <3>2. ASSUME NEW s \in TableSlots, jobs'[s].dst
          PROVE  \E k \in doneJobID .. p : s = Slot(k)
      <4>1. jobs[s].dst
        BY <1>5, <3>2
      <4>2. HeldFrom(doneJobID)
        BY <1>1, <1>3 DEF HeldInv
      <4> QED BY <1>0, <1>8, <4>1, <4>2 DEF HeldFrom
    <3>3. doneJobID' .. Prepared' - 1 = doneJobID .. p
      BY <1>1, <1>8
    <3>4. \A s \in TableSlots' :
            jobs'[s].dst => \E k \in doneJobID' .. Prepared' - 1 : s = Slot(k)'
      BY <1>4, <3>2, <3>3
    <3> QED BY <3>1, <3>4 DEF HeldFrom
  <2>2. doneJobID' \in 0..doneJobID'
    BY <1>1, <1>8
  <2> QED BY <1>10, <2>1, <2>2 DEF HeldInv
<1>12. WorkersInv'
  <2> SUFFICES ASSUME NEW w \in Workers, Working(w)
               PROVE  JobOf(w)' = JobOf(w)
    BY <1>1, WorkersKept
  <2>1. running' = running
    BY <1>1 DEF Threads
  <2>2. running[w] \in Live
    <3>1. running[w] \in doneJobID .. nextJobID - 1
      BY MainTypesNow DEF WorkersInv, WorkerJob
    <3> QED BY <1>3, <3>1, PreparedJobs
  <2>3. \A k : k = running[w] => JobOf(w) = JobAt(k) /\ JobOf(w)' = JobAt(k)'
    BY <2>1 DEF JobOf, SlotOf, JobAt
  <2> QED BY <1>5, <2>2, <2>3
<1>13. JobsShared' /\ TurnsInv' /\ Holding' = Holding
  BY <1>1, ThreadsKept
<1>14. ResourcesInv'
  <2>1. {s \in DOMAIN jobs : jobs[s].dst}' = {s \in DOMAIN jobs : jobs[s].dst}
    BY <1>5
  <2>2. HeldBuffers' = HeldBuffers
    BY <2>1 DEF HeldBuffers
  <2> QED BY <1>2, <1>3, <1>4, <1>13, <2>2 DEF ResourcesInv
<1>15. (mpc = "range" => Scanned)'
  BY <1>1
<1> QED BY <1>1, <1>6, <1>7, <1>11, <1>12, <1>13, <1>14, <1>15 DEF IInv

(* What a flush leaves of the table, the output buffers and the jobs.      *)
FlushLeaves ==
  /\ JobTypes' /\ ResourcesInv' /\ HeldFrom(doneJobID)'
  /\ doneJobID' \in doneJobID .. nextJobID
  /\ doneJobID' # doneJobID => doneJobID' = doneJobID + 1 /\ Completed(Oldest)
  /\ \A k \in Live :
       k >= doneJobID' =>
         /\ JobAt(k)'.src = JobAt(k).src /\ JobAt(k)'.prefix = JobAt(k).prefix
         /\ JobAt(k)'.id = JobAt(k).id /\ JobAt(k)'.last = JobAt(k).last
         /\ JobAt(k)'.consumed = JobAt(k).consumed /\ JobAt(k)'.error = JobAt(k).error
         /\ JobAt(k)'.dst = JobAt(k).dst /\ JobAt(k)'.blocks = JobAt(k).blocks
         /\ JobAt(k)'.flushed <= Len(JobAt(k).blocks)
  /\ Prepared - doneJobID' + (IF Reserved THEN 1 ELSE 0) <= NbWorkers + 3

(* A flush with no job to flush keeps what FlushLeaves lists.              *)
LEMMA NothingToFlush ==
  ASSUME IInv, FlushProduced, doneJobID = nextJobID
  PROVE  FlushLeaves
<1>1. /\ call' = call /\ jobs' = jobs /\ bufPool' = bufPool /\ doneJobID' = doneJobID
      /\ nextJobID' = nextJobID /\ jobReady' = jobReady /\ cctxPool' = cctxPool
      /\ wctx' = wctx /\ mpc = "flush"
  BY DEF FlushProduced, workerVars
<1>2. ~Ended /\ ~Stopping
  BY <1>1 DEF Ended, Stopping
<1>3. JobTypes /\ ResourcesInv /\ HeldInv /\ LiveAdvanced /\ FrameTypes
  BY <1>2, MainTypesNow
<1>4. /\ NbWorkers' = NbWorkers /\ TableSize' = TableSize /\ MaxBuffers' = MaxBuffers
      /\ TableSlots' = TableSlots /\ Capacity' = Capacity /\ Section' = Section
      /\ \A k : Slot(k)' = Slot(k)
  BY <1>1, CallKept
<1>5. Prepared' = Prepared
  BY <1>1 DEF Prepared
<1>6. \A k : JobAt(k)' = JobAt(k)
  BY <1>1, <1>4 DEF JobAt
<1>7. JobTypes'
  BY <1>1, <1>3, <1>4 DEF JobTypes, Sized, Within, Ends
<1>8. ResourcesInv'
  BY <1>1, <1>3, <1>4 DEF ResourcesInv, HeldBuffers, Holding
<1>9. HeldFrom(doneJobID)'
  BY <1>1, <1>2, <1>3, <1>4, <1>5 DEF HeldFrom, HeldInv
<1>10. doneJobID' \in doneJobID .. nextJobID
  BY <1>1, <1>3 DEF FrameTypes
<1>11. \A k \in Live : JobAt(k)'.flushed <= Len(JobAt(k).blocks)
  BY <1>3, <1>6 DEF LiveAdvanced, Advanced
<1>12. Prepared - doneJobID' + (IF Reserved THEN 1 ELSE 0) <= NbWorkers + 3
  <2>1. Prepared \in nextJobID .. nextJobID + 1 /\ NbWorkers \in Nat /\ nextJobID \in Nat
    BY <1>3, PreparedJobs, RoundSizes
  <2> QED BY <1>1, <2>1
<1> QED BY <1>1, <1>6, <1>7, <1>8, <1>9, <1>10, <1>11, <1>12 DEF FlushLeaves

(* So does a flush of the oldest job, or of its end.                       *)
LEMMA SomeFlushed ==
  ASSUME IInv, FlushProduced, doneJobID # nextJobID
  PROVE  FlushLeaves
<1> DEFINE o == Slot(doneJobID)
           job == Oldest
           new == AfterFlush(Oldest)
<1>1. /\ call' = call /\ mpc = "flush" /\ ~Oldest.error
      /\ jobs' = [jobs EXCEPT ![o] = new]
      /\ bufPool' = IF Flushed THEN WithReleased(bufPool, 1) ELSE bufPool
      /\ doneJobID' = IF Flushed THEN doneJobID + 1 ELSE doneJobID
      /\ nextJobID' = nextJobID /\ jobReady' = jobReady /\ cctxPool' = cctxPool
      /\ wctx' = wctx
  BY DEF FlushProduced, workerVars, Oldest
<1>2. ~Ended /\ ~Stopping
  BY <1>1 DEF Ended, Stopping
<1>3. MainTypes /\ FrameTypes /\ JobTypes /\ ResourcesInv /\ HeldInv /\ LiveAdvanced
  BY <1>2, MainTypesNow
<1>4. /\ NbWorkers' = NbWorkers /\ TableSize' = TableSize /\ MaxBuffers' = MaxBuffers
      /\ TableSlots' = TableSlots /\ Capacity' = Capacity /\ Section' = Section
      /\ \A k : Slot(k)' = Slot(k)
  BY <1>1, CallKept
<1>5. Prepared' = Prepared
  BY <1>1 DEF Prepared
<1>6. /\ doneJobID \in Live /\ doneJobID \in Nat /\ nextJobID \in Nat
      /\ doneJobID < nextJobID /\ Prepared \in Nat /\ doneJobID < Prepared
      /\ \A k \in Live : k \in Nat /\ k >= doneJobID /\ k < Prepared
  <2>1. doneJobID \in Nat /\ nextJobID \in Nat /\ doneJobID < nextJobID
    BY <1>3 DEF FrameTypes
  <2>2. doneJobID \in doneJobID .. nextJobID - 1
    BY <2>1
  <2> QED BY <1>3, <2>1, <2>2, PreparedJobs
<1>7. /\ o \in TableSlots /\ job = JobAt(doneJobID) /\ job = jobs[o]
      /\ job \in Descriptions /\ Sized(job) /\ DOMAIN jobs = TableSlots
      /\ \A k \in Live : Slot(k) = o => k = doneJobID
      /\ \A k \in Live : Slot(k) \in TableSlots
  BY <1>3, <1>6, LiveSlots DEF Oldest, JobAt, JobTypes
<1>8. Advanced(doneJobID)
  BY <1>3, <1>6 DEF LiveAdvanced
<1>9. /\ job.blocks # <<>> => job.dst
      /\ Completed(job) => job.blocks # <<>>
  BY <1>1, <1>7, <1>8 DEF Advanced
<1>10. /\ job.blocks \in Seq(Blocks) /\ Len(job.blocks) \in Nat
       /\ Len(job.blocks) <= job.consumed /\ job.consumed <= job.src.size
       /\ job.src.size <= Section /\ Section \in Nat
       /\ job.consumed \in Nat /\ job.src.size \in Nat
  <2>1. job.blocks \in Seq(Blocks)
    BY <1>7 DEF Descriptions
  <2>2. Section \in Nat
    BY RoundSizes
  <2> QED BY <1>7, <2>1, <2>2, LenProperties, Describing DEF Sized
<1>11. /\ new \in Descriptions
       /\ new.src = job.src /\ new.prefix = job.prefix /\ new.id = job.id
       /\ new.last = job.last /\ new.consumed = job.consumed /\ new.error = job.error
       /\ new.flushed = Len(job.blocks)
       /\ new.dst = IF Flushed THEN FALSE ELSE job.dst
       /\ new.blocks = IF Flushed THEN <<>> ELSE job.blocks
  <2>1. CASE Flushed
    <3>1. new = [job EXCEPT !.flushed = Len(job.blocks), !.dst = FALSE, !.blocks = <<>>]
      BY <2>1 DEF AfterFlush
    <3>2. <<>> \in Seq(Blocks)
      OBVIOUS
    <3> HIDE DEF job, new
    <3> QED BY <1>7, <1>10, <2>1, <3>1, <3>2 DEF Descriptions
  <2>2. CASE ~Flushed
    <3>1. new = [job EXCEPT !.flushed = Len(job.blocks)]
      BY <2>2 DEF AfterFlush
    <3> HIDE DEF job, new
    <3> QED BY <1>7, <1>10, <2>2, <3>1 DEF Descriptions
  <2> QED BY <2>1, <2>2
<1> HIDE DEF o, job, new
<1>12. Sized(new)
  <2>1. Len(new.blocks) <= new.consumed
    <3>1. Len(<<>>) = 0
      OBVIOUS
    <3> QED BY <1>10, <1>11, <3>1
  <2> QED BY <1>7, <1>10, <1>11, <2>1 DEF Sized
<1>13. /\ DOMAIN jobs' = TableSlots /\ jobs'[o] = new
       /\ \A s \in TableSlots : s # o => jobs'[s] = jobs[s]
  BY <1>1, <1>7
<1>14. JobTypes'
  <2>1. jobs' \in [TableSlots -> Descriptions]
    BY <1>1, <1>3, <1>11 DEF JobTypes
  <2>2. \A s \in TableSlots : Sized(jobs'[s])
    BY <1>3, <1>12, <1>13 DEF JobTypes
  <2>3. \A s \in TableSlots : Sized(jobs[s])'
    BY <1>4, <2>2 DEF Sized, Within, Ends
  <2> QED BY <1>4, <2>1, <2>3 DEF JobTypes
<1>15. Flushed <=> Completed(job) /\ job.blocks # <<>>
  BY DEF Flushed, job
<1>16. \A k \in Live :
         k >= doneJobID' =>
           /\ JobAt(k)'.src = JobAt(k).src /\ JobAt(k)'.prefix = JobAt(k).prefix
           /\ JobAt(k)'.id = JobAt(k).id /\ JobAt(k)'.last = JobAt(k).last
           /\ JobAt(k)'.consumed = JobAt(k).consumed /\ JobAt(k)'.error = JobAt(k).error
           /\ JobAt(k)'.dst = JobAt(k).dst /\ JobAt(k)'.blocks = JobAt(k).blocks
           /\ JobAt(k)'.flushed <= Len(JobAt(k).blocks)
  <2> SUFFICES ASSUME NEW k \in Live, k >= doneJobID'
               PROVE  /\ JobAt(k)'.src = JobAt(k).src /\ JobAt(k)'.prefix = JobAt(k).prefix
                      /\ JobAt(k)'.id = JobAt(k).id /\ JobAt(k)'.last = JobAt(k).last
                      /\ JobAt(k)'.consumed = JobAt(k).consumed
                      /\ JobAt(k)'.error = JobAt(k).error
                      /\ JobAt(k)'.dst = JobAt(k).dst /\ JobAt(k)'.blocks = JobAt(k).blocks
                      /\ JobAt(k)'.flushed <= Len(JobAt(k).blocks)
    OBVIOUS
  <2>1. JobAt(k)' = jobs'[Slot(k)] /\ JobAt(k) = jobs[Slot(k)]
    BY <1>4 DEF JobAt
  <2>2. CASE k = doneJobID
    <3>1. ~Flushed
      BY <1>1, <1>6, <2>2
    <3>2. JobAt(k)' = new /\ JobAt(k) = job
      BY <1>7, <1>13, <2>1, <2>2 DEF o
    <3> QED BY <1>10, <1>11, <3>1, <3>2
  <2>3. CASE k # doneJobID
    <3>1. JobAt(k)' = JobAt(k)
      BY <1>7, <1>13, <2>1, <2>3
    <3> QED BY <1>3, <3>1 DEF LiveAdvanced, Advanced
  <2> QED BY <2>2, <2>3
<1>17. doneJobID' \in doneJobID .. nextJobID
       /\ (doneJobID' # doneJobID => doneJobID' = doneJobID + 1 /\ Completed(Oldest))
  BY <1>1, <1>6, <1>15 DEF job
<1>18. HeldFrom(doneJobID)
  BY <1>2, <1>3 DEF HeldInv
<1>19. MaxBuffers \in Nat /\ TableSize \in Nat /\ NbWorkers \in Nat
  BY <1>3, Sizes, RoundSizes DEF MainTypes
<1>20. HeldFrom(doneJobID)'
  <2>1. Prepared - doneJobID' <= TableSize /\ Prepared - doneJobID' <= MaxBuffers
    <3>1. Prepared - doneJobID <= TableSize /\ Prepared - doneJobID <= MaxBuffers
      BY <1>18 DEF HeldFrom
    <3>2. PICK d \in Nat : d = doneJobID' /\ doneJobID <= d
      BY <1>6, <1>17
    <3>3. d \in Nat /\ doneJobID <= d
      BY <3>2
    <3>4. Prepared - d <= TableSize /\ Prepared - d <= MaxBuffers
      BY <1>6, <1>19, <3>1, <3>3
    <3> QED BY <3>2, <3>4, Zenon
  <2>2. ASSUME NEW s \in TableSlots, jobs'[s].dst
        PROVE  \E k \in doneJobID' .. Prepared - 1 : s = Slot(k)
    <3>1. CASE s = o
      <4>1. ~Flushed
        BY <1>11, <1>13, <2>2, <3>1
      <4> QED BY <1>1, <1>6, <3>1, <4>1 DEF o
    <3>2. CASE s # o
      <4>1. PICK k \in doneJobID .. Prepared - 1 : s = Slot(k)
        BY <1>13, <1>18, <2>2, <3>2 DEF HeldFrom
      <4>2. k # doneJobID
        BY <3>2, <4>1 DEF o
      <4> QED BY <1>1, <1>6, <4>1, <4>2
    <3> QED BY <3>1, <3>2
  <2> QED BY <1>4, <1>5, <2>1, <2>2 DEF HeldFrom
<1>21. ResourcesInv'
  <2> DEFINE H == {s \in DOMAIN jobs : jobs[s].dst}
  <2>1. HeldBuffers = Cardinality(H) /\ HeldBuffers' = Cardinality(H')
    BY DEF HeldBuffers
  <2>2. IsFiniteSet(H) /\ HeldBuffers \in Nat
    BY SetsFinite
  <2>3. bufPool \in Nat /\ bufPool + HeldBuffers <= MaxBuffers
        /\ cctxPool' \in Nat /\ cctxPool' + Cardinality(Holding') <= NbWorkers
    BY <1>1, <1>3 DEF ResourcesInv, Holding
  <2>4. CASE Flushed
    <3>1. job.dst
      BY <1>9, <1>15, <2>4
    <3>2. H' = H \ {o} /\ o \in H
      BY <1>7, <1>11, <1>13, <2>4, <3>1
    <3> HIDE DEF H
    <3>3. HeldBuffers' = HeldBuffers - 1 /\ HeldBuffers' \in Nat
      BY <2>1, <2>2, <3>2, OneLess
    <3>4. bufPool' = bufPool + 1
      BY <1>1, <1>19, <2>2, <2>3, <2>4, <3>3 DEF WithReleased, Reference!Lowest
    <3> QED BY <1>4, <2>2, <2>3, <3>3, <3>4 DEF ResourcesInv
  <2>5. CASE ~Flushed
    <3>1. H' = H
      BY <1>7, <1>11, <1>13, <2>5
    <3>2. HeldBuffers' = HeldBuffers
      BY <2>1, <3>1
    <3> QED BY <1>1, <1>4, <2>3, <2>5, <3>2 DEF ResourcesInv
  <2> QED BY <2>4, <2>5
<1>22. Prepared - doneJobID' + (IF Reserved THEN 1 ELSE 0) <= NbWorkers + 3
  <2>1. Bounded
    BY <1>2, <1>3 DEF HeldInv
  <2>2. Claims \in Int /\ Claims <= NbWorkers + 4
    <3>1. Claims \in Int
      BY <1>6 DEF Claims
    <3> QED BY <1>19, <2>1, <3>1 DEF Bounded
  <2>3. CASE Flushed
    BY <1>1, <1>6, <1>19, <2>2, <2>3 DEF Claims
  <2>4. CASE ~Flushed
    <3>1. ~Completed(Oldest)
      BY <1>9, <1>15, <2>4 DEF job
    <3>2. Claims <= NbWorkers + 3
      BY <2>1, <3>1 DEF Bounded
    <3> QED BY <1>1, <2>4, <3>2 DEF Claims
  <2> QED BY <2>3, <2>4
<1> QED BY <1>14, <1>16, <1>17, <1>20, <1>21, <1>22 DEF FlushLeaves

(* What main does after a flush: it goes round again, or all has been      *)
(* flushed.                                                                *)
LEMMA AfterTheFlush ==
  ASSUME IInv, FlushProduced, FlushLeaves
  PROVE  /\ mpc' \in {"scan", "free"} /\ srcOffset' \in 0..Total /\ inPos' \in 0..CallerChunk
         /\ mpc' = "scan" => Taken'
         /\ mpc' = "free" => doneJobID' = nextJobID
<1>1. /\ call' = call /\ mpc = "flush" /\ inBuff' = inBuff
      /\ nextJobID' = nextJobID /\ jobReady' = jobReady /\ frameEnded' = frameEnded
      /\ NextCall(doneJobID) \/ NextCall(doneJobID')
      /\ doneJobID = nextJobID => doneJobID' = doneJobID
      /\ doneJobID # nextJobID => NextCall(doneJobID')
  <2>1. doneJobID = nextJobID => doneJobID' = doneJobID /\ NextCall(doneJobID)
    BY DEF FlushProduced
  <2>2. doneJobID # nextJobID => NextCall(doneJobID')
    BY DEF FlushProduced
  <2> QED BY <2>1, <2>2 DEF FlushProduced, inputVars
<1>2. ~Ended /\ ~Stopping
  BY <1>1 DEF Ended, Stopping
<1>3. FrameTypes /\ MainTypes /\ Taken /\ LiveDescribed
  BY <1>2, MainTypesNow
<1>4. /\ Total' = Total /\ CallerChunk' = CallerChunk /\ Section' = Section
      /\ JobCount' = JobCount
  BY <1>1, CallKept
<1>5. Prepared' = Prepared
  BY <1>1 DEF Prepared
<1>6. /\ Total \in Nat /\ CallerChunk \in Nat /\ CallerChunk > 0 /\ srcOffset \in Nat
      /\ inPos \in Nat /\ srcOffset <= Total /\ doneJobID \in Nat /\ nextJobID \in Nat
      /\ srcOffset < Total /\ inPos <= ThisChunk /\ doneJobID <= nextJobID
  BY <1>3, RoundSizes DEF Taken, FrameTypes
<1>7. /\ ThisChunk \in Nat /\ srcOffset + ThisChunk <= Total /\ ThisChunk <= CallerChunk
      /\ ThisChunk > 0
  BY <1>6 DEF ThisChunk, Reference!Lowest
<1>8. PICK d \in doneJobID .. nextJobID : d = doneJobID' /\ NextCall(d)
  <2>1. doneJobID' \in doneJobID .. nextJobID
    BY DEF FlushLeaves
  <2>2. CASE doneJobID = nextJobID
    <3>1. NextCall(doneJobID) /\ doneJobID' = doneJobID
      BY <2>2 DEF FlushProduced
    <3> QED BY <1>6, <3>1
  <2>3. CASE doneJobID # nextJobID
    <3>1. \A d : d = doneJobID' => NextCall(d)
      BY <1>1, <2>3
    <3> QED BY <2>1, <3>1
  <2> QED BY <2>2, <2>3
<1>9. CASE ~ChunkOver(d)
  <2>1. mpc' = "scan" /\ srcOffset' = srcOffset /\ inPos' = inPos
    BY <1>8, <1>9 DEF NextCall
  <2>2. ThisChunk' = ThisChunk /\ EndFrame' = EndFrame
    BY <1>4, <2>1 DEF ThisChunk, EndFrame, LastChunk, InputLeft, Reference!Lowest
  <2>3. Taken'
    BY <1>1, <1>3, <1>4, <1>5, <2>1, <2>2 DEF Taken, NoInBuff
  <2> QED BY <1>3, <2>1, <2>3 DEF MainTypes
<1>10. CASE ChunkOver(d) /\ LastChunk
  <2>1. NothingRemains(d)
    BY <1>10 DEF ChunkOver
  <2>2. srcOffset' = srcOffset + ThisChunk /\ inPos' = 0
        /\ mpc' = IF srcOffset' >= Total THEN "free" ELSE "scan"
    BY <1>8, <1>10 DEF NextCall
  <2>3. srcOffset + ThisChunk >= Total
    BY <1>10 DEF LastChunk
  <2>4. mpc' = "free"
    BY <2>2, <2>3
  <2>5. d = nextJobID
    <3>1. doneJobID \in Live => jobs[Slot(doneJobID)].src.size > 0
      BY <1>3 DEF LiveDescribed, Described, JobAt
    <3>2. d = nextJobID \/ jobs[Slot(doneJobID)].src.size = 0
      BY <2>1 DEF NothingRemains
    <3>3. doneJobID # nextJobID => doneJobID \in doneJobID .. nextJobID - 1
      BY <1>6
    <3>4. doneJobID # nextJobID => doneJobID \in Live
      BY <1>3, <3>3, PreparedJobs
    <3>5. doneJobID = nextJobID => d = nextJobID
      BY <1>6
    <3> QED BY <3>1, <3>2, <3>4, <3>5
  <2>6. srcOffset' \in 0..Total /\ inPos' \in 0..CallerChunk
    BY <1>6, <1>7, <2>2
  <2> QED BY <1>8, <2>4, <2>5, <2>6
<1>11. CASE ChunkOver(d) /\ ~LastChunk
  <2>1. ~InputLeft
    BY <1>11 DEF ChunkOver
  <2>2. srcOffset' = srcOffset + ThisChunk /\ inPos' = 0
        /\ mpc' = IF srcOffset' >= Total THEN "free" ELSE "scan"
    BY <1>8, <1>11 DEF NextCall
  <2>3. srcOffset + ThisChunk < Total
    BY <1>6, <1>7, <1>11 DEF LastChunk
  <2>4. mpc' = "scan"
    BY <1>6, <1>7, <2>2, <2>3
  <2>5. inPos = ThisChunk
    BY <1>6, <1>7, <2>1 DEF InputLeft
  <2>6. ThisChunk' > 0 /\ ThisChunk' \in Nat
    <3>1. PICK n \in Nat : n = srcOffset + ThisChunk
      BY <1>6, <1>7
    <3>2. n < Total
      BY <2>3, <3>1
    <3>3. ThisChunk' = IF Total - n < CallerChunk THEN Total - n ELSE CallerChunk
      BY <1>4, <2>2, <3>1 DEF ThisChunk, Reference!Lowest
    <3> QED BY <1>6, <3>2, <3>3
  <2>7. ~EndFrame'
    <3>1. InputLeft'
      BY <2>2, <2>6 DEF InputLeft
    <3> QED BY <3>1 DEF EndFrame
  <2>8. Taken'
    <3>1. srcOffset' < Total' /\ inPos' <= ThisChunk'
      BY <1>4, <2>2, <2>3, <2>6
    <3>2. srcOffset' + inPos' = srcOffset + inPos
      BY <1>6, <1>7, <2>2, <2>5
    <3>3. NoInBuff' = NoInBuff
      BY DEF NoInBuff
    <3>4. frameEnded' =>
            srcOffset' + inPos' = Total' /\ Prepared' = JobCount' /\ inBuff' = NoInBuff'
      BY <1>1, <1>3, <1>4, <1>5, <3>2, <3>3 DEF Taken
    <3>5. ~frameEnded' => srcOffset' + inPos' = Prepared' * Section' + inBuff'.filled
      BY <1>1, <1>3, <1>4, <1>5, <3>2 DEF Taken
    <3> QED BY <2>7, <3>1, <3>4, <3>5 DEF Taken
  <2>9. srcOffset' \in 0..Total /\ inPos' \in 0..CallerChunk
    BY <1>6, <1>7, <2>2
  <2> QED BY <2>4, <2>8, <2>9
<1> QED BY <1>9, <1>10, <1>11

(* ZSTDMT_flushProduced, and what the loop of compress() does after it.    *)
LEMMA FlushProducedPreserves ==
  ASSUME IInv, FlushProduced
  PROVE  IInv'
<1>1. /\ UNCHANGED Threads /\ call' = call /\ mpc = "flush" /\ failed' = failed
      /\ forward' = forward /\ outcome' = outcome /\ inUse' = inUse /\ inBuff' = inBuff
      /\ prefix' = prefix /\ roundBuff' = roundBuff /\ roundPos' = roundPos
      /\ nextJobID' = nextJobID /\ jobReady' = jobReady /\ frameEnded' = frameEnded
      /\ failures' = failures /\ queue' = queue
  BY DEF FlushProduced, Threads, inputVars, serialVars, workerVars, poolVars
<1>2. ~Ended /\ ~Stopping
  BY <1>1 DEF Ended, Stopping
<1>3. /\ MainTypes /\ BufferTypes /\ FrameTypes /\ JobTypes /\ PoolTypes /\ QueueInv
      /\ Rounding /\ LiveDescribed /\ LiveAdvanced /\ Geometry
  BY <1>2, MainTypesNow
<1>4. FlushLeaves
  BY NothingToFlush, SomeFlushed
<1>5. /\ mpc' \in {"scan", "free"} /\ srcOffset' \in 0..Total /\ inPos' \in 0..CallerChunk
      /\ mpc' = "scan" => Taken'
      /\ mpc' = "free" => doneJobID' = nextJobID
  BY <1>4, AfterTheFlush
<1>6. /\ Total' = Total /\ CallerChunk' = CallerChunk /\ MaxFailures' = MaxFailures
      /\ NbWorkers' = NbWorkers /\ Section' = Section /\ Capacity' = Capacity
      /\ Cells' = Cells /\ JobCount' = JobCount /\ Overlap' = Overlap
      /\ TableSize' = TableSize /\ \A k : Slot(k)' = Slot(k)
  BY <1>1, CallKept
<1>7. /\ JobTypes' /\ ResourcesInv' /\ HeldFrom(doneJobID)'
      /\ doneJobID' \in doneJobID .. nextJobID
      /\ doneJobID' # doneJobID => doneJobID' = doneJobID + 1 /\ Completed(Oldest)
      /\ Prepared - doneJobID' + (IF Reserved THEN 1 ELSE 0) <= NbWorkers + 3
  BY <1>4 DEF FlushLeaves
<1>8. Prepared' = Prepared /\ Reserved' = Reserved
  BY <1>1 DEF Prepared, Reserved, NoInBuff
<1>9. /\ doneJobID \in Nat /\ nextJobID \in Nat /\ Prepared \in Nat /\ doneJobID <= nextJobID
      /\ doneJobID' \in Nat /\ doneJobID <= doneJobID' /\ doneJobID' <= nextJobID
      /\ TableSize \in Nat
  <2>1. TableSize \in Nat
    BY <1>3, Sizes DEF MainTypes
  <2> QED BY <1>3, <1>7, <2>1, RoundSizes DEF FrameTypes
<1>10. /\ Live' \subseteq Live /\ \A k \in Live' : k >= doneJobID'
  BY <1>8, <1>9 DEF Live
<1>11. \A k \in Live' :
         /\ JobAt(k)'.src = JobAt(k).src /\ JobAt(k)'.prefix = JobAt(k).prefix
         /\ JobAt(k)'.id = JobAt(k).id /\ JobAt(k)'.last = JobAt(k).last
         /\ JobAt(k)'.consumed = JobAt(k).consumed /\ JobAt(k)'.error = JobAt(k).error
         /\ JobAt(k)'.dst = JobAt(k).dst /\ JobAt(k)'.blocks = JobAt(k).blocks
         /\ JobAt(k)'.flushed <= Len(JobAt(k).blocks)
  BY <1>4, <1>10 DEF FlushLeaves
<1>12. FrameTypes'
  <2>1. PICK d \in Nat : d = doneJobID' /\ doneJobID <= d
    BY <1>9
  <2>2. d \in Nat /\ doneJobID <= d
    BY <2>1
  <2>3. Prepared - doneJobID <= TableSize
    BY <1>3 DEF FrameTypes
  <2>4. Prepared - d <= TableSize
    BY <1>9, <2>2, <2>3
  <2> QED BY <1>1, <1>3, <1>6, <1>8, <1>9, <2>1, <2>4 DEF FrameTypes
<1>13. Types'
  <2>1. MainTypes'
    BY <1>1, <1>3, <1>5, <1>6 DEF MainTypes
  <2>2. BufferTypes'
    BY <1>1, <1>3, <1>6 DEF BufferTypes, Within, Ends
  <2>3. PoolTypes'
    BY <1>1, <1>3 DEF PoolTypes, Threads
  <2>4. WindowTypes' /\ WorkerTypes'
    BY <1>1, ThreadsKept
  <2> QED BY <1>7, <1>12, <2>1, <2>2, <2>3, <2>4 DEF Types
<1>14. ASSUME mpc' = "scan"
       PROVE  /\ Taken' /\ Rounding' /\ Places' /\ LiveDescribed' /\ LiveAdvanced'
              /\ Geometry' /\ Bounded'
  <2>1. Taken' /\ Places'
    BY <1>5, <1>14 DEF Places
  <2>2. Rounding'
    BY <1>1, <1>3, <1>6, <1>8 DEF Rounding, Ends
  <2>3. LiveDescribed'
    <3> SUFFICES ASSUME NEW k \in Live'
                 PROVE  Described(k)'
      BY DEF LiveDescribed
    <3>1. Described(k)
      BY <1>3, <1>10 DEF LiveDescribed
    <3> QED BY <1>1, <1>6, <1>8, <1>11, <3>1 DEF Described, Ends
  <2>4. LiveAdvanced'
    <3> SUFFICES ASSUME NEW k \in Live'
                 PROVE  Advanced(k)'
      BY DEF LiveAdvanced
    <3>1. Advanced(k)
      BY <1>3, <1>10 DEF LiveAdvanced
    <3>2. Waiting(k)' <=> Waiting(k)
      BY <1>1 DEF Waiting, Pool!Queued
    <3> QED BY <1>11, <3>1, <3>2 DEF Advanced, Completed
  <2>5. Unfinished' \subseteq Unfinished /\ Unfinished' \subseteq Live'
    BY <1>10, <1>11 DEF Unfinished, Completed
  <2>6. Frontier' = Frontier
    BY <1>1, <1>6, <1>8 DEF Frontier
  <2>7. \A k \in Live' : /\ Behind(k)' <=> Behind(k)
                         /\ Low(JobAt(k))' = Low(JobAt(k))
                         /\ Ahead(k)' <=> Ahead(k)
                         /\ Lap(k)' = Lap(k)
    <3> SUFFICES ASSUME NEW k \in Live'
                 PROVE  /\ Behind(k)' <=> Behind(k)
                        /\ Low(JobAt(k))' = Low(JobAt(k))
                        /\ Ahead(k)' <=> Ahead(k)
                        /\ Lap(k)' = Lap(k)
      OBVIOUS
    <3>1. JobAt(k)'.src = JobAt(k).src /\ JobAt(k)'.prefix = JobAt(k).prefix
      BY <1>11
    <3>2. Behind(k)' <=> Behind(k)
      BY <1>1, <3>1 DEF Behind, Ends
    <3>3. Low(JobAt(k))' = Low(JobAt(k))
      BY <3>1 DEF Low
    <3>4. Ahead(k)' <=> Ahead(k)
      BY <2>6, <3>3 DEF Ahead
    <3>5. Lap(k)' = Lap(k)
      BY <1>6, <3>2 DEF Lap
    <3> QED BY <3>2, <3>3, <3>4, <3>5
  <2>8. Geometry'
    <3>1. Sides'
      BY <1>3, <2>5, <2>7 DEF Sides, Geometry
    <3>2. Ordered'
      BY <1>3, <2>5, <2>7 DEF Ordered, Geometry
    <3>3. ~frameEnded => Distances'
      <4> SUFFICES ASSUME ~frameEnded, NEW k \in Unfinished'
                   PROVE  (Prepared' - k) * Section' + JobAt(k)'.src.start <= roundPos' + Lap(k)'
        BY DEF Distances
      <4>1. (Prepared - k) * Section + JobAt(k).src.start <= roundPos + Lap(k)
        BY <1>3, <2>5 DEF Geometry, Distances
      <4>2. JobAt(k)'.src.start = JobAt(k).src.start /\ Lap(k)' = Lap(k)
        BY <1>11, <2>5, <2>7
      <4> QED BY <1>1, <1>6, <1>8, <4>1, <4>2
    <3> QED BY <1>1, <3>1, <3>2, <3>3 DEF Geometry
  <2>9. Bounded'
    <3>1. Claims' = Prepared - doneJobID' + (IF Reserved THEN 1 ELSE 0)
      BY <1>8 DEF Claims
    <3> QED BY <1>6, <1>7, <3>1 DEF Bounded
  <2> QED BY <2>1, <2>2, <2>3, <2>4, <2>8, <2>9
<1>15. FrameInv'
  <2>1. mpc' # "scan" => Ended'
    BY <1>5 DEF Ended
  <2> QED BY <1>14, <2>1 DEF FrameInv
<1>16. HeldInv'
  <2>1. mpc' # "scan" => Stopping'
    BY <1>5 DEF Ended, Stopping
  <2>2. doneJobID' \in 0..doneJobID'
    BY <1>9
  <2> QED BY <1>7, <1>14, <2>1, <2>2 DEF HeldInv
<1>17. ASSUME NEW w \in Workers, Working(w)
       PROVE  /\ ~Ended' /\ running[w] \in doneJobID' .. nextJobID' - 1
              /\ running[w] \notin Pool!Queued'
              /\ JobOf(w)'.consumed = JobOf(w).consumed /\ JobOf(w)'.src = JobOf(w).src
              /\ JobOf(w)'.error = JobOf(w).error /\ JobOf(w)'.dst = JobOf(w).dst
  <2>1. WorkerJob(w)
    BY <1>17, MainTypesNow DEF WorkersInv
  <2>2. PICK k \in doneJobID .. nextJobID - 1 : k = running[w]
    BY <2>1 DEF WorkerJob
  <2>3. running'[w] = k /\ JobOf(w) = JobAt(k) /\ JobOf(w)' = JobAt(k)'
    BY <1>1, <2>2 DEF JobOf, SlotOf, JobAt, Threads
  <2>4. ~Completed(JobAt(k)) /\ k \notin Pool!Queued
    BY <2>1, <2>2, <2>3 DEF WorkerJob
  <2>5. k \in Nat /\ k >= doneJobID /\ k < nextJobID /\ k \in Live
    BY <1>3, <1>9, <2>2, PreparedJobs
  <2>6. k = doneJobID => doneJobID' = doneJobID
    BY <1>7, <2>4 DEF Oldest, JobAt
  <2>7. k >= doneJobID' /\ doneJobID' # nextJobID
    BY <1>7, <1>9, <2>5, <2>6
  <2>8. mpc' = "scan" /\ ~Ended'
    BY <1>5, <1>9, <2>5, <2>7 DEF Ended
  <2>9. k \in doneJobID' .. nextJobID' - 1
    BY <1>1, <1>9, <2>5, <2>7
  <2>10. k \in Live'
    <3>1. k < Prepared
      BY <1>3, <2>5, PreparedJobs
    <3>2. k >= doneJobID' /\ k < Prepared'
      BY <1>8, <2>7, <3>1
    <3> QED BY <1>8, <1>9, <2>5, <3>2 DEF Live
  <2>11. k \notin Pool!Queued'
    BY <1>1, <2>4 DEF Pool!Queued
  <2> QED BY <1>11, <2>2, <2>3, <2>8, <2>9, <2>10, <2>11
<1>18. WorkersInv'
  BY <1>1, <1>17, WorkersKept
<1>19. QueueInv'
  <2> SUFFICES ASSUME queue # <<>>
               PROVE  ~Ended' /\ doneJobID' < nextJobID
    BY <1>1, <1>3 DEF QueueInv, Threads
  <2>1. queue[1] = nextJobID - 1 /\ doneJobID < nextJobID
    BY <1>3 DEF QueueInv
  <2>2. doneJobID = nextJobID - 1 => doneJobID' = doneJobID
    <3> SUFFICES ASSUME doneJobID = nextJobID - 1
                 PROVE  ~Completed(Oldest)
      BY <1>7
    <3>1. 1 \in DOMAIN queue
      BY <1>3, EmptySeq, LenProperties DEF PoolTypes
    <3>2. doneJobID \in Pool!Queued
      BY <2>1, <3>1 DEF Pool!Queued
    <3>3. doneJobID \in Live
      BY <1>3, <1>9, <2>1, PreparedJobs
    <3> QED BY <1>3, <3>2, <3>3 DEF LiveAdvanced, Advanced, Waiting, Oldest, JobAt
  <2>3. doneJobID' < nextJobID
    BY <1>7, <1>9, <2>1, <2>2
  <2> QED BY <1>5, <1>9, <2>3 DEF Ended
<1>20. JobsShared' /\ TurnsInv'
  BY <1>1, ThreadsKept
<1>21. (mpc = "range" => Scanned)'
  BY <1>5
<1> QED BY <1>7, <1>13, <1>15, <1>16, <1>18, <1>19, <1>20, <1>21 DEF IInv

(* ZSTDMT_waitForAllJobsCompleted waits for one job after the other.       *)
LEMMA WaitForJobPreserves ==
  ASSUME IInv, WaitForJob
  PROVE  IInv'
<1>1. /\ UNCHANGED Threads /\ UNCHANGED Inputs
      /\ call' = call /\ mpc = "waitAll" /\ mpc' = mpc /\ failed' = failed
      /\ srcOffset' = srcOffset /\ inPos' = inPos
      /\ forward' = forward /\ outcome' = outcome /\ inUse' = inUse /\ inBuff' = inBuff
      /\ prefix' = prefix /\ roundBuff' = roundBuff /\ roundPos' = roundPos
      /\ nextJobID' = nextJobID /\ jobReady' = jobReady /\ frameEnded' = frameEnded
      /\ failures' = failures /\ queue' = queue /\ jobs' = jobs
      /\ bufPool' = bufPool /\ cctxPool' = cctxPool
      /\ doneJobID < nextJobID /\ Completed(Oldest) /\ doneJobID' = doneJobID + 1
  BY DEF WaitForJob, Threads, Inputs, callVars, inputVars, serialVars, resourceVars,
         workerVars, poolVars
<1>2. ~Ended /\ ~Ended' /\ Stopping'
  BY <1>1 DEF Ended, Stopping
<1>3. /\ MainTypes /\ BufferTypes /\ FrameTypes /\ JobTypes /\ PoolTypes /\ QueueInv
      /\ Taken /\ Rounding /\ LiveDescribed /\ LiveAdvanced /\ Geometry /\ HeldInv
      /\ ResourcesInv
  BY <1>2, MainTypesNow
<1>4. /\ Total' = Total /\ CallerChunk' = CallerChunk /\ MaxFailures' = MaxFailures
      /\ NbWorkers' = NbWorkers /\ Section' = Section /\ Capacity' = Capacity
      /\ Cells' = Cells /\ JobCount' = JobCount /\ Overlap' = Overlap
      /\ TableSize' = TableSize /\ MaxBuffers' = MaxBuffers /\ TableSlots' = TableSlots
      /\ \A k : Slot(k)' = Slot(k)
  BY <1>1, CallKept
<1>5. /\ \A k : JobAt(k)' = JobAt(k)
      /\ \A k : Completed(JobAt(k))' <=> Completed(JobAt(k))
  BY <1>1, <1>4 DEF JobAt, Completed
<1>6. /\ Prepared' = Prepared /\ Reserved' = Reserved
      /\ ThisChunk' = ThisChunk /\ EndFrame' = EndFrame
  BY <1>1, <1>4 DEF Prepared, Reserved, NoInBuff, ThisChunk, EndFrame, LastChunk, InputLeft,
                    Reference!Lowest
<1>7. /\ doneJobID \in Nat /\ nextJobID \in Nat /\ Prepared \in Nat
      /\ TableSize \in Nat
  <2>1. TableSize \in Nat
    BY <1>3, Sizes DEF MainTypes
  <2> QED BY <2>1, RoundSizes
<1>8. Live' \subseteq Live /\ Unfinished' \subseteq Unfinished
  <2>1. Live' \subseteq Live
    BY <1>1, <1>6, <1>7 DEF Live
  <2> QED BY <1>5, <2>1 DEF Unfinished
<1>9. FrameTypes'
  <2>1. Prepared - doneJobID <= TableSize
    BY <1>3 DEF FrameTypes
  <2>2. Prepared - (doneJobID + 1) <= TableSize
    BY <1>7, <2>1
  <2>3. doneJobID + 1 <= nextJobID /\ doneJobID + 1 \in Nat
    BY <1>1, <1>7
  <2> QED BY <1>1, <1>3, <1>4, <1>6, <1>7, <2>2, <2>3 DEF FrameTypes
<1>10. Types'
  <2>1. MainTypes'
    BY <1>1, <1>3, <1>4 DEF MainTypes
  <2>2. BufferTypes'
    BY <1>1, <1>3, <1>4 DEF BufferTypes, Within, Ends
  <2>3. PoolTypes'
    BY <1>1, <1>3 DEF PoolTypes, Threads
  <2>4. JobTypes'
    BY <1>1, <1>3, <1>4 DEF JobTypes, Sized, Within, Ends
  <2>5. WindowTypes' /\ WorkerTypes'
    BY <1>1, ThreadsKept
  <2> QED BY <1>9, <2>1, <2>2, <2>3, <2>4, <2>5 DEF Types
<1>11. FrameInv'
  <2>1. Taken' /\ Places'
    BY <1>1, <1>3, <1>4, <1>6 DEF Taken, Places, NoInBuff
  <2>2. Rounding'
    BY <1>1, <1>3, <1>4, <1>6 DEF Rounding, Ends
  <2>3. LiveDescribed'
    BY <1>1, <1>3, <1>4, <1>5, <1>6, <1>8 DEF LiveDescribed, Described, Ends
  <2>4. LiveAdvanced'
    <3>1. \A k : Waiting(k)' <=> Waiting(k)
      BY <1>1 DEF Waiting, Pool!Queued
    <3> QED BY <1>3, <1>5, <1>8, <3>1 DEF LiveAdvanced, Advanced, Completed
  <2>5. Frontier' = Frontier
    BY <1>1, <1>4, <1>6 DEF Frontier
  <2>6. \A k : Behind(k)' <=> Behind(k)
    BY <1>1, <1>5 DEF Behind, Ends
  <2>7. \A k : Low(JobAt(k))' = Low(JobAt(k))
    BY <1>5 DEF Low
  <2>8. \A k : (Ahead(k)' <=> Ahead(k)) /\ Lap(k)' = Lap(k)
    BY <1>4, <2>5, <2>6, <2>7 DEF Ahead, Lap
  <2>9. Sides'
    BY <1>3, <1>8, <2>6, <2>8 DEF Sides, Geometry
  <2>10. Ordered'
    BY <1>3, <1>8, <2>6, <2>7 DEF Ordered, Geometry
  <2>11. ~frameEnded => Distances'
    BY <1>1, <1>3, <1>4, <1>5, <1>6, <1>8, <2>8 DEF Distances, Geometry
  <2> QED BY <1>1, <2>1, <2>2, <2>3, <2>4, <2>9, <2>10, <2>11 DEF FrameInv, Geometry
<1>12. HeldInv'
  <2>1. PICK from \in 0..doneJobID : HeldFrom(from)
    BY <1>3 DEF HeldInv
  <2>2. HeldFrom(from)'
    BY <1>1, <1>4, <1>6, <2>1 DEF HeldFrom
  <2>3. from \in 0..doneJobID'
    BY <1>1, <1>7
  <2> QED BY <1>2, <2>2, <2>3 DEF HeldInv
<1>13. WorkersInv'
  <2> SUFFICES ASSUME NEW w \in Workers, Working(w)
               PROVE  /\ running[w] \in doneJobID' .. nextJobID' - 1
                      /\ running[w] \notin Pool!Queued'
                      /\ JobOf(w)' = JobOf(w)
    BY <1>1, <1>2, WorkersKept
  <2>1. WorkerJob(w)
    BY MainTypesNow DEF WorkersInv
  <2>2. PICK k \in doneJobID .. nextJobID - 1 : k = running[w]
    BY <2>1 DEF WorkerJob
  <2>3. running'[w] = k /\ JobOf(w) = JobAt(k) /\ JobOf(w)' = JobAt(k)'
    BY <1>1, <2>2 DEF JobOf, SlotOf, JobAt, Threads
  <2>4. ~Completed(JobAt(k)) /\ k \notin Pool!Queued
    BY <2>1, <2>2, <2>3 DEF WorkerJob
  <2>5. k # doneJobID
    BY <1>1, <2>4 DEF Oldest, JobAt
  <2>6. k \in doneJobID' .. nextJobID' - 1
    BY <1>1, <1>7, <2>2, <2>5
  <2>7. k \notin Pool!Queued'
    BY <1>1, <2>4 DEF Pool!Queued
  <2> QED BY <1>5, <2>2, <2>3, <2>6, <2>7
<1>14. QueueInv'
  <2> SUFFICES ASSUME queue # <<>>
               PROVE  doneJobID + 1 < nextJobID
    BY <1>1, <1>2, <1>3 DEF QueueInv, Threads
  <2>1. queue[1] = nextJobID - 1 /\ doneJobID < nextJobID
    BY <1>3 DEF QueueInv
  <2>2. doneJobID # nextJobID - 1
    <3> SUFFICES ASSUME doneJobID = nextJobID - 1
                 PROVE  ~Completed(Oldest)
      BY <1>1
    <3>1. 1 \in DOMAIN queue
      BY <1>3, EmptySeq, LenProperties DEF PoolTypes
    <3>2. doneJobID \in Pool!Queued
      BY <2>1, <3>1 DEF Pool!Queued
    <3>3. doneJobID \in Live
      BY <1>3, <1>7, <2>1, PreparedJobs
    <3> QED BY <1>3, <3>2, <3>3 DEF LiveAdvanced, Advanced, Waiting, Oldest, JobAt
  <2> QED BY <1>7, <2>1, <2>2
<1>15. JobsShared' /\ TurnsInv' /\ Holding' = Holding
  BY <1>1, ThreadsKept
<1>16. ResourcesInv'
  BY <1>1, <1>3, <1>4, <1>15 DEF ResourcesInv, HeldBuffers
<1>17. (mpc = "range" => Scanned)'
  BY <1>1
<1> QED BY <1>10, <1>11, <1>12, <1>13, <1>14, <1>15, <1>16, <1>17 DEF IInv

(* Nobody works when the descriptions of jobs are cleared.                 *)
LEMMA ReleasePreserves ==
  ASSUME IInv, ReleaseAfterError \/ Return
  PROVE  IInv'
<1>1. /\ UNCHANGED Threads /\ call' = call /\ failed' = failed
      /\ srcOffset' = srcOffset /\ inPos' = inPos /\ forward' = forward
      /\ outcome' \in {"running", "ok", "error"} /\ inUse' = inUse /\ inBuff' = NoInBuff
      /\ prefix' = prefix /\ roundBuff' = roundBuff /\ roundPos' = roundPos
      /\ doneJobID' = doneJobID
      /\ nextJobID' = nextJobID /\ jobReady' = jobReady /\ frameEnded' = frameEnded
      /\ failures' = failures /\ queue' = queue
      /\ jobs' = [s \in DOMAIN jobs |-> UnusedJob]
      /\ bufPool' = WithReleased(bufPool, HeldBuffers) /\ cctxPool' = cctxPool
      /\ mpc' \in {"free", "returned"}
      /\ mpc = "join" \/ doneJobID = nextJobID
  <2>1. MainTypes
    BY MainTypesNow
  <2>2. outcome' \in {"running", "ok", "error"}
    BY <2>1 DEF MainTypes, ReleaseAfterError, Return
  <2> QED BY <2>2 DEF ReleaseAfterError, Return, Threads, ZSTDMT_releaseAllJobResources,
                      frameVars, serialVars, workerVars, poolVars
<1>2. Ended' /\ Stopping' /\ (Ended \/ doneJobID = nextJobID)
  BY <1>1 DEF Ended, Stopping
<1>3. queue = <<>> /\ \A w \in Workers : ~Working(w)
  BY <1>2, NoneWorking
<1>4. /\ MainTypes /\ BufferTypes /\ FrameTypes /\ JobTypes /\ PoolTypes /\ QueueInv
      /\ HeldInv /\ ResourcesInv /\ WorkersInv
  BY MainTypesNow
<1>5. /\ Total' = Total /\ CallerChunk' = CallerChunk /\ MaxFailures' = MaxFailures
      /\ NbWorkers' = NbWorkers /\ Section' = Section /\ Capacity' = Capacity
      /\ Cells' = Cells /\ JobCount' = JobCount /\ Overlap' = Overlap
      /\ TableSize' = TableSize /\ MaxBuffers' = MaxBuffers /\ TableSlots' = TableSlots
      /\ \A k : Slot(k)' = Slot(k)
  BY <1>1, CallKept
<1>6. Prepared' = Prepared
  BY <1>1 DEF Prepared
<1>7. /\ Section \in Nat /\ Capacity \in Nat /\ MaxBuffers \in Nat
  BY <1>4, RoundSizes, Sizes DEF MainTypes
<1>8. DOMAIN jobs = TableSlots /\ jobs' = [s \in TableSlots |-> UnusedJob]
  BY <1>1, <1>4 DEF JobTypes
<1>9. UnusedJob \in Descriptions /\ Sized(UnusedJob) /\ UnusedJob.dst = FALSE
  <2>1. <<>> \in Seq(Blocks) /\ Len(<<>>) = 0
    OBVIOUS
  <2>2. kNullRange \in Pieces /\ Within(kNullRange) /\ kNullRange.size = 0
    BY <1>7 DEF kNullRange, Span, Pieces, Within, Ends
  <2>3. UnusedJob \in Descriptions
    BY <2>1, <2>2 DEF UnusedJob, Descriptions
  <2>4. /\ UnusedJob.src = kNullRange /\ UnusedJob.prefix = kNullRange
        /\ UnusedJob.consumed = 0 /\ UnusedJob.blocks = <<>> /\ UnusedJob.flushed = 0
        /\ UnusedJob.dst = FALSE
    BY DEF UnusedJob
  <2> QED BY <1>7, <2>1, <2>2, <2>3, <2>4 DEF Sized
<1>10. Types'
  <2>1. MainTypes'
    BY <1>1, <1>4, <1>5 DEF MainTypes
  <2>2. BufferTypes'
    <3>1. NoInBuff \in [start : -1..Capacity, filled : 0..Section]
      BY <1>7 DEF NoInBuff
    <3> QED BY <1>1, <1>4, <1>5, <3>1 DEF BufferTypes, Within, Ends
  <2>3. FrameTypes'
    BY <1>1, <1>4, <1>5, <1>6 DEF FrameTypes
  <2>4. JobTypes'
    <3>1. jobs' \in [TableSlots -> Descriptions]
      BY <1>8, <1>9
    <3>2. \A s \in TableSlots : Sized(jobs[s])'
      BY <1>5, <1>8, <1>9 DEF Sized, Within, Ends
    <3> QED BY <1>5, <3>1, <3>2 DEF JobTypes
  <2>5. PoolTypes'
    BY <1>1, <1>4 DEF PoolTypes, Threads
  <2>6. WindowTypes' /\ WorkerTypes'
    BY <1>1, ThreadsKept
  <2> QED BY <2>1, <2>2, <2>3, <2>4, <2>5, <2>6 DEF Types
<1>11. FrameInv'
  BY <1>2 DEF FrameInv
<1>12. HeldInv'
  <2>1. PICK from \in 0..doneJobID : HeldFrom(from)
    BY <1>4 DEF HeldInv
  <2>2. HeldFrom(from)'
    <3>1. \A s \in TableSlots : ~jobs'[s].dst
      BY <1>8, <1>9
    <3>2. Prepared - from <= TableSize /\ Prepared - from <= MaxBuffers
      BY <2>1 DEF HeldFrom
    <3> QED BY <1>5, <1>6, <3>1, <3>2 DEF HeldFrom
  <2> QED BY <1>1, <1>2, <2>2 DEF HeldInv
<1>13. WorkersInv' /\ JobsShared' /\ TurnsInv' /\ Holding' = Holding
  <2>1. /\ JobsShared' /\ TurnsInv' /\ Holding' = Holding
        /\ \A w \in Workers : WorkerPlace(w)' /\ (Working(w)' <=> Working(w))
    BY <1>1, ThreadsKept
  <2>2. WorkersInv'
    BY <1>3, <2>1 DEF WorkersInv
  <2> QED BY <2>1, <2>2
<1>14. QueueInv'
  BY <1>1, <1>3, <1>4 DEF QueueInv, Threads
<1>15. ResourcesInv'
  <2>1. {s \in DOMAIN jobs : jobs[s].dst}' = {}
    BY <1>8, <1>9
  <2>2. HeldBuffers' = 0
    BY <2>1, FS_EmptySet DEF HeldBuffers
  <2>3. bufPool \in Nat /\ bufPool + HeldBuffers <= MaxBuffers /\ HeldBuffers \in Nat
    BY <1>4, SetsFinite DEF ResourcesInv
  <2>4. bufPool' \in Nat /\ bufPool' <= MaxBuffers
    BY <1>1, <1>7, <2>3 DEF WithReleased, Reference!Lowest
  <2> QED BY <1>1, <1>4, <1>5, <1>13, <2>2, <2>4 DEF ResourcesInv
<1>16. (mpc = "range" => Scanned)'
  BY <1>1
<1> QED BY <1>10, <1>11, <1>12, <1>13, <1>14, <1>15, <1>16 DEF IInv

(* The state ZSTDMT_initCStream_internal leaves.                           *)
LEMMA InitEstablishes == Init => IInv
<1> SUFFICES ASSUME Init
             PROVE  IInv
  OBVIOUS
<1>1. /\ call \in Calls
      /\ mpc = "start" /\ failed = FALSE /\ srcOffset = 0 /\ inPos = 0 /\ forward = FALSE
      /\ inUse = kNullRange /\ inBuff = NoInBuff /\ prefix = kNullRange
      /\ roundBuff = [i \in Cells |-> 0] /\ roundPos = 0
      /\ doneJobID = 0 /\ nextJobID = 0 /\ jobReady = FALSE /\ frameEnded = FALSE
      /\ jobs = [s \in TableSlots |-> UnusedJob]
      /\ serialNext = 0
      /\ ldmState = [ext |-> kNullRange, pre |-> kNullRange]
      /\ ldmWindow = [ext |-> kNullRange, pre |-> kNullRange]
      /\ bufPool = 0 /\ cctxPool = 1
      /\ wpc = [w \in Workers |-> "idle"] /\ wctx = [w \in Workers |-> FALSE]
      /\ wseq = [w \in Workers |-> <<>>] /\ wlast = [w \in Workers |-> <<>>]
      /\ queue = <<>> /\ begun = <<>> /\ running = [w \in Workers |-> NoJob]
      /\ failures = 0 /\ outcome = "running"
  BY DEF Init, Pool!Init, TableSlots
<1>2. /\ NbWorkers \in 1..MaxWorkers /\ MaxWorkers \in Nat /\ NbWorkers \in Nat
      /\ Total \in Nat \ {0} /\ Section \in Nat \ {0} /\ CallerChunk \in Nat \ {0}
      /\ MaxFailures \in Nat /\ Capacity \in Nat /\ TableSize \in Nat
      /\ MaxBuffers \in Nat /\ MaxBuffers >= NbWorkers + 4 /\ JobCount \in Nat
  BY <1>1, CallFacts, Sizes, JobsOfInput
<1>3. Prepared = 0 /\ Live = {} /\ Unfinished = {}
  BY <1>1 DEF Prepared, Live, Unfinished
<1>4. /\ kNullRange \in Pieces /\ kNullRange.size = 0 /\ Within(kNullRange)
      /\ Ends(kNullRange) = 0
  BY <1>2 DEF kNullRange, Span, Pieces, Within, Ends
<1>5. UnusedJob \in Descriptions /\ Sized(UnusedJob) /\ UnusedJob.dst = FALSE
  <2>1. <<>> \in Seq(Blocks) /\ Len(<<>>) = 0
    OBVIOUS
  <2>2. UnusedJob \in Descriptions
    BY <1>4, <2>1 DEF UnusedJob, Descriptions
  <2>3. /\ UnusedJob.src = kNullRange /\ UnusedJob.prefix = kNullRange
        /\ UnusedJob.consumed = 0 /\ UnusedJob.blocks = <<>> /\ UnusedJob.flushed = 0
        /\ UnusedJob.dst = FALSE
    BY DEF UnusedJob
  <2> QED BY <1>2, <1>4, <2>1, <2>2, <2>3 DEF Sized
<1>6. NoInBuff \in [start : -1..Capacity, filled : 0..Section] /\ NoInBuff.filled = 0
  BY <1>2 DEF NoInBuff
<1>7. ~Ended /\ ~Reserved /\ ~Stopping
  BY <1>1 DEF Ended, Reserved, Stopping
<1>8. InputLeft
  <2>1. ThisChunk > 0
    BY <1>1, <1>2 DEF ThisChunk, Reference!Lowest
  <2> QED BY <1>1, <2>1 DEF InputLeft
<1>9. Types
  <2>1. MainTypes
    <3>1. 0 \in 0..Total /\ 0 \in 0..CallerChunk /\ 0 \in 0..MaxFailures
      BY <1>2
    <3>2. srcOffset \in 0..Total /\ inPos \in 0..CallerChunk /\ failures \in 0..MaxFailures
      BY <1>1, <3>1, Zenon
    <3>3. failed \in BOOLEAN /\ forward \in BOOLEAN
      BY <1>1
    <3>4. /\ mpc \in {"start", "scan", "range", "load", "create", "flush", "waitAll",
                       "free", "join", "returned"}
          /\ outcome \in {"running", "ok", "error"}
      BY <1>1
    <3>5. call \in Calls
      BY <1>1
    <3> QED BY <3>2, <3>3, <3>4, <3>5, Zenon DEF MainTypes
  <2>2. BufferTypes
    BY <1>1, <1>2, <1>4, <1>6 DEF BufferTypes
  <2>3. FrameTypes
    <3>1. 0 \in Nat /\ 0 <= 0 /\ 0 <= JobCount /\ 0 - 0 <= TableSize
      BY <1>2
    <3>2. jobReady \in BOOLEAN /\ frameEnded \in BOOLEAN
      BY <1>1
    <3>3. doneJobID = 0 /\ nextJobID = 0 /\ Prepared = 0
      BY <1>1, <1>3
    <3> QED BY <3>1, <3>2, <3>3, Zenon DEF FrameTypes
  <2>4. JobTypes
    BY <1>1, <1>5 DEF JobTypes
  <2>5. WindowTypes
    BY <1>1, <1>4 DEF WindowTypes
  <2>6. WorkerTypes
    <3>1. <<>> \in Seq(Seq(Nat)) /\ <<>> \in Seq(Blocks)
      OBVIOUS
    <3> QED BY <1>1, <3>1 DEF WorkerTypes
  <2>7. PoolTypes
    BY <1>1 DEF PoolTypes
  <2> QED BY <2>1, <2>2, <2>3, <2>4, <2>5, <2>6, <2>7 DEF Types
<1>10. FrameInv
  <2>1. Taken
    <3>1. inPos <= ThisChunk
      BY <1>1, <1>2 DEF ThisChunk, Reference!Lowest
    <3>2. 0 * Section = 0
      BY <1>2
    <3> QED BY <1>1, <1>2, <1>3, <1>6, <1>8, <3>1, <3>2 DEF Taken, EndFrame
  <2>2. Rounding
    <3>1. 0 * Section = 0
      BY <1>2
    <3> QED BY <1>1, <1>2, <1>3, <1>4, <1>7, <3>1 DEF Rounding
  <2>3. Places
    BY <1>1 DEF Places
  <2>4. LiveDescribed /\ LiveAdvanced
    BY <1>3 DEF LiveDescribed, LiveAdvanced
  <2>5. Geometry
    BY <1>3 DEF Geometry, Sides, Ordered, Distances
  <2> QED BY <2>1, <2>2, <2>3, <2>4, <2>5 DEF FrameInv
<1>11. HeldInv
  <2>1. HeldFrom(0)
    BY <1>1, <1>2, <1>3, <1>5 DEF HeldFrom
  <2>2. Bounded
    BY <1>1, <1>2, <1>3, <1>7 DEF Bounded, Claims
  <2> QED BY <1>1, <2>1, <2>2 DEF HeldInv
<1>12. \A w \in Workers : wpc[w] = "idle" /\ ~wctx[w] /\ wlast[w] = <<>> /\ running[w] = NoJob
  BY <1>1
<1>13. WorkersInv /\ JobsShared
  BY <1>12 DEF WorkersInv, WorkerPlace, JobsShared, Working
<1>14. QueueInv
  BY <1>1 DEF QueueInv
<1>15. Pending = {} /\ Holding = {}
  BY <1>12 DEF Pending, Holding
<1>16. TurnsInv
  <2>1. Cardinality(Pending) = 0 /\ Len(begun) = 0
    BY <1>1, <1>15, FS_EmptySet
  <2> QED BY <1>1, <1>2, <2>1 DEF TurnsInv
<1>17. ResourcesInv
  <2>1. {s \in DOMAIN jobs : jobs[s].dst} = {}
    BY <1>1, <1>5
  <2>2. HeldBuffers = 0 /\ Cardinality(Holding) = 0
    BY <1>15, <2>1, FS_EmptySet DEF HeldBuffers
  <2> QED BY <1>1, <1>2, <2>2 DEF ResourcesInv
<1>18. mpc = "range" => Scanned
  BY <1>1
<1> QED BY <1>9, <1>10, <1>11, <1>13, <1>14, <1>16, <1>17, <1>18 DEF IInv

(* A step that changes nothing.                                            *)
LEMMA StutteringPreserves ==
  ASSUME IInv, UNCHANGED vars
  PROVE  IInv'
<1>1. /\ UNCHANGED Jobs /\ UNCHANGED Threads /\ UNCHANGED Inputs
      /\ mpc' = mpc /\ failed' = failed /\ forward' = forward /\ outcome' = outcome
      /\ inUse' = inUse /\ failures' = failures
  BY DEF vars, Jobs, Threads, Inputs, callVars, inputVars, frameVars, serialVars,
         resourceVars, workerVars, poolVars
<1>2. /\ call' = call /\ doneJobID' = doneJobID /\ jobReady' = jobReady
      /\ nextJobID' = nextJobID
      /\ Completed(Oldest)' = Completed(Oldest)
      /\ JobTypes' /\ FrameTypes' /\ PoolTypes' /\ ResourcesInv'
      /\ \A from \in 0..doneJobID : HeldFrom(from) => HeldFrom(from)'
      /\ LiveDescribed => LiveDescribed'
      /\ LiveAdvanced => LiveAdvanced'
  BY <1>1, JobsKept
<1>3. Ended' = Ended /\ Stopping' = Stopping
  BY <1>1 DEF Ended, Stopping
<1>4. WorkersInv' /\ QueueInv'
  BY <1>1, <1>3, JobsKept
<1>5. WindowTypes' /\ WorkerTypes' /\ TurnsInv' /\ JobsShared'
  BY <1>1, <1>2, ThreadsKept
<1>6. /\ InputLeft' = InputLeft /\ LastChunk' = LastChunk /\ inBuff' = inBuff
      /\ srcOffset' = srcOffset /\ inPos' = inPos
      /\ Reserved' = Reserved /\ Claims' = Claims
      /\ BufferTypes'
      /\ Taken => Taken'
      /\ Rounding => Rounding'
      /\ Geometry => Geometry'
      /\ Scanned => Scanned'
  BY <1>1, InputsKept
<1>7. /\ Total' = Total /\ CallerChunk' = CallerChunk /\ MaxFailures' = MaxFailures
      /\ NbWorkers' = NbWorkers /\ Section' = Section
  BY <1>2, CallKept
<1>8. MainTypes'
  BY <1>1, <1>2, <1>6, <1>7, MainTypesNow DEF MainTypes
<1>9. Types'
  BY <1>2, <1>5, <1>6, <1>8 DEF Types
<1>10. FrameInv'
  <2>1. Places => Places'
    BY <1>1, <1>2, <1>6, <1>7 DEF Places
  <2> QED BY <1>2, <1>3, <1>6, <2>1, MainTypesNow DEF FrameInv
<1>11. HeldInv'
  <2>1. Bounded => Bounded'
    BY <1>1, <1>2, <1>6, <1>7 DEF Bounded
  <2>2. doneJobID \in 0..doneJobID
    BY MainTypesNow DEF FrameTypes
  <2> QED BY <1>2, <1>3, <2>1, <2>2, MainTypesNow DEF HeldInv
<1>12. (mpc = "range" => Scanned)'
  BY <1>1, <1>6, MainTypesNow
<1> QED BY <1>2, <1>4, <1>5, <1>9, <1>10, <1>11, <1>12 DEF IInv

(* The invariant is inductive.                                             *)
LEMMA NextPreserves == IInv /\ [Next]_vars => IInv'
<1> SUFFICES ASSUME IInv, [Next]_vars
             PROVE  IInv'
  OBVIOUS
<1>1. CASE StartCall \/ StartFails \/ ScanSkipped \/ RangeInUse \/ NoJobToCreate
             \/ FlushError \/ FreeCCtx
  BY <1>1, SmallStepsPreserve
<1>2. CASE ScanJobs
  BY <1>2, ScanJobsPreserves
<1>3. CASE WrapRange
  BY <1>3, WrapRangePreserves
<1>4. CASE TakeRange
  BY <1>4, TakeRangePreserves
<1>5. CASE LoadInput
  BY <1>5, LoadInputPreserves
<1>6. CASE CreateJob
  BY <1>6, CreateJobPreserves
<1>7. CASE FlushProduced
  BY <1>7, FlushProducedPreserves
<1>8. CASE WaitForJob
  BY <1>8, WaitForJobPreserves
<1>9. CASE ReleaseAfterError \/ Return
  BY <1>9, ReleasePreserves
<1>10. ASSUME NEW w \in Workers, Worker(w)
       PROVE  IInv'
  BY <1>10, WorkersPreserve
<1>11. CASE UNCHANGED vars
  BY <1>11, StutteringPreserves
<1> QED BY <1>1, <1>2, <1>3, <1>4, <1>5, <1>6, <1>7, <1>8, <1>9, <1>10, <1>11
        DEF Next, Main, Terminating

(* In every reachable state of a call, whatever the number of workers, the *)
(* sizes and the failures, the table, the round buffer, the pools, the     *)
(* queue and the turns of the serial step fit together as IInv says.       *)
THEOREM Invariant == Spec => []IInv
BY InitEstablishes, NextPreserves, PTL DEF Spec

-----------------------------------------------------------------------------
(* The inductive invariant contains the types.                             *)
LEMMA InvariantTypes == IInv => TypeOK
<1> SUFFICES ASSUME IInv
             PROVE  TypeOK
  OBVIOUS
<1>1. /\ MainTypes /\ BufferTypes /\ FrameTypes /\ JobTypes /\ WindowTypes /\ WorkerTypes
      /\ PoolTypes /\ QueueInv /\ TurnsInv /\ ResourcesInv
  BY MainTypesNow
<1>2. /\ Capacity \in Nat /\ Section \in Nat /\ NbWorkers \in Nat /\ Prepared \in Nat
      /\ doneJobID \in Nat /\ nextJobID \in Nat
  BY RoundSizes
<1>3. JobCount \in Nat /\ TableSize \in Nat /\ MaxBuffers \in Nat
  BY <1>1, Sizes, JobsOfInput DEF MainTypes
<1>4. \A r : Within(r) => r \in Ranges /\ Ends(r) <= Capacity
  <2> SUFFICES ASSUME NEW r, Within(r)
               PROVE  r \in Ranges /\ Ends(r) <= Capacity
    OBVIOUS
  <2> QED BY <1>2 DEF Within, Pieces, Ends, Ranges
<1>5. inUse \in Ranges /\ prefix \in Ranges
  BY <1>1, <1>4 DEF BufferTypes
<1>6. /\ doneJobID \in 0..nextJobID /\ nextJobID \in 0..JobCount
      /\ nextJobID - doneJobID <= TableSize
  <2>1. nextJobID <= Prepared /\ Prepared <= JobCount /\ Prepared - doneJobID <= TableSize
        /\ doneJobID <= nextJobID
    BY <1>1, <1>2, PreparedJobs DEF FrameTypes
  <2> QED BY <1>2, <1>3, <2>1
<1>7. \A s \in DOMAIN jobs :
        /\ jobs[s].src \in Ranges /\ Ends(jobs[s].src) <= Capacity
        /\ jobs[s].prefix \in Ranges /\ Ends(jobs[s].prefix) <= Capacity
        /\ jobs[s].consumed <= jobs[s].src.size
        /\ jobs[s].flushed <= Section
  BY <1>1, <1>4 DEF JobTypes, Sized
<1>8. serialNext \in 0 .. JobCount + NbWorkers
  <2>1. Len(begun) \in Nat /\ Len(queue) \in Nat
    BY <1>1, LenProperties DEF PoolTypes
  <2>2. Len(begun) <= JobCount
    BY <1>1, <1>2, <1>3, <1>6, <2>1 DEF QueueInv
  <2>3. Cardinality(Pending) \in Nat
    BY SetsFinite
  <2> QED BY <1>1, <1>2, <1>3, <2>1, <2>2, <2>3 DEF TurnsInv
<1>9. \A window \in {ldmState, ldmWindow} :
        window.ext \in Ranges /\ window.pre \in Ranges
  BY <1>1, <1>4 DEF WindowTypes
<1>10. bufPool \in 0..MaxBuffers /\ cctxPool \in 0..NbWorkers
  <2>1. HeldBuffers \in Nat /\ Cardinality(Holding) \in Nat
    BY SetsFinite
  <2> QED BY <1>1, <1>2, <1>3, <2>1 DEF ResourcesInv
<1> QED BY <1>1, <1>5, <1>6, <1>7, <1>8, <1>9, <1>10
        DEF TypeOK, MainTypes, BufferTypes, FrameTypes, WorkerTypes

(* The variables of ZSTDMT_CCtx, of the jobs and of the workers keep their *)
(* types: sections lie in the round buffer, and no counter leaves its      *)
(* range.                                                                  *)
THEOREM TypeCorrect == Spec => []TypeOK
BY Invariant, InvariantTypes, PTL

(* The pool of buffers is never asked to keep more than the 2N + 3 it has  *)
(* room for, so ZSTDMT_releaseBuffer never has to free one: the case the   *)
(* code comments with "should not happen" does not, given LdmAssumption.   *)
THEOREM PoolsSuffice == Spec => []PoolsNeverOverflow
<1>1. IInv => PoolsNeverOverflow
  <2> SUFFICES ASSUME IInv
               PROVE  PoolsNeverOverflow
    OBVIOUS
  <2>1. ResourcesInv
    BY MainTypesNow
  <2> QED BY <2>1 DEF ResourcesInv, PoolsNeverOverflow, Holding
<1> QED BY Invariant, <1>1, PTL

(* When ZSTDMT_releaseAllJobResources clears the descriptions of the jobs, *)
(* no worker has one in hand and none is in the queue, also after a        *)
(* failure in the middle of the frame.                                     *)
THEOREM NoJobReleasedInHand == Spec => []ReleasedJobsAreIdle
<1>1. IInv => ReleasedJobsAreIdle
  <2> SUFFICES ASSUME IInv, NEW w \in Workers, wpc[w] \notin {"idle", "end"}
               PROVE  mpc \notin {"free", "join", "returned"} /\ JobOf(w).id = running[w]
    BY DEF ReleasedJobsAreIdle
  <2>1. Working(w)
    BY DEF Working
  <2>2. WorkerJob(w) /\ Described(running[w]) /\ JobOf(w) = JobAt(running[w])
    BY <2>1, InHand
  <2> QED BY <2>2 DEF WorkerJob, Described, Ended
<1> QED BY Invariant, <1>1, PTL

-----------------------------------------------------------------------------
(* The cells a job still reads.                                            *)
LEMMA CellsOfJob ==
  ASSUME IInv, ~Ended, NEW id \in doneJobID .. nextJobID - 1, Unread(jobs[Slot(id)]),
         NEW i \in InUseBy(jobs[Slot(id)])
  PROVE  /\ id \in Unfinished /\ i \in Cells /\ i \in Nat
         /\ Low(JobAt(id)) <= i /\ i < Ends(JobAt(id).src)
<1> DEFINE job == JobAt(id)
<1>1. job = jobs[Slot(id)]
  BY DEF JobAt
<1>2. id \in Unfinished
  <2>1. id \in Live
    BY MainTypesNow, PreparedJobs
  <2> QED BY <1>1, <2>1 DEF Unfinished, Unread
<1>3. /\ job.src.start \in Nat /\ job.src.size \in Nat
      /\ job.prefix.start \in Nat /\ job.prefix.size \in Nat
      /\ Ends(job.src) = job.src.start + job.src.size
      /\ Low(job) \in Nat /\ Low(job) <= job.src.start /\ Described(id)
  BY <1>2, UnfinishedJob
<1>4. Ends(job.prefix) = job.prefix.start + job.prefix.size
  BY DEF Ends
<1>5. job.prefix.size > 0 => Ends(job.prefix) = job.src.start
  BY <1>3 DEF Described
<1>6. PICK r \in {job.src, job.prefix} : r.start <= i /\ i < Ends(r)
  BY <1>1 DEF InUseBy
<1>7. i \in Cells /\ i \in Nat
  <2>1. i \in Cells
    BY DEF InUseBy
  <2> QED BY <2>1, RoundSizes DEF Cells
<1>8. Low(job) = IF job.prefix.size = 0 THEN job.src.start ELSE job.prefix.start
  BY DEF Low
<1> HIDE DEF job
<1>9. Low(job) <= i /\ i < Ends(job.src)
  <2>1. CASE r = job.src
    BY <1>3, <1>6, <1>7, <2>1
  <2>2. CASE r = job.prefix
    <3>1. job.prefix.start <= i /\ i < job.prefix.start + job.prefix.size
      BY <1>4, <1>6, <2>2
    <3>2. job.prefix.size > 0
      BY <1>3, <1>7, <3>1
    <3> QED BY <1>3, <1>4, <1>5, <1>7, <1>8, <3>1, <3>2
  <2> QED BY <1>6, <2>1, <2>2
<1> QED BY <1>2, <1>7, <1>9 DEF job

(* No single step changes a unit that a live, uncompleted job still reads. *)
LEMMA StepKeepsPieces ==
  ASSUME IInv, [Next]_vars, NEW id \in doneJobID .. nextJobID - 1,
         Unread(jobs[Slot(id)]), NEW i \in InUseBy(jobs[Slot(id)])
  PROVE  roundBuff'[i] = roundBuff[i]
<1>1. CASE WrapRange
  <2>1. mpc = "range" /\ MustWrap /\ ~isOverlapped(WantedRange, inUse)
        /\ roundBuff' = MovedPrefix /\ ~Ended
    BY <1>1 DEF WrapRange, Ended
  <2>2. /\ id \in Unfinished /\ i \in Cells /\ i \in Nat /\ Low(JobAt(id)) <= i
    BY <2>1, CellsOfJob
  <2>3. prefix.size <= Low(JobAt(id)) /\ Low(JobAt(id)) \in Nat /\ prefix.size \in Nat
    BY <2>1, <2>2, WrapPlace, UnfinishedJob, RoundSizes
  <2>4. ~(i < prefix.size)
    BY <2>2, <2>3
  <2> QED BY <2>1, <2>2, <2>4 DEF MovedPrefix
<1>2. CASE LoadInput
  <2> DEFINE n == ToLoad
             to == inBuff.start + inBuff.filled
  <2>1. /\ mpc = "load" /\ ~Ended
        /\ roundBuff' = [c \in Cells |-> IF to <= c /\ c < to + n THEN UnitAt(inPos + c - to)
                                         ELSE roundBuff[c]]
    BY <1>2 DEF LoadInput, Ended
  <2>2. /\ id \in Unfinished /\ i \in Cells /\ i \in Nat
        /\ Low(JobAt(id)) <= i /\ i < Ends(JobAt(id).src)
    BY <2>1, CellsOfJob
  <2>3. /\ n \in Nat /\ inBuff.filled + n <= Section /\ Reserved /\ inBuff.start = roundPos
    BY <2>1, LoadFacts
  <2>4. roundPos \in Nat /\ inBuff.filled \in Nat /\ Section \in Nat
    BY RoundSizes
  <2>5. Low(JobAt(id)) \in Nat /\ Ends(JobAt(id).src) \in Nat
    <3>1. /\ Ends(JobAt(id).src) = JobAt(id).src.start + JobAt(id).src.size
          /\ JobAt(id).src.start \in Nat /\ JobAt(id).src.size \in Nat
          /\ Low(JobAt(id)) \in Nat
      BY <2>1, <2>2, UnfinishedJob
    <3> QED BY <3>1
  <2>6. Ends(JobAt(id).src) <= roundPos \/ roundPos + Section <= Low(JobAt(id))
    BY <2>1, <2>2, <2>3, MainTypesNow DEF Geometry, Sides, Behind, Ahead, Frontier
  <2>7. ~(to <= i /\ i < to + n)
    BY <2>2, <2>3, <2>4, <2>5, <2>6
  <2> HIDE DEF n, to
  <2> QED BY <2>1, <2>2, <2>7
<1>3. CASE Main /\ ~WrapRange /\ ~LoadInput
  <2>1. roundBuff' = roundBuff
    BY <1>3 DEF Main, StartCall, StartFails, ScanJobs, ScanSkipped, RangeInUse, TakeRange,
                CreateJob, NoJobToCreate, FlushProduced, FlushError, WaitForJob,
                ReleaseAfterError, FreeCCtx, Return, inputVars
  <2> QED BY <2>1
<1>4. ASSUME NEW w \in Workers, Worker(w)
      PROVE  roundBuff' = roundBuff
  BY <1>4 DEF Worker, Begin, GetResources, NoResources, GenSequences, CompressPiece,
              CompressLast, CompressFails, EnsureFinished, ReleaseResources, Report, End,
              mainVars, inputVars
<1>5. CASE UNCHANGED vars
  BY <1>5 DEF vars, inputVars
<1> QED BY <1>1, <1>2, <1>3, <1>4, <1>5 DEF Next, Terminating

(* Main's copying into the round buffer, and its moving of the prefix,     *)
(* never touch a unit that a job not yet completed still has to read, as   *)
(* its section or its prefix.                                              *)
THEOREM PiecesKept == Spec => PiecesInUseKept
<1>1. IInv /\ [Next]_vars =>
        [\A id \in doneJobID .. nextJobID - 1 :
           Unread(jobs[Slot(id)]) =>
             \A i \in InUseBy(jobs[Slot(id)]) : roundBuff'[i] = roundBuff[i]]_vars
  BY StepKeepsPieces
<1> QED BY Invariant, <1>1, PTL DEF Spec, PiecesInUseKept
=============================================================================
