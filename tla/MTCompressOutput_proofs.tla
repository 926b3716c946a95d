------------------------- MODULE MTCompressOutput_proofs -------------------------
(***************************************************************************)
(* Proofs about the output of the multithreaded compression: it is the     *)
(* frame that the input alone determines, whatever the number of workers   *)
(* and jobs, the sizes and the order in which the workers run.             *)
(***************************************************************************)
EXTENDS MTCompress_proofs

(***************************************************************************)
(* The inductive invariant, on top of that of MTCompress_proofs.           *)
(***************************************************************************)

(* The units of the jobs before job k, and of job k.                       *)
UnitsBefore(k) == Reference!Lowest(k * Section, Total)
JobUnits(k) == Reference!JobEnd(call, k) - Reference!JobStart(call, k) + 1

(* A range of the round buffer holds the units that follow the first       *)
(* `before` ones.                                                          *)
Holds(r, before) ==
  \A i \in 0 .. r.size - 1 : roundBuff[r.start + i] = before + i + 1

(* An error in a job is never lost: main meets it, or has it ahead.        *)
ErrorsInv ==
  /\ failed => failures > 0
  /\ mpc = "waitAll" => failed
  /\ failures = 0 => \A s \in TableSlots : ~jobs[s].error
  /\ failures > 0 /\ ~failed => ~Ended /\ \E k \in Live : JobAt(k).error
  /\ outcome = IF mpc # "returned" THEN "running" ELSE IF failed THEN "error" ELSE "ok"

(* The jobs cut the input in sections, and what they and main have in the  *)
(* round buffer are the units it should be.                                *)
SourcesInv == \A k \in Live : JobAt(k).src.size = JobUnits(k)
ContentsInv ==
  /\ \A k \in Unfinished :
       /\ Holds(JobAt(k).src, k * Section)
       /\ Holds(JobAt(k).prefix, k * Section - JobAt(k).prefix.size)
  /\ Reserved => Holds(Span(inBuff.start, inBuff.filled), Prepared * Section)
  /\ ~frameEnded => Holds(prefix, Prepared * Section - prefix.size)

(* While nothing fails the jobs take their turns in order, none skipped.   *)
BeforeTurn(w) == wpc[w] \in {"resources", "serial"}
InTurn ==
  /\ doneJobID <= serialNext /\ serialNext <= nextJobID
  /\ \A k \in Pool!Queued : serialNext <= k
  /\ \A k \in Live : Completed(JobAt(k)) => k < serialNext
  /\ \A w \in Workers : Working(w) => (BeforeTurn(w) <=> serialNext <= running[w])

(* The blocks made so far are those of the frame.                          *)
BlocksInv ==
  \A k \in Live :
    /\ Len(JobAt(k).blocks) = JobAt(k).consumed
    /\ \A c \in 1..JobAt(k).consumed : JobAt(k).blocks[c] = Reference!Block(call, k, c)
    /\ k # doneJobID => JobAt(k).flushed = 0
InWork ==
  \A w \in Workers :
    Working(w) =>
      /\ wpc[w] = "compress" => wseq[w] = Reference!LdmMatches(call, running[w])
      /\ wlast[w] # <<>> =>
           wlast[w] = <<Reference!Block(call, running[w], JobUnits(running[w]))>>

(* The window of long distance matching holds the last units served, in    *)
(* one piece or, after a turn round the buffer, in two.                    *)
Served == UnitsBefore(serialNext)
WindowInv ==
  /\ ldmState = ldmWindow
  /\ ldmWindow.ext.size + ldmWindow.pre.size = Reference!Lowest(Served, LdmWindow)
  /\ Holds(ldmWindow.pre, Served - ldmWindow.pre.size)
  /\ Holds(ldmWindow.ext, Served - ldmWindow.pre.size - ldmWindow.ext.size)
  /\ ldmWindow.ext.size > 0 => ldmWindow.pre.start = Overlap

(* The jobs yet to be served follow it in the round buffer, clear of it.   *)
Unserved == {k \in Live : k >= serialNext}
NextStart(k) == IF k < Prepared THEN JobAt(k).src.start ELSE roundPos
Follows(end, start) == start = end \/ (Capacity - end < Section /\ start = Overlap)
ServingInv ==
  /\ Follows(Ends(ldmWindow.pre), NextStart(serialNext))
  /\ \A k \in Unserved : /\ Follows(Ends(JobAt(k).src), NextStart(k + 1))
                         /\ LdmComplete(JobAt(k).src)
  /\ \A i, k \in Unserved : i < k => ~isOverlapped(JobAt(i).src, JobAt(k).src)
  /\ Reserved => LdmComplete(Span(roundPos, Section))

(* What has been flushed is the beginning of the frame.                    *)
BlockAt(n) == Reference!Block(call, (n - 1) \div Section, ((n - 1) % Section) + 1)
FrameBlocks(n) == [i \in 1..n |-> BlockAt(i)]
OldestFlushed == IF doneJobID \in Live THEN JobAt(doneJobID).flushed ELSE 0
OutInv == out = FrameBlocks(UnitsBefore(doneJobID) + OldestFlushed)

Right ==
  /\ SourcesInv /\ ContentsInv /\ InTurn /\ BlocksInv /\ InWork /\ OutInv
  /\ LdmWindow > 0 => WindowInv /\ ServingInv
OInv ==
  /\ ErrorsInv
  /\ failures = 0 /\ ~Ended => Right
  /\ failures = 0 /\ Ended => out = FrameBlocks(Total)

-----------------------------------------------------------------------------
(* Sequences by their elements.                                            *)

(* What is a sequence is one over the set of its elements.                 *)
LEMMA Listed ==
  ASSUME NEW n \in Nat, NEW s, s = [i \in 1..n |-> s[i]], NEW S, \A i \in 1..n : s[i] \in S
  PROVE  s \in Seq(S) /\ Len(s) = n /\ DOMAIN s = 1..n
<1>1. s \in [1..n -> S]
  OBVIOUS
<1>2. s \in Seq(S) /\ DOMAIN s = 1..n
  BY <1>1, SeqDef
<1> QED BY <1>2, LenProperties

(* One sequence after another.                                             *)
LEMMA Joined ==
  ASSUME NEW m \in Nat, NEW n \in Nat, NEW s, NEW t,
         s = [i \in 1..m |-> s[i]], t = [i \in 1..n |-> t[i]]
  PROVE  s \o t = [i \in 1 .. m + n |-> IF i <= m THEN s[i] ELSE t[i - m]]
<1> DEFINE S == {s[i] : i \in 1..m} \cup {t[i] : i \in 1..n}
           j == s \o t
<1>1. s \in Seq(S) /\ Len(s) = m
  <2>1. \A i \in 1..m : s[i] \in S
    OBVIOUS
  <2> HIDE DEF S
  <2> QED BY <2>1, Listed
<1>2. t \in Seq(S) /\ Len(t) = n
  <2>1. \A i \in 1..n : t[i] \in S
    OBVIOUS
  <2> HIDE DEF S
  <2> QED BY <2>1, Listed
<1> HIDE DEF S
<1>3. /\ j \in Seq(S) /\ Len(j) = m + n
      /\ \A i \in 1 .. m + n : j[i] = IF i <= m THEN s[i] ELSE t[i - m]
  BY <1>1, <1>2, ConcatProperties
<1>4. j = [i \in 1 .. m + n |-> j[i]]
  <2>1. j \in [1 .. Len(j) -> S]
    BY <1>3, LenProperties
  <2> HIDE DEF j
  <2> QED BY <1>3, <2>1
<1> HIDE DEF j
<1>5. j = [i \in 1 .. m + n |-> IF i <= m THEN s[i] ELSE t[i - m]]
  BY <1>3, <1>4
<1> QED BY <1>5 DEF j

(* A sequence and one element more.                                        *)
LEMMA Appended ==
  ASSUME NEW n \in Nat, NEW s, s = [i \in 1..n |-> s[i]], NEW e
  PROVE  Append(s, e) = [i \in 1 .. n + 1 |-> IF i <= n THEN s[i] ELSE e]
<1> DEFINE S == {s[i] : i \in 1..n}
<1>1. s \in Seq(S) /\ Len(s) = n
  <2>1. \A i \in 1..n : s[i] \in S
    OBVIOUS
  <2> HIDE DEF S
  <2> QED BY <2>1, Listed
<1> HIDE DEF S
<1> QED BY <1>1

(* A sequence and a sequence of one element.                               *)
LEMMA Lengthened ==
  ASSUME NEW S, NEW s \in Seq(S), NEW z \in Seq(S), Len(z) = 1, NEW t, t = s \o z
  PROVE  /\ Len(t) = Len(s) + 1
         /\ \A i \in 1 .. Len(s) + 1 : t[i] = IF i <= Len(s) THEN s[i] ELSE z[1]
<1> DEFINE n == Len(s)
<1>1. n \in Nat
  BY LenProperties
<1>2. /\ Len(t) = n + Len(z)
      /\ \A i \in 1 .. n + Len(z) : t[i] = IF i <= n THEN s[i] ELSE z[i - n]
  BY ConcatProperties
<1> HIDE DEF n
<1>3. \A i \in 1 .. n + 1 : ~(i <= n) => i - n = 1
  BY <1>1
<1> QED BY <1>2, <1>3 DEF n

(* A part of a sequence.                                                   *)
LEMMA Cut ==
  ASSUME NEW n \in Nat, NEW s, s = [i \in 1..n |-> s[i]], NEW m \in 0..n
  PROVE  SubSeq(s, m + 1, n) = [i \in 1 .. n - m |-> s[m + i]]
<1> DEFINE S == {s[i] : i \in 1..n}
           p == SubSeq(s, m + 1, n)
<1>1. \A i \in m + 1 .. n : s[i] \in S
  OBVIOUS
<1> HIDE DEF S
<1>2. /\ p \in Seq(S) /\ Len(p) = n - m
      /\ \A i \in 1 .. n - m : p[i] = s[m + i]
  <2> DEFINE a == m + 1
  <2>1. a \in Int /\ n \in Int
    OBVIOUS
  <2>6. \A i \in a .. n : s[i] \in S
    BY <1>1
  <2>2. p = SubSeq(s, a, n)
    OBVIOUS
  <2> HIDE DEF a, p
  <2>3. /\ p \in Seq(S)
        /\ Len(p) = IF a <= n THEN n - a + 1 ELSE 0
        /\ \A i \in 1 .. n - a + 1 : p[i] = s[a + i - 1]
    <3>1. /\ SubSeq(s, a, n) \in Seq(S)
          /\ Len(SubSeq(s, a, n)) = IF a <= n THEN n - a + 1 ELSE 0
          /\ \A i \in 1 .. n - a + 1 : SubSeq(s, a, n)[i] = s[a + i - 1]
      BY <2>1, <2>6
    <3> QED BY <2>2, <3>1
  <2>4. n - a + 1 = n - m /\ Len(p) = n - m
    BY <2>3 DEF a
  <2>5. ASSUME NEW i \in 1 .. n - m
        PROVE  p[i] = s[m + i]
    <3>1. a + i - 1 = m + i
      BY DEF a
    <3>2. p[i] = s[a + i - 1]
      BY <2>3, <2>4
    <3> QED BY <3>1, <3>2
  <2> QED BY <2>3, <2>4, <2>5
<1>3. p = [i \in 1 .. n - m |-> p[i]]
  <2>1. p \in [1 .. Len(p) -> S]
    BY <1>2, LenProperties
  <2> HIDE DEF p
  <2> QED BY <1>2, <2>1
<1> HIDE DEF p
<1>4. p = [i \in 1 .. n - m |-> s[m + i]]
  BY <1>2, <1>3
<1> QED BY <1>4 DEF p

-----------------------------------------------------------------------------
(* The frame of a call.                                                    *)

(* The sections the jobs cut the input into.                               *)
LEMMA JobSections ==
  ASSUME call \in Calls
  PROVE  /\ JobCount \in Nat /\ JobCount > 0
         /\ UnitsBefore(0) = 0 /\ UnitsBefore(JobCount) = Total
         /\ \A k \in Nat :
              /\ k * Section \in Nat /\ (k + 1) * Section = k * Section + Section
              /\ UnitsBefore(k) \in Nat /\ UnitsBefore(k) <= Total
              /\ UnitsBefore(k) <= k * Section
              /\ k < JobCount =>
                   /\ k * Section < Total /\ UnitsBefore(k) = k * Section
                   /\ JobUnits(k) \in 1..Section
                   /\ UnitsBefore(k + 1) = k * Section + JobUnits(k)
                   /\ Reference!JobStart(call, k) = k * Section + 1
                   /\ Reference!JobEnd(call, k) = k * Section + JobUnits(k)
                   /\ k * Section + JobUnits(k) = Total <=> k = JobCount - 1
                   /\ k # JobCount - 1 => JobUnits(k) = Section
<1> DEFINE t == Total
           s == Section
           q == JobCount
           u(k) == UnitsBefore(k)
           n(k) == JobUnits(k)
<1>1. t \in Nat /\ t > 0 /\ s \in Nat /\ s > 0
  BY CallFacts
<1>2. q \in Nat /\ q * s <= t + s - 1 /\ t + s - 1 < q * s + s
  <2>1. q = (t + s - 1) \div s
    BY DEF JobCount, Reference!JobCount, Total, Section
  <2>2. t + s - 1 \in Nat
    BY <1>1
  <2> HIDE DEF t, s, q
  <2> QED BY <1>1, <2>1, <2>2, DivRange
<1>3. \A k \in Nat : u(k) = IF k * s < t THEN k * s ELSE t
  BY DEF UnitsBefore, Reference!Lowest
<1>4. \A k \in Nat : /\ Reference!JobStart(call, k) = k * s + 1
                     /\ Reference!JobEnd(call, k) = u(k + 1)
                     /\ n(k) = u(k + 1) - (k * s + 1) + 1
  BY DEF Reference!JobStart, Reference!JobEnd, UnitsBefore, JobUnits, Section, Total
<1> HIDE DEF t, s, q, u, n
<1>5. \A k \in Nat : /\ k * s \in Nat /\ (k + 1) * s = k * s + s
                     /\ u(k) \in Nat /\ u(k) <= t /\ u(k) <= k * s
  <2> SUFFICES ASSUME NEW k \in Nat
               PROVE  /\ k * s \in Nat /\ (k + 1) * s = k * s + s
                      /\ u(k) \in Nat /\ u(k) <= t /\ u(k) <= k * s
    OBVIOUS
  <2>1. k * s \in Nat /\ (k + 1) * s = k * s + s
    BY <1>1, Products
  <2> QED BY <1>1, <1>3, <2>1
<1>6. q > 0 /\ u(0) = 0 /\ u(q) = t
  <2>1. q # 0
    <3> SUFFICES ASSUME q = 0
                 PROVE  FALSE
      OBVIOUS
    <3>1. q * s = 0
      BY <1>1
    <3> QED BY <1>1, <1>2, <3>1
  <2>2. 0 * s = 0
    BY <1>1
  <2>3. q * s \in Nat
    BY <1>2, <1>5
  <2> QED BY <1>1, <1>2, <1>3, <2>1, <2>2, <2>3
<1>7. ASSUME NEW k \in Nat, k < q
      PROVE  /\ k * s < t /\ u(k) = k * s
             /\ n(k) \in 1..s
             /\ u(k + 1) = k * s + n(k)
             /\ k * s + n(k) = t <=> k = q - 1
             /\ k # q - 1 => n(k) = s
  <2>1. k * s \in Nat /\ (k + 1) * s = k * s + s /\ q * s \in Nat
    BY <1>2, <1>5
  <2>2. (k + 1) * s <= q * s
    <3>1. k + 1 \in Nat /\ k + 1 <= q
      BY <1>2, <1>7
    <3> QED BY <1>1, <1>2, <3>1, Products
  <2>3. k * s < t /\ u(k) = k * s
    BY <1>1, <1>2, <1>3, <2>1, <2>2
  <2>4. k + 1 \in Nat
    OBVIOUS
  <2>5. u(k + 1) = IF k * s + s < t THEN k * s + s ELSE t
    BY <1>3, <2>1, <2>4
  <2>6. n(k) = u(k + 1) - k * s
    <3>1. u(k + 1) \in Nat
      BY <1>5, <2>4
    <3> QED BY <1>4, <2>1, <3>1
  <2>7. n(k) \in 1..s /\ u(k + 1) = k * s + n(k)
    BY <1>1, <2>1, <2>3, <2>5, <2>6
  <2>8. k = q - 1 => u(k + 1) = t
    BY <1>2, <1>6
  <2>9. k # q - 1 => k * s + s < t
    <3> SUFFICES ASSUME k # q - 1
                 PROVE  k * s + s < t
      OBVIOUS
    <3>1. k + 1 + 1 <= q /\ k + 1 + 1 \in Nat
      BY <1>2, <1>7
    <3>2. (k + 1 + 1) * s <= q * s
      BY <1>1, <1>2, <3>1, Products
    <3>3. (k + 1 + 1) * s = k * s + s + s
      BY <2>1, <2>4, <1>5
    <3> QED BY <1>1, <1>2, <2>1, <3>2, <3>3
  <2> QED BY <1>1, <2>1, <2>3, <2>5, <2>6, <2>7, <2>8, <2>9
<1>8. \A k \in Nat : k < q => Reference!JobEnd(call, k) = k * s + n(k)
  BY <1>4, <1>7
<1> QED BY <1>2, <1>4, <1>5, <1>6, <1>7, <1>8 DEF t, s, q, u, n

(* The blocks of a job, where they are in the frame.                       *)
LEMMA BlockOfJob ==
  ASSUME call \in Calls, NEW k \in Nat, NEW c \in 1..Section
  PROVE  BlockAt(k * Section + c) = Reference!Block(call, k, c)
<1> DEFINE s == Section
           x == (k * s + c) - 1
<1>1. s \in Nat /\ s > 0 /\ k * s \in Nat
  <2>1. s \in Nat /\ s > 0
    BY CallFacts
  <2> HIDE DEF s
  <2> QED BY <2>1, Products
<1>2. BlockAt(k * s + c) = Reference!Block(call, x \div s, (x % s) + 1)
  BY DEF BlockAt
<1> HIDE DEF s
<1>3. c \in 1..s
  BY DEF s
<1>4. x \in Nat /\ x = k * s + (c - 1)
  BY <1>1, <1>3
<1>5. x \div s \in Nat /\ (x \div s) * s <= x /\ x < (x \div s) * s + s
  BY <1>1, <1>4, DivRange
<1>6. x = s * (x \div s) + (x % s)
  BY <1>1, <1>4, Division
<1> DEFINE d == x \div s
           r == x % s
<1> HIDE DEF d, r, x
<1>7. d \in Nat /\ d * s <= x /\ x < d * s + s /\ x = s * d + r
  BY <1>5, <1>6 DEF d, r
<1>8. d = k
  <2>1. d * s \in Nat /\ (d + 1) * s = d * s + s /\ (k + 1) * s = k * s + s
    BY <1>1, <1>7, Products
  <2>2. d * s < (k + 1) * s /\ k * s < (d + 1) * s
    BY <1>1, <1>3, <1>4, <1>7, <2>1
  <2>3. d < k + 1 /\ k < d + 1
    <3>1. k + 1 \in Nat /\ d + 1 \in Nat
      BY <1>7
    <3> QED BY <1>1, <1>7, <2>2, <3>1, Products
  <2> QED BY <1>7, <2>3
<1>9. r = c - 1
  <2>1. s * d = k * s
    BY <1>1, <1>7, <1>8
  <2>2. r \in Int
    <3>1. r \in 0 .. s - 1
      BY <1>1, <1>4, Remainder DEF r
    <3> QED BY <1>1, <3>1
  <2> QED BY <1>1, <1>3, <1>4, <1>7, <2>1, <2>2
<1>10. r + 1 = c
  BY <1>3, <1>9
<1> QED BY <1>2, <1>8, <1>10 DEF s, d, r

(* After the first n blocks of the frame, t holds the next m.              *)
Extends(t, n, m) == FrameBlocks(n) \o t = FrameBlocks(n + m)

(* A frame that ends within a job grows by blocks of that job.             *)
LEMMA FrameGrows ==
  ASSUME call \in Calls, NEW k \in Nat, NEW f \in Nat, NEW m \in Nat, f + m <= Section,
         NEW t, t = [c \in 1..m |-> t[c]],
         \A c \in 1..m : t[c] = Reference!Block(call, k, f + c)
  PROVE  Extends(t, k * Section + f, m)
<1> DEFINE b == k * Section
           s == FrameBlocks(b + f)
           j == [i \in 1 .. b + f + m |-> IF i <= b + f THEN s[i] ELSE t[i - (b + f)]]
<1>1. b \in Nat /\ Section \in Nat
  BY CallFacts, JobSections
<1>2. \A c \in 1..Section : BlockAt(b + c) = Reference!Block(call, k, c)
  BY BlockOfJob
<1>3. s = [i \in 1 .. b + f |-> BlockAt(i)]
  BY DEF FrameBlocks
<1>4. s \o t = j
  <2>1. b + f \in Nat /\ s = [i \in 1 .. b + f |-> s[i]] /\ t = [i \in 1..m |-> t[i]]
    BY <1>1, <1>3
  <2> HIDE DEF s, b
  <2> QED BY <2>1, Joined
<1> HIDE DEF b, s
<1>5. \A i \in 1 .. b + f + m : j[i] = BlockAt(i)
  <2> SUFFICES ASSUME NEW i \in 1 .. b + f + m
               PROVE  j[i] = BlockAt(i)
    OBVIOUS
  <2>1. CASE i <= b + f
    BY <1>1, <1>3, <2>1
  <2>2. CASE ~(i <= b + f)
    <3>1. i - (b + f) \in 1..m /\ f + (i - (b + f)) \in 1..Section
          /\ b + (f + (i - (b + f))) = i
      BY <1>1, <2>2
    <3>2. j[i] = t[i - (b + f)]
      BY <2>2
    <3> QED BY <1>2, <3>1, <3>2
  <2> QED BY <2>1, <2>2
<1>6. j = [i \in 1 .. b + f + m |-> BlockAt(i)]
  BY <1>5
<1> HIDE DEF j
<1>7. s \o t = [i \in 1 .. b + f + m |-> BlockAt(i)]
  BY <1>4, <1>6
<1> QED BY <1>7 DEF FrameBlocks, b, s, Extends

(* Flattening puts one sequence after another.                             *)
LEMMA Flattened ==
  ASSUME NEW N \in Nat, N > 0, NEW seqs, Len(seqs) = N
  PROVE  \E g : /\ Reference!FlattenSeq(seqs) = g[N]
                /\ g = [i \in 1..N |-> IF i = 1 THEN seqs[i] ELSE g[i - 1] \o seqs[i]]
<1> DEFINE IsFlat(g, n) ==
             g = [i \in 1..n |-> IF i = 1 THEN seqs[i] ELSE g[i - 1] \o seqs[i]]
           S == {n \in 0..N : n > 0 => \E g : IsFlat(g, n)}
<1>1. 0 \in S
  OBVIOUS
<1>2. ASSUME NEW n \in 1..N, n - 1 \in S
      PROVE  n \in S
  <2>1. CASE n = 1
    <3> DEFINE h == [i \in 1..1 |-> seqs[i]]
    <3>1. IsFlat(h, 1)
      OBVIOUS
    <3> HIDE DEF h, IsFlat
    <3> QED BY <2>1, <3>1
  <2>2. CASE n # 1
    <3>1. PICK g : IsFlat(g, n - 1)
      <4> HIDE DEF IsFlat
      <4>1. n - 1 > 0 => \E g : IsFlat(g, n - 1)
        BY <1>2
      <4>2. n - 1 > 0
        BY <2>2
      <4> QED BY <4>1, <4>2
    <3> DEFINE h == [i \in 1..n |-> IF i = n THEN g[n - 1] \o seqs[n] ELSE g[i]]
    <3>2. \A i \in 1..n : h[i] = IF i = 1 THEN seqs[i] ELSE h[i - 1] \o seqs[i]
      <4> SUFFICES ASSUME NEW i \in 1..n
                   PROVE  h[i] = IF i = 1 THEN seqs[i] ELSE h[i - 1] \o seqs[i]
        OBVIOUS
      <4>1. CASE i = n
        <5>1. h[n] = g[n - 1] \o seqs[n] /\ n - 1 \in 1..n /\ n - 1 # n
          BY <2>2
        <5>2. h[n - 1] = g[n - 1]
          BY <5>1
        <5> HIDE DEF h
        <5> QED BY <2>2, <4>1, <5>1, <5>2
      <4>2. CASE i # n
        <5>1. i \in 1 .. n - 1 /\ h[i] = g[i]
          BY <4>2
        <5>2. g[i] = IF i = 1 THEN seqs[i] ELSE g[i - 1] \o seqs[i]
          BY <3>1, <5>1
        <5>3. i # 1 => h[i - 1] = g[i - 1]
          BY <5>1
        <5> QED BY <5>1, <5>2, <5>3
      <4> QED BY <4>1, <4>2
    <3>3. IsFlat(h, n)
      BY <3>2
    <3> HIDE DEF h, IsFlat
    <3> QED BY <3>3
  <2> QED BY <2>1, <2>2
<1> HIDE DEF S
<1>3. N \in S
  <2>1. \A n \in 0..N : n \in S
    BY <1>1, <1>2, UpTo
  <2> QED BY <2>1
<1> DEFINE F == CHOOSE g : IsFlat(g, N)
<1>4. IsFlat(F, N)
  <2>1. \E g : IsFlat(g, N)
    BY <1>3 DEF S
  <2> HIDE DEF IsFlat
  <2> QED BY <2>1
<1>5. Reference!FlattenSeq(seqs) = F[N]
  BY DEF Reference!FlattenSeq
<1> HIDE DEF F
<1> QED BY <1>4, <1>5

(* The frame, job after job, is its blocks one after another.              *)
LEMMA WholeFrame ==
  ASSUME call \in Calls
  PROVE  Reference!Frames[call] = FrameBlocks(Total)
<1> DEFINE q == JobCount
           seqs == [k \in 1..q |-> Reference!JobBlocks(call, k - 1)]
<1>1. /\ q \in Nat /\ q > 0 /\ UnitsBefore(0) = 0 /\ UnitsBefore(q) = Total
      /\ \A k \in Nat : k < q => /\ UnitsBefore(k) = k * Section
                                 /\ k * Section \in Nat
                                 /\ JobUnits(k) \in 1..Section
                                 /\ UnitsBefore(k + 1) = k * Section + JobUnits(k)
  BY JobSections
<1>2. Reference!Frames[call] = Reference!FlattenSeq(seqs)
  BY DEF Reference!Frames, Reference!Frame, JobCount
<1>3. \A k \in 1..q : seqs[k] = [c \in 1..JobUnits(k - 1) |-> Reference!Block(call, k - 1, c)]
  BY DEF Reference!JobBlocks, JobUnits
<1>4. Len(seqs) = q
  <2> DEFINE S == {seqs[k] : k \in 1..q}
  <2>1. seqs = [k \in 1..q |-> seqs[k]] /\ \A k \in 1..q : seqs[k] \in S
    OBVIOUS
  <2> HIDE DEF seqs, q, S
  <2> QED BY <1>1, <2>1, Listed
<1> HIDE DEF seqs, q
<1>5. PICK g : /\ Reference!FlattenSeq(seqs) = g[q]
               /\ g = [i \in 1..q |-> IF i = 1 THEN seqs[i] ELSE g[i - 1] \o seqs[i]]
  BY <1>1, <1>4, Flattened
<1>6. \A i \in 1..q : g[i] = IF i = 1 THEN seqs[i] ELSE g[i - 1] \o seqs[i]
  BY <1>5
<1> DEFINE S == {k \in 0..q : k > 0 => g[k] = FrameBlocks(UnitsBefore(k))}
<1>7. 0 \in S
  BY <1>1
<1>8. ASSUME NEW k \in 1..q, k - 1 \in S
      PROVE  k \in S
  <2> DEFINE j == k - 1
             t == seqs[k]
             m == JobUnits(j)
  <2>1. /\ j \in Nat /\ j < q /\ m \in 1..Section /\ j + 1 = k
        /\ UnitsBefore(j) = j * Section /\ j * Section \in Nat
        /\ UnitsBefore(k) = j * Section + m /\ Section \in Nat
    <3>1. j \in Nat /\ j < q /\ j + 1 = k
      BY <1>1
    <3> HIDE DEF j
    <3>2. Section \in Nat
      BY CallFacts
    <3> QED BY <1>1, <3>1, <3>2
  <2>2. t = [c \in 1..m |-> t[c]] /\ \A c \in 1..m : t[c] = Reference!Block(call, j, 0 + c)
    <3>1. t = [c \in 1..m |-> Reference!Block(call, j, c)]
      BY <1>3
    <3> HIDE DEF j, t, m
    <3>2. \A c \in 1..m : 0 + c = c
      BY <2>1
    <3> QED BY <3>1, <3>2
  <2>3. FrameBlocks(j * Section + 0) \o t = FrameBlocks(j * Section + 0 + m)
    <3> HIDE DEF j, t, m
    <3> DEFINE z == 0
    <3>1. z \in Nat /\ m \in Nat /\ z + m <= Section
      BY <2>1
    <3>2. t = [c \in 1..m |-> t[c]] /\ \A c \in 1..m : t[c] = Reference!Block(call, j, z + c)
      BY <2>2
    <3>3. j \in Nat
      BY <2>1
    <3>4. Extends(t, j * Section + z, m)
      <4> HIDE DEF z
      <4> QED BY <3>1, <3>2, <3>3, FrameGrows
    <3> QED BY <3>4 DEF Extends
  <2>4. FrameBlocks(UnitsBefore(j)) \o t = FrameBlocks(UnitsBefore(k))
    <3> HIDE DEF j, t, m
    <3>1. j * Section + 0 = j * Section /\ j * Section + 0 + m = j * Section + m
      BY <2>1
    <3> QED BY <2>1, <2>3, <3>1
  <2>5. CASE k = 1
    <3>1. UnitsBefore(j) = 0
      BY <1>1, <2>5
    <3>2. FrameBlocks(0) \o t = t
      <4>1. FrameBlocks(0) = <<>>
        BY DEF FrameBlocks
      <4>2. <<>> \o t = t
        <5> DEFINE Z == {t[c] : c \in 1..m}
        <5> HIDE DEF j, m, t
        <5>1. t = [c \in 1..m |-> t[c]] /\ m \in Nat
          BY <2>1, <2>2
        <5>2. \A c \in 1..m : t[c] \in Z
          OBVIOUS
        <5> HIDE DEF Z
        <5>3. t \in Seq(Z)
          BY <5>1, <5>2, Listed
        <5> QED BY <5>3, ConcatEmptySeq
      <4> QED BY <4>1, <4>2
    <3> QED BY <1>6, <2>4, <2>5, <3>1, <3>2
  <2>6. CASE k # 1
    <3>1. g[k] = g[j] \o t
      BY <1>6, <2>6
    <3>2. j > 0 => g[j] = FrameBlocks(UnitsBefore(j))
      BY <1>8
    <3>3. j > 0
      BY <2>6
    <3>4. g[k] = FrameBlocks(UnitsBefore(k))
      <4> HIDE DEF j, t, S
      <4> QED BY <2>4, <3>1, <3>2, <3>3
    <3> QED BY <3>4
  <2> QED BY <2>5, <2>6
<1> HIDE DEF S
<1>9. q \in S
  <2>1. \A k \in 0..q : k \in S
    BY <1>1, <1>7, <1>8, UpTo
  <2> QED BY <1>1, <2>1
<1>10. g[q] = FrameBlocks(UnitsBefore(q))
  BY <1>1, <1>9 DEF S
<1> QED BY <1>1, <1>2, <1>5, <1>10

-----------------------------------------------------------------------------
(* What steps leave alone.                                                 *)

(* The frame and its parts are those of the call.                          *)
LEMMA PartsKept ==
  ASSUME call' = call
  PROVE  /\ \A k : UnitsBefore(k)' = UnitsBefore(k) /\ JobUnits(k)' = JobUnits(k)
         /\ \A n : FrameBlocks(n)' = FrameBlocks(n)
         /\ \A k, c : Reference!Block(call', k, c) = Reference!Block(call, k, c)
         /\ \A k : Reference!LdmMatches(call', k) = Reference!LdmMatches(call, k)
<1>1. Total' = Total /\ Section' = Section
  BY CallKept
<1>2. \A k : UnitsBefore(k)' = UnitsBefore(k)
  BY <1>1 DEF UnitsBefore, Reference!Lowest
<1>3. \A k : JobUnits(k)' = JobUnits(k)
  BY DEF JobUnits, Reference!JobStart, Reference!JobEnd, Reference!Lowest
<1>4. \A n : BlockAt(n)' = BlockAt(n)
  BY <1>1 DEF BlockAt
<1>5. \A n : FrameBlocks(n)' = FrameBlocks(n)
  BY <1>4 DEF FrameBlocks
<1> QED BY <1>2, <1>3, <1>5

(* A step that leaves main's variables alone and only advances jobs keeps  *)
(* what is said of the sources and, if it leaves the serial state alone    *)
(* too, of the window; the output stays right if no job is flushed.        *)
LEMMA WorkerKeeps ==
  ASSUME IInv, UNCHANGED mainVars, JobsAdvance, InTurn
  PROVE  /\ SourcesInv => SourcesInv'
         /\ ContentsInv => ContentsInv'
         /\ (\A k \in Live : JobAt(k)'.flushed = JobAt(k).flushed) => (OutInv => OutInv')
         /\ UNCHANGED serialVars =>
              (WindowInv => WindowInv') /\ (ServingInv => ServingInv')
<1>1. call' = call
  BY MainStateKept
<1>2. \A k \in Live : JobAt(k)'.src = JobAt(k).src /\ JobAt(k)'.prefix = JobAt(k).prefix
  BY DEF JobsAdvance
<1>3. Unfinished' \subseteq Unfinished /\ Unfinished \subseteq Live
  BY MainStateKept DEF Unfinished, JobsAdvance
<1>4. SourcesInv => SourcesInv'
  BY <1>1, <1>2, MainStateKept, PartsKept DEF SourcesInv
<1>5. Section' = Section /\ roundBuff' = roundBuff
  BY <1>1, CallKept, MainStateKept
<1>6. \A r, b : Holds(r, b)' <=> Holds(r, b)
  BY <1>5 DEF Holds
<1>7. ContentsInv => ContentsInv'
  <2> SUFFICES ASSUME ContentsInv
               PROVE  ContentsInv'
    OBVIOUS
  <2>1. ASSUME NEW k \in Unfinished'
        PROVE  /\ Holds(JobAt(k).src, k * Section)'
               /\ Holds(JobAt(k).prefix, k * Section - JobAt(k).prefix.size)'
    <3>1. /\ k \in Unfinished
          /\ JobAt(k)'.src = JobAt(k).src /\ JobAt(k)'.prefix = JobAt(k).prefix
      BY <1>2, <1>3
    <3>2. /\ Holds(JobAt(k).src, k * Section)
          /\ Holds(JobAt(k).prefix, k * Section - JobAt(k).prefix.size)
      BY <3>1 DEF ContentsInv
    <3> QED BY <1>5, <3>1, <3>2 DEF Holds
  <2>2. Reserved' => Holds(Span(inBuff.start, inBuff.filled), Prepared * Section)'
    BY <1>5, MainStateKept DEF ContentsInv, Holds
  <2>3. ~frameEnded' => Holds(prefix, Prepared * Section - prefix.size)'
    BY <1>5, MainStateKept DEF ContentsInv, Holds
  <2> QED BY <2>1, <2>2, <2>3 DEF ContentsInv
<1>8. ASSUME \A k \in Live : JobAt(k)'.flushed = JobAt(k).flushed, OutInv
      PROVE  OutInv'
  <2>1. doneJobID' = doneJobID /\ Live' = Live /\ out' = out
    BY MainStateKept
  <2>2. \A k : k = doneJobID => JobAt(doneJobID)' = JobAt(k)'
    BY <2>1, <1>1, CallKept DEF JobAt
  <2>3. OldestFlushed' = OldestFlushed
    BY <1>8, <2>1, <2>2 DEF OldestFlushed
  <2>4. UnitsBefore(doneJobID)' = UnitsBefore(doneJobID)
    BY <1>1, <2>1, CallKept DEF UnitsBefore, Reference!Lowest
  <2>5. FrameBlocks(UnitsBefore(doneJobID) + OldestFlushed)' = FrameBlocks(UnitsBefore(doneJobID) + OldestFlushed)
    BY <1>1, <2>3, <2>4, CallKept DEF FrameBlocks, BlockAt
  <2> QED BY <1>8, <2>1, <2>5 DEF OutInv
<1>9. ASSUME UNCHANGED serialVars, WindowInv
      PROVE  WindowInv'
  <2>1. /\ serialNext' = serialNext /\ ldmState' = ldmState /\ ldmWindow' = ldmWindow
        /\ LdmWindow' = LdmWindow /\ Overlap' = Overlap
    BY <1>1, <1>9, CallKept DEF serialVars
  <2>2. Served' = Served
    BY <1>1, <2>1, CallKept DEF Served, UnitsBefore, Reference!Lowest
  <2> QED BY <1>5, <1>9, <2>1, <2>2 DEF WindowInv, Holds, Reference!Lowest
<1>10. ASSUME UNCHANGED serialVars, ServingInv
       PROVE  ServingInv'
  <2>1. /\ serialNext' = serialNext /\ ldmWindow' = ldmWindow
        /\ Overlap' = Overlap /\ Capacity' = Capacity
    BY <1>1, <1>10, CallKept DEF serialVars
  <2>2. /\ Unserved' = Unserved /\ Unserved \subseteq Live /\ Live' = Live
        /\ Prepared' = Prepared /\ roundPos' = roundPos
    BY <2>1, MainStateKept DEF Unserved
  <2>3. ASSUME NEW k \in Nat, k >= doneJobID
        PROVE  NextStart(k)' = NextStart(k)
    <3>1. k < Prepared => k \in Live
      BY <2>3, PreparedJobs DEF IInv, Types
    <3> QED BY <1>2, <2>2, <3>1 DEF NextStart
  <2>4. serialNext \in Nat /\ serialNext >= doneJobID /\ doneJobID \in Nat
    BY <1>10 DEF IInv, TurnsInv, InTurn, Types, FrameTypes
  <2>5. NextStart(serialNext)' = NextStart(serialNext)
    <3>1. \A k : k = serialNext => NextStart(serialNext)' = NextStart(k)'
      BY <1>1, <2>1, CallKept DEF NextStart, JobAt
    <3> QED BY <2>3, <2>4, <3>1
  <2>6. Follows(Ends(ldmWindow.pre), NextStart(serialNext))'
    BY <1>5, <1>10, <2>1, <2>5 DEF ServingInv, Follows, Ends
  <2>7. ASSUME NEW k \in Unserved'
        PROVE  /\ Follows(Ends(JobAt(k).src), NextStart(k + 1))'
               /\ LdmComplete(JobAt(k).src)'
    <3>1. k \in Unserved /\ JobAt(k)'.src = JobAt(k).src
      BY <1>2, <2>2
    <3>2. k + 1 \in Nat /\ k + 1 >= doneJobID
      BY <2>4, <3>1 DEF Unserved, Live
    <3>3. NextStart(k + 1)' = NextStart(k + 1)
      BY <2>3, <3>2
    <3> QED BY <1>5, <1>10, <2>1, <3>1, <3>3
            DEF ServingInv, Follows, Ends, LdmComplete, isOverlapped
  <2>8. ASSUME NEW i \in Unserved', NEW k \in Unserved', i < k
        PROVE  ~isOverlapped(JobAt(i).src, JobAt(k).src)'
    <3>1. i \in Live /\ k \in Live /\ ~isOverlapped(JobAt(i).src, JobAt(k).src)
      BY <1>10, <2>2, <2>8 DEF ServingInv
    <3> QED BY <1>2, <3>1 DEF isOverlapped, Ends
  <2>9. Reserved' => LdmComplete(Span(roundPos, Section))'
    BY <1>5, <1>10, <2>1, MainStateKept DEF ServingInv, LdmComplete, isOverlapped, Ends
  <2> QED BY <2>6, <2>7, <2>8, <2>9 DEF ServingInv
<1> QED BY <1>4, <1>7, <1>8, <1>9, <1>10

(* The order of turns when worker w moves and no turn is taken.            *)
LEMMA TurnsKept ==
  ASSUME IInv, InTurn, NEW w \in Workers, UNCHANGED mainVars, serialNext' = serialNext,
         Pool!Queued' \subseteq Pool!Queued,
         \A v \in Workers : v # w => wpc'[v] = wpc[v] /\ running'[v] = running[v],
         \A k \in Live : Completed(JobAt(k))' => Completed(JobAt(k)) \/ k < serialNext,
         Working(w)' => (BeforeTurn(w)' <=> serialNext <= running'[w])
  PROVE  InTurn'
<1>1. doneJobID' = doneJobID /\ nextJobID' = nextJobID /\ Live' = Live
  BY MainStateKept
<1>2. ASSUME NEW v \in Workers, Working(v)'
      PROVE  BeforeTurn(v)' <=> serialNext <= running'[v]
  BY <1>2 DEF InTurn, Working, BeforeTurn
<1> QED BY <1>1, <1>2 DEF InTurn

(* What the workers have in work when worker w moves.                      *)
LEMMA WorkKept ==
  ASSUME InWork, NEW w \in Workers, call' = call,
         \A v \in Workers : v # w => /\ wpc'[v] = wpc[v] /\ running'[v] = running[v]
                                     /\ wseq'[v] = wseq[v] /\ wlast'[v] = wlast[v],
         Working(w)' =>
           /\ wpc'[w] = "compress" => wseq'[w] = Reference!LdmMatches(call, running'[w])
           /\ wlast'[w] # <<>> =>
                wlast'[w] = <<Reference!Block(call, running'[w], JobUnits(running'[w]))>>
  PROVE  InWork'
<1>1. ASSUME NEW v \in Workers, Working(v)'
      PROVE  /\ wpc'[v] = "compress" => wseq'[v] = Reference!LdmMatches(call, running'[v])
             /\ wlast'[v] # <<>> =>
                  wlast'[v] = <<Reference!Block(call, running'[v], JobUnits(running'[v]))>>
  BY <1>1 DEF InWork, Working
<1>2. \A k : JobUnits(k)' = JobUnits(k)
  BY PartsKept
<1> QED BY <1>1, <1>2 DEF InWork, JobUnits, Reference!JobStart, Reference!JobEnd

(* The blocks when no job gets one.                                        *)
LEMMA BlocksKept ==
  ASSUME BlocksInv, UNCHANGED mainVars,
         \A k \in Live : /\ JobAt(k)'.blocks = JobAt(k).blocks
                         /\ JobAt(k)'.consumed = JobAt(k).consumed
                         /\ JobAt(k)'.flushed = JobAt(k).flushed
  PROVE  BlocksInv'
<1>1. call' = call /\ doneJobID' = doneJobID /\ Live' = Live
  BY MainStateKept
<1> QED BY <1>1 DEF BlocksInv

(* Errors when no job meets one.                                           *)
LEMMA ErrorsKept ==
  ASSUME IInv, ErrorsInv, UNCHANGED mainVars, failures' = failures,
         \A s \in TableSlots : jobs'[s].error = jobs[s].error
  PROVE  ErrorsInv'
<1>1. call' = call
  BY MainStateKept
<1>2. /\ mpc' = mpc /\ failed' = failed /\ outcome' = outcome /\ Live' = Live
      /\ (Ended' <=> Ended)
      /\ TableSlots' = TableSlots /\ \A k : Slot(k)' = Slot(k)
  BY <1>1, CallKept, MainStateKept
<1>3. \A k \in Live : Slot(k) \in TableSlots
  BY LiveSlots, MainTypesNow
<1> QED BY <1>2, <1>3 DEF ErrorsInv, JobAt

(* What a worker's step that meets no error has to keep.                   *)
LEMMA WorkerStep ==
  ASSUME IInv, OInv, UNCHANGED mainVars, failures' = failures, JobsAdvance,
         \A k \in Live : JobAt(k)'.flushed = JobAt(k).flushed,
         \A s \in TableSlots : jobs'[s].error = jobs[s].error,
         failures = 0 /\ ~Ended /\ Right =>
           /\ InTurn' /\ BlocksInv' /\ InWork'
           /\ UNCHANGED serialVars \/ (LdmWindow > 0 => WindowInv' /\ ServingInv')
  PROVE  OInv'
<1>1. ErrorsInv'
  BY ErrorsKept DEF OInv
<1>2. call' = call /\ (Ended' <=> Ended) /\ out' = out
  BY MainStateKept
<1>3. failures' = 0 /\ Ended' => out' = FrameBlocks(Total)'
  BY <1>2, CallKept DEF OInv, FrameBlocks, BlockAt
<1>4. ASSUME failures = 0, ~Ended
      PROVE  Right'
  <2>1. Right
    BY <1>4 DEF OInv
  <2>2. SourcesInv' /\ ContentsInv' /\ OutInv'
    BY <2>1, WorkerKeeps DEF Right
  <2>3. UNCHANGED serialVars /\ LdmWindow > 0 => WindowInv' /\ ServingInv'
    BY <2>1, WorkerKeeps DEF Right
  <2>4. LdmWindow' = LdmWindow
    BY <1>2, CallKept
  <2> QED BY <1>4, <2>1, <2>2, <2>3, <2>4 DEF Right
<1> QED BY <1>1, <1>2, <1>3, <1>4 DEF OInv

-----------------------------------------------------------------------------
(* Steps of workers.                                                       *)

(* A step that writes no description.                                      *)
LEMMA NothingWritten ==
  ASSUME IInv, UNCHANGED mainVars, jobs' = jobs
  PROVE  /\ JobsAdvance
         /\ \A k \in Live : JobAt(k)' = JobAt(k) /\ (Completed(JobAt(k))' => Completed(JobAt(k)))
         /\ \A s \in TableSlots : jobs'[s].error = jobs[s].error
<1>1. JobsAdvance /\ \A k : JobAt(k)' = JobAt(k)
  BY UntouchedStep
<1> QED BY <1>1 DEF Completed

(* A worker takes a job: the turn cannot be beyond it.                     *)
LEMMA BeginKeeps ==
  ASSUME IInv, OInv, NEW w \in Workers, Begin(w)
  PROVE  OInv'
<1>1. /\ UNCHANGED mainVars /\ jobs' = jobs /\ UNCHANGED serialVars
      /\ serialNext' = serialNext
      /\ wseq' = wseq /\ wlast' = wlast /\ failures' = failures
      /\ wpc' = [wpc EXCEPT ![w] = "resources"]
      /\ running[w] = NoJob /\ queue # <<>> /\ queue' = Tail(queue)
      /\ running' = [running EXCEPT ![w] = Head(queue)]
  BY DEF Begin, Pool!BeginJob, serialVars
<1>2. WorkerTypes /\ PoolTypes /\ WorkersInv /\ QueueInv /\ call' = call
  BY <1>1, MainTypesNow, MainStateKept
<1>3. JobsAdvance /\ (\A k \in Live : JobAt(k)' = JobAt(k)
                                       /\ (Completed(JobAt(k))' => Completed(JobAt(k))))
      /\ \A s \in TableSlots : jobs'[s].error = jobs[s].error
  BY <1>1, NothingWritten
<1>4. /\ wpc'[w] = "resources" /\ running'[w] = Head(queue) /\ wlast'[w] = <<>>
      /\ \A v \in Workers : v # w => /\ wpc'[v] = wpc[v] /\ running'[v] = running[v]
                                     /\ wseq'[v] = wseq[v] /\ wlast'[v] = wlast[v]
  <2>1. wpc[w] = "idle" /\ wlast[w] = <<>>
    BY <1>1, <1>2 DEF WorkersInv, WorkerPlace
  <2> QED BY <1>1, <1>2, <2>1 DEF WorkerTypes, PoolTypes
<1>5. Head(queue) \in Pool!Queued /\ Pool!Queued' \subseteq Pool!Queued
  <2>1. queue \in Seq(Nat) /\ Len(queue) \in Nat /\ Len(queue) # 0
    BY <1>1, <1>2, EmptySeq, LenProperties DEF PoolTypes
  <2>2. 1 \in DOMAIN queue /\ Head(queue) = queue[1]
    BY <1>1, <2>1, LenProperties
  <2>3. Len(queue) <= 1
    BY <1>2 DEF QueueInv
  <2>4. Len(Tail(queue)) = 0 /\ Tail(queue) \in Seq(Nat)
    <3>1. Tail(queue) \in Seq(Nat) /\ Len(Tail(queue)) = Len(queue) - 1
      BY <1>1, <2>1, HeadTailProperties
    <3> QED BY <2>1, <2>3, <3>1
  <2>5. queue' = <<>>
    BY <1>1, <2>4, EmptySeq
  <2> QED BY <2>2, <2>5 DEF Pool!Queued
<1>6. ASSUME Right
      PROVE  InTurn' /\ BlocksInv' /\ InWork'
  <2>1. serialNext <= Head(queue)
    BY <1>5, <1>6 DEF Right, InTurn
  <2>2. InTurn'
    BY <1>1, <1>3, <1>4, <1>5, <1>6, <2>1, TurnsKept DEF Right, BeforeTurn
  <2>3. BlocksInv'
    BY <1>1, <1>3, <1>6, BlocksKept DEF Right
  <2>4. InWork'
    BY <1>2, <1>4, <1>6, WorkKept DEF Right
  <2> QED BY <2>2, <2>3, <2>4
<1> QED BY <1>1, <1>3, <1>6, WorkerStep

(* The steps that only move a worker on.                                   *)
LEMMA QuietKeeps ==
  ASSUME IInv, OInv, NEW w \in Workers, ReleaseResources(w) \/ End(w)
  PROVE  OInv'
<1>1. /\ UNCHANGED mainVars /\ jobs' = jobs /\ UNCHANGED serialVars
      /\ serialNext' = serialNext /\ queue' = queue
      /\ wlast' = wlast /\ failures' = failures
      /\ (wpc[w] = "release" /\ wpc' = [wpc EXCEPT ![w] = "report"]
            /\ running' = running /\ wseq' = [wseq EXCEPT ![w] = <<>>])
         \/ (wpc[w] = "end" /\ wpc' = [wpc EXCEPT ![w] = "idle"]
               /\ running' = [running EXCEPT ![w] = NoJob] /\ wseq' = wseq)
  BY DEF ReleaseResources, End, Pool!EndJob, serialVars, poolVars
<1>2. WorkerTypes /\ PoolTypes /\ WorkersInv /\ call' = call
  BY <1>1, MainTypesNow, MainStateKept
<1>3. JobsAdvance /\ (\A k \in Live : JobAt(k)' = JobAt(k)
                                       /\ (Completed(JobAt(k))' => Completed(JobAt(k))))
      /\ \A s \in TableSlots : jobs'[s].error = jobs[s].error
  BY <1>1, NothingWritten
<1>4. /\ wlast'[w] = wlast[w]
      /\ \A v \in Workers : v # w => /\ wpc'[v] = wpc[v] /\ running'[v] = running[v]
                                     /\ wseq'[v] = wseq[v] /\ wlast'[v] = wlast[v]
  BY <1>1, <1>2 DEF WorkerTypes, PoolTypes
<1>5. Working(w)' => wpc[w] = "release" /\ wpc'[w] = "report" /\ running'[w] = running[w]
  BY <1>1, <1>2 DEF WorkerTypes, PoolTypes, Working
<1>6. Pool!Queued' \subseteq Pool!Queued
  BY <1>1 DEF Pool!Queued
<1>7. ASSUME Right
      PROVE  InTurn' /\ BlocksInv' /\ InWork'
  <2>1. Working(w)' => (BeforeTurn(w)' <=> serialNext <= running'[w])
    BY <1>5, <1>7 DEF Right, InTurn, BeforeTurn, Working
  <2>2. InTurn'
    BY <1>1, <1>3, <1>4, <1>6, <1>7, <2>1, TurnsKept DEF Right
  <2>3. BlocksInv'
    BY <1>1, <1>3, <1>7, BlocksKept DEF Right
  <2>4. InWork'
    <3>1. Working(w)' => Working(w)
      BY <1>5 DEF Working
    <3> QED BY <1>2, <1>4, <1>5, <1>7, <3>1, WorkKept DEF Right, InWork
  <2> QED BY <2>2, <2>3, <2>4
<1> QED BY <1>1, <1>3, <1>7, WorkerStep

(* A worker that has compressed its job took its turn, or another did.     *)
LEMMA EnsureFinishedKeeps ==
  ASSUME IInv, OInv, NEW w \in Workers, EnsureFinished(w)
  PROVE  OInv'
<1>1. /\ UNCHANGED mainVars /\ jobs' = jobs
      /\ queue' = queue /\ running' = running /\ wseq' = wseq
      /\ wlast' = wlast /\ failures' = failures /\ ldmState' = ldmState
      /\ wpc[w] = "ensure" /\ wpc' = [wpc EXCEPT ![w] = "release"]
  BY DEF EnsureFinished, serialVars, poolVars
<1>2. WorkerTypes /\ PoolTypes /\ WorkersInv /\ call' = call /\ Working(w)
  BY <1>1, MainTypesNow, MainStateKept DEF Working
<1>3. JobsAdvance /\ (\A k \in Live : JobAt(k)' = JobAt(k)
                                       /\ (Completed(JobAt(k))' => Completed(JobAt(k))))
      /\ \A s \in TableSlots : jobs'[s].error = jobs[s].error
  BY <1>1, NothingWritten
<1>4. /\ wlast'[w] = wlast[w] /\ wpc'[w] = "release"
      /\ \A v \in Workers : v # w => /\ wpc'[v] = wpc[v] /\ running'[v] = running[v]
                                     /\ wseq'[v] = wseq[v] /\ wlast'[v] = wlast[v]
  BY <1>1, <1>2 DEF WorkerTypes, PoolTypes
<1>6. Pool!Queued' \subseteq Pool!Queued
  BY <1>1 DEF Pool!Queued
<1>7. ASSUME Right
      PROVE  InTurn' /\ BlocksInv' /\ InWork' /\ UNCHANGED serialVars
  <2>1. JobOf(w).id = running[w] /\ running[w] \in Nat
    BY <1>2, InHand DEF Described
  <2>2. ~(serialNext <= running[w])
    BY <1>1, <1>2, <1>7 DEF Right, InTurn, BeforeTurn
  <2>3. UNCHANGED serialVars /\ serialNext' = serialNext
    BY <1>1, <2>1, <2>2 DEF EnsureFinished, serialVars
  <2>4. InTurn'
    BY <1>1, <1>3, <1>4, <1>6, <1>7, <2>2, <2>3, TurnsKept DEF Right, BeforeTurn
  <2>5. BlocksInv'
    BY <1>1, <1>3, <1>7, BlocksKept DEF Right
  <2>6. InWork'
    BY <1>1, <1>2, <1>4, <1>7, WorkKept DEF Right, InWork
  <2> QED BY <2>3, <2>4, <2>5, <2>6
<1> QED BY <1>1, <1>3, <1>7, WorkerStep

(* A worker gets its context and its buffer.                               *)
LEMMA GetResourcesKeeps ==
  ASSUME IInv, OInv, NEW w \in Workers, GetResources(w)
  PROVE  OInv'
<1>1. /\ UNCHANGED mainVars /\ UNCHANGED serialVars /\ serialNext' = serialNext
      /\ jobs' = [jobs EXCEPT ![SlotOf(w)].dst = TRUE]
      /\ queue' = queue /\ running' = running /\ wseq' = wseq
      /\ wlast' = wlast /\ failures' = failures
      /\ wpc[w] = "resources" /\ wpc' = [wpc EXCEPT ![w] = "serial"]
  BY DEF GetResources, GetCCtx, serialVars, poolVars
<1>2. /\ WorkerTypes /\ PoolTypes /\ WorkersInv /\ call' = call /\ Working(w)
      /\ JobTypes /\ FrameTypes
  BY <1>1, MainTypesNow, MainStateKept DEF Working
<1>3. \A s \in TableSlots :
        /\ jobs'[s].src = jobs[s].src /\ jobs'[s].prefix = jobs[s].prefix
        /\ jobs'[s].id = jobs[s].id /\ jobs'[s].last = jobs[s].last
        /\ jobs'[s].consumed = jobs[s].consumed /\ jobs'[s].blocks = jobs[s].blocks
        /\ jobs'[s].flushed = jobs[s].flushed /\ jobs'[s].error = jobs[s].error
  BY <1>1, <1>2 DEF JobTypes, Descriptions
<1>4. \A k \in Live :
        /\ JobAt(k)'.src = JobAt(k).src /\ JobAt(k)'.prefix = JobAt(k).prefix
        /\ JobAt(k)'.id = JobAt(k).id /\ JobAt(k)'.last = JobAt(k).last
        /\ JobAt(k)'.consumed = JobAt(k).consumed /\ JobAt(k)'.blocks = JobAt(k).blocks
        /\ JobAt(k)'.flushed = JobAt(k).flushed /\ JobAt(k)'.error = JobAt(k).error
  <2>1. \A k \in Live : Slot(k) \in TableSlots
    BY LiveSlots, MainTypesNow
  <2>2. \A k : JobAt(k)' = jobs'[Slot(k)]
    BY <1>2, CallKept DEF JobAt
  <2> QED BY <1>3, <2>1, <2>2 DEF JobAt
<1>5. JobsAdvance /\ \A k \in Live : Completed(JobAt(k))' => Completed(JobAt(k))
  BY <1>4 DEF JobsAdvance, Completed
<1>6. /\ wlast'[w] = wlast[w] /\ wpc'[w] = "serial"
      /\ \A v \in Workers : v # w => /\ wpc'[v] = wpc[v] /\ running'[v] = running[v]
                                     /\ wseq'[v] = wseq[v] /\ wlast'[v] = wlast[v]
      /\ Pool!Queued' \subseteq Pool!Queued
  BY <1>1, <1>2 DEF WorkerTypes, PoolTypes, Pool!Queued
<1>7. ASSUME Right
      PROVE  InTurn' /\ BlocksInv' /\ InWork'
  <2>1. serialNext <= running[w]
    BY <1>1, <1>2, <1>7 DEF Right, InTurn, BeforeTurn
  <2>2. InTurn'
    BY <1>1, <1>5, <1>6, <1>7, <2>1, TurnsKept DEF Right, BeforeTurn
  <2>3. BlocksInv'
    BY <1>1, <1>4, <1>7, BlocksKept DEF Right
  <2>4. InWork'
    BY <1>1, <1>2, <1>6, <1>7, WorkKept DEF Right, InWork
  <2> QED BY <2>2, <2>3, <2>4
<1> QED BY <1>1, <1>3, <1>4, <1>5, <1>7, WorkerStep

(* A job that fails leaves its error for main to meet.                     *)
LEMMA FailingKeeps ==
  ASSUME IInv, OInv, NEW w \in Workers, NoResources(w) \/ CompressFails(w)
  PROVE  OInv'
<1>1. /\ UNCHANGED mainVars
      /\ jobs' = [jobs EXCEPT ![SlotOf(w)].error = TRUE]
      /\ failures' = failures + 1 /\ wpc[w] \in {"resources", "compress"}
  BY DEF NoResources, CompressFails, JOB_ERROR, CountFailure
<1>2. /\ JobTypes /\ MainTypes /\ call' = call /\ Working(w)
  BY <1>1, MainTypesNow, MainStateKept DEF Working
<1>3. failures \in Nat /\ failures' > 0
  <2>1. MaxFailures \in Nat
    BY <1>2, CallFacts DEF MainTypes
  <2> QED BY <1>1, <1>2, <2>1 DEF MainTypes
<1>4. running[w] \in Live /\ Slot(running[w]) \in TableSlots /\ ~Ended
      /\ SlotOf(w) = Slot(running[w])
  BY <1>2, InHand
<1>5. \E k \in Live : JobAt(k)'.error
  <2>1. jobs'[Slot(running[w])].error
    BY <1>1, <1>2, <1>4 DEF JobTypes, Descriptions
  <2>2. \A k : k = running[w] => JobAt(k)'.error
    BY <1>2, <2>1, CallKept DEF JobAt
  <2> QED BY <1>4, <2>2
<1>6. Live' = Live /\ (Ended' <=> Ended) /\ mpc' = mpc /\ failed' = failed
      /\ outcome' = outcome
  BY <1>1, MainStateKept
<1>7. ErrorsInv'
  BY <1>3, <1>4, <1>5, <1>6 DEF OInv, ErrorsInv
<1> QED BY <1>3, <1>7 DEF OInv

(* A range and the units it holds.                                         *)
LEMMA ContentsUnits ==
  ASSUME NEW r, NEW b \in Int, NEW n \in Nat, r.size \in Nat, n <= r.size, Holds(r, b)
  PROVE  /\ Contents(roundBuff, Span(r.start, n)) = Reference!Units(b + 1, b + n)
         /\ n = r.size => Contents(roundBuff, r) = Reference!Units(b + 1, b + n)
<1>1. \A i \in 1..n : roundBuff[r.start + (i - 1)] = b + i
  <2> SUFFICES ASSUME NEW i \in 1..n
               PROVE  roundBuff[r.start + (i - 1)] = b + i
    OBVIOUS
  <2>1. i - 1 \in 0 .. r.size - 1 /\ b + (i - 1) + 1 = b + i
    OBVIOUS
  <2> QED BY <2>1 DEF Holds
<1>2. Reference!Units(b + 1, b + n) = [i \in 1..n |-> b + i]
  <2>1. Reference!Highest(b + n + 1, b + 1) - (b + 1) = n
    BY DEF Reference!Highest
  <2>2. \A i \in 1..n : b + 1 + i - 1 = b + i
    OBVIOUS
  <2> QED BY <2>1, <2>2 DEF Reference!Units
<1>3. Contents(roundBuff, Span(r.start, n)) = [i \in 1..n |-> roundBuff[r.start + (i - 1)]]
  BY DEF Contents, Span
<1>4. n = r.size => Contents(roundBuff, r) = [i \in 1..n |-> roundBuff[r.start + (i - 1)]]
  BY DEF Contents
<1> QED BY <1>1, <1>2, <1>3, <1>4

(* The last of the jobs is the one that ends the frame.                    *)
LEMMA LastOfAll ==
  ASSUME IInv, ~Ended, NEW k \in Live
  PROVE  JobAt(k).last <=> k = JobCount - 1
<1>1. /\ Taken /\ Described(k) /\ FrameTypes /\ MainTypes /\ BufferTypes /\ call \in Calls
  BY MainTypesNow DEF LiveDescribed
<1>2. k \in Nat /\ k < Prepared /\ Prepared \in Nat /\ Prepared <= JobCount /\ JobCount \in Nat
  <2>1. JobCount \in Nat
    BY <1>1, JobSections
  <2> QED BY <1>1, <2>1, PreparedJobs DEF FrameTypes
<1>3. JobAt(k).last => k = JobCount - 1
  BY <1>1, <1>2 DEF Described, Taken
<1>4. ASSUME k = JobCount - 1
      PROVE  frameEnded
  <2> SUFFICES ASSUME ~frameEnded
               PROVE  FALSE
    OBVIOUS
  <2>1. Prepared = JobCount
    BY <1>2, <1>4
  <2>2. /\ Section \in Nat /\ Section > 0 /\ Total \in Nat /\ srcOffset \in Nat /\ inPos \in Nat
        /\ inBuff.filled \in Nat
    BY RoundSizes
  <2>3. /\ srcOffset + inPos = Prepared * Section + inBuff.filled /\ inPos <= ThisChunk
        /\ (EndFrame => inBuff.filled > 0) /\ srcOffset < Total
    BY <1>1 DEF Taken
  <2>4. ThisChunk \in Nat /\ ThisChunk <= Total - srcOffset
    <3>1. CallerChunk \in Nat
      BY <1>1, CallFacts
    <3> QED BY <2>2, <2>3, <3>1 DEF ThisChunk, Reference!Lowest
  <2>5. Total <= Prepared * Section /\ Prepared * Section \in Nat
    <3>1. UnitsBefore(JobCount) = Total /\ UnitsBefore(JobCount) <= JobCount * Section
          /\ JobCount * Section \in Nat
      BY <1>1, JobSections
    <3> QED BY <2>1, <3>1
  <2>6. inBuff.filled = 0 /\ inPos = ThisChunk /\ srcOffset + ThisChunk = Total
    BY <2>2, <2>3, <2>4, <2>5
  <2>7. EndFrame
    BY <2>2, <2>4, <2>6 DEF EndFrame, LastChunk, InputLeft
  <2> QED BY <2>3, <2>6, <2>7
<1>5. k = JobCount - 1 => k = Prepared - 1
  BY <1>2
<1> QED BY <1>1, <1>3, <1>4, <1>5 DEF Described

(* A block is compressed as the frame has it.                              *)
LEMMA BlockRight ==
  ASSUME IInv, Right, NEW w \in Workers, wpc[w] = "compress",
         NEW c \in Nat, c > 0, c <= JobOf(w).src.size
  PROVE  Compressed(w, c) = Reference!Block(call, running[w], c)
<1> DEFINE k == running[w]
           job == JobOf(w)
           start == k * Section
<1>1. Working(w)
  BY DEF Working
<1>2. /\ k \in Live /\ k \in Nat /\ job = JobAt(k) /\ job \in Descriptions /\ Sized(job)
      /\ ~Ended /\ ~Completed(job) /\ Described(k)
  BY <1>1, InHand
<1>3. call \in Calls /\ FrameTypes /\ MainTypes
  BY MainTypesNow
<1>4. Prepared \in Nat /\ k < Prepared /\ Prepared <= JobCount /\ JobCount \in Nat
  <2>1. JobCount \in Nat
    BY <1>3, JobSections
  <2> QED BY <1>2, <1>3, <2>1, PreparedJobs DEF FrameTypes
<1>5. /\ start \in Nat /\ JobUnits(k) \in 1..Section /\ Section \in Nat
      /\ Reference!JobStart(call, k) = start + 1
      /\ start + JobUnits(k) = Total <=> k = JobCount - 1
      /\ Total \in Nat
  <2>1. Section \in Nat /\ Total \in Nat
    BY <1>3, CallFacts
  <2>2. k \in Nat /\ k < JobCount
    BY <1>2, <1>4
  <2> HIDE DEF k
  <2> QED BY <1>3, <2>1, <2>2, JobSections
<1>6. job.src.size = JobUnits(k) /\ wseq[w] = Reference!LdmMatches(call, k)
  BY <1>1, <1>2 DEF Right, SourcesInv, InWork
<1>7. Holds(job.src, start) /\ Holds(job.prefix, start - job.prefix.size)
  BY <1>2 DEF Right, ContentsInv, Unfinished
<1>8. job.prefix.size = (IF k = 0 THEN 0 ELSE Overlap) /\ job.id = k /\ Overlap \in Nat
      /\ job.prefix.size \in Nat
  <2>1. Overlap \in Nat
    BY <1>3, CallFacts
  <2> QED BY <1>2, <2>1 DEF Described
<1>9. Contents(roundBuff, Span(job.src.start, c)) = Reference!Units(start + 1, start + c)
  <2>1. job.src.size \in Nat /\ c <= job.src.size /\ start \in Int
    BY <1>5, <1>6
  <2> HIDE DEF start, job
  <2> QED BY <1>5, <1>7, <2>1, ContentsUnits
<1>10. Contents(roundBuff, job.prefix) =
         IF k = 0 THEN <<>> ELSE Reference!Units(start + 1 - Overlap, start)
  <2> DEFINE n == job.prefix.size
             b == start - n
  <2>1. n \in Nat /\ b \in Int
    BY <1>5, <1>8
  <2>2. Contents(roundBuff, job.prefix) = Reference!Units(b + 1, b + n)
    <3> HIDE DEF start, b
    <3>1. Holds(job.prefix, b)
      BY <1>7 DEF b
    <3> DEFINE r == job.prefix
    <3>2. r.size = n /\ n <= r.size /\ Holds(r, b)
      BY <2>1, <3>1
    <3> HIDE DEF r, n
    <3>3. Contents(roundBuff, r) = Reference!Units(b + 1, b + n)
      BY <2>1, <3>2, ContentsUnits
    <3> QED BY <3>3 DEF r
  <2>3. CASE k = 0
    <3>1. n = 0
      BY <1>8, <2>3
    <3> QED BY <2>3, <3>1 DEF Contents
  <2>4. CASE k # 0
    <3>1. n = Overlap
      BY <1>8, <2>4
    <3>2. b + 1 = start + (1 - Overlap) /\ b + n = start
      <4> HIDE DEF start
      <4> QED BY <1>5, <1>8, <3>1
    <3> QED BY <2>2, <2>4, <3>2
  <2> QED BY <2>3, <2>4
<1>11. job.last /\ c = job.src.size <=> k = JobCount - 1 /\ start + c = Total
  <2>1. job.last <=> k = JobCount - 1
    BY <1>2, LastOfAll
  <2> HIDE DEF start
  <2>2. k = JobCount - 1 => (start + c = Total <=> c = job.src.size)
    BY <1>5, <1>6
  <2> QED BY <2>1, <2>2
<1>12. Reference!JobCount(call) = JobCount
  BY DEF JobCount
<1>13. /\ Reference!JobStart(call, k) + c - 1 = start + c
       /\ Reference!JobStart(call, k) - 1 = start
       /\ Reference!JobStart(call, k) - call.overlap = start + 1 - Overlap
  <2> HIDE DEF start
  <2>1. call.overlap = Overlap
    BY DEF Overlap
  <2> QED BY <1>5, <1>8, <2>1
<1>14. Reference!JobStart(call, k) + c - 1 = call.total <=> start + c = Total
  BY <1>13 DEF Total
<1> DEFINE block == Reference!Block(call, k, c)
           made == Compressed(w, c)
<1>15. block = [first |-> k = 0,
                last |-> k = JobCount - 1 /\ start + c = Total,
                prefix |-> IF k = 0 THEN <<>>
                           ELSE Reference!Units(start + 1 - Overlap, start),
                src |-> Reference!Units(start + 1, start + c),
                ldm |-> Reference!LdmMatches(call, k)]
  <2> HIDE DEF start
  <2> QED BY <1>5, <1>12, <1>13, <1>14 DEF Reference!Block
<1>16. made = [first |-> k = 0, last |-> job.last /\ c = job.src.size,
               prefix |-> Contents(roundBuff, job.prefix),
               src |-> Contents(roundBuff, Span(job.src.start, c)),
               ldm |-> wseq[w]]
  BY <1>8 DEF Compressed
<1> HIDE DEF made, block, start
<1>17. made = block
  BY <1>6, <1>9, <1>10, <1>11, <1>15, <1>16
<1> QED BY <1>17 DEF made, block

(* The blocks when one job gets some.                                      *)
LEMMA BlocksGrow ==
  ASSUME BlocksInv, UNCHANGED mainVars, NEW j \in Live,
         \A k \in Live : /\ JobAt(k)'.flushed = JobAt(k).flushed
                         /\ k # j => /\ JobAt(k)'.blocks = JobAt(k).blocks
                                     /\ JobAt(k)'.consumed = JobAt(k).consumed,
         Len(JobAt(j)'.blocks) = JobAt(j)'.consumed,
         \A c \in 1..JobAt(j)'.consumed : JobAt(j)'.blocks[c] = Reference!Block(call, j, c)
  PROVE  BlocksInv'
<1>1. call' = call /\ doneJobID' = doneJobID /\ Live' = Live
  BY MainStateKept
<1> QED BY <1>1 DEF BlocksInv

(* A piece of the source is compressed.                                    *)
LEMMA CompressPieceKeeps ==
  ASSUME IInv, OInv, NEW w \in Workers, CompressPiece(w)
  PROVE  OInv'
<1> DEFINE old == JobOf(w)
           c == old.consumed + 1
           block == Compressed(w, c)
<1>1. /\ UNCHANGED mainVars /\ UNCHANGED serialVars /\ serialNext' = serialNext
      /\ wpc' = wpc /\ wseq' = wseq /\ wlast' = wlast /\ failures' = failures
      /\ running' = running /\ queue' = queue
      /\ wpc[w] = "compress" /\ ~LastPiece(w)
      /\ jobs' = [jobs EXCEPT ![SlotOf(w)].consumed = c,
                              ![SlotOf(w)].blocks = Append(@, block)]
  BY DEF CompressPiece, serialVars, poolVars, workerVars
<1>2. call' = call /\ Working(w) /\ JobTypes /\ FrameTypes
  BY <1>1, MainTypesNow, MainStateKept DEF Working
<1>3. /\ running[w] \in Live /\ old = JobAt(running[w]) /\ old \in Descriptions /\ Sized(old)
      /\ SlotOf(w) = Slot(running[w]) /\ SlotOf(w) \in TableSlots /\ ~Completed(old) /\ ~Ended
  BY <1>2, InHand
<1>4. /\ c \in Nat /\ c < old.src.size /\ c > 0 /\ old.consumed \in Nat
      /\ old.blocks \in Seq(Blocks) /\ old.src.size \in Nat
  BY <1>1, <1>3 DEF Descriptions, Sized, Completed, LastPiece, Pieces
<1> HIDE DEF block
<1>5. \A s \in TableSlots :
        /\ jobs'[s].src = jobs[s].src /\ jobs'[s].prefix = jobs[s].prefix
        /\ jobs'[s].id = jobs[s].id /\ jobs'[s].last = jobs[s].last
        /\ jobs'[s].flushed = jobs[s].flushed /\ jobs'[s].error = jobs[s].error
        /\ s # SlotOf(w) => jobs'[s] = jobs[s]
        /\ s = SlotOf(w) => /\ jobs'[s].consumed = c
                            /\ jobs'[s].blocks = Append(old.blocks, block)
  BY <1>1, <1>2, <1>3 DEF JobTypes, Descriptions, JobOf
<1>6. \A k \in Live :
        /\ JobAt(k)'.src = JobAt(k).src /\ JobAt(k)'.prefix = JobAt(k).prefix
        /\ JobAt(k)'.id = JobAt(k).id /\ JobAt(k)'.last = JobAt(k).last
        /\ JobAt(k)'.flushed = JobAt(k).flushed
        /\ k # running[w] => JobAt(k)' = JobAt(k)
        /\ k = running[w] => /\ JobAt(k)'.consumed = c
                             /\ JobAt(k)'.blocks = Append(old.blocks, block)
  <2>1. \A k \in Live : Slot(k) \in TableSlots /\ (k # running[w] => Slot(k) # SlotOf(w))
    BY <1>3, LiveSlots, MainTypesNow
  <2>2. \A k : JobAt(k)' = jobs'[Slot(k)]
    BY <1>2, CallKept DEF JobAt
  <2> QED BY <1>3, <1>5, <2>1, <2>2 DEF JobAt
<1>7. JobsAdvance /\ \A k \in Live : Completed(JobAt(k))' => Completed(JobAt(k))
  BY <1>3, <1>4, <1>6 DEF JobsAdvance, Completed
<1>8. Pool!Queued' \subseteq Pool!Queued
  BY <1>1 DEF Pool!Queued
<1>9. ASSUME Right
      PROVE  InTurn' /\ BlocksInv' /\ InWork'
  <2>1. InTurn'
    BY <1>1, <1>2, <1>7, <1>8, <1>9, TurnsKept DEF Right, InTurn, BeforeTurn, Working
  <2>2. InWork'
    BY <1>1, <1>2, <1>9, WorkKept DEF Right, InWork
  <2>3. block = Reference!Block(call, running[w], c)
    BY <1>1, <1>4, <1>9, BlockRight DEF block
  <2>4. /\ Len(old.blocks) = old.consumed
        /\ \A i \in 1..old.consumed : old.blocks[i] = Reference!Block(call, running[w], i)
    BY <1>3, <1>9 DEF Right, BlocksInv
  <2> DEFINE n == old.consumed
             s == old.blocks
             t == Append(s, block)
  <2>5. block \in Blocks
    BY <1>2, <1>4, CompressedBlock DEF block
  <2>6. n \in Nat /\ s \in Seq(Blocks) /\ Len(s) = n /\ c = n + 1
    BY <1>4, <2>4
  <2>7. Len(t) = n + 1 /\ \A i \in 1 .. n + 1 : t[i] = IF i <= n THEN s[i] ELSE block
    <3> HIDE DEF n, s
    <3> QED BY <2>5, <2>6, AppendProperties
  <2>8. Len(t) = c /\ \A i \in 1..c : t[i] = Reference!Block(call, running[w], i)
    <3> HIDE DEF t, block
    <3> QED BY <2>3, <2>4, <2>6, <2>7
  <2>9. BlocksInv'
    <3> HIDE DEF t, c
    <3>1. /\ Len(JobAt(running[w])'.blocks) = JobAt(running[w])'.consumed
          /\ \A i \in 1..JobAt(running[w])'.consumed :
               JobAt(running[w])'.blocks[i] = Reference!Block(call, running[w], i)
      BY <1>1, <1>3, <1>6, <2>8 DEF t
    <3> QED BY <1>1, <1>3, <1>6, <1>9, <3>1, BlocksGrow DEF Right
  <2> QED BY <2>1, <2>2, <2>9
<1> QED BY <1>1, <1>5, <1>6, <1>7, <1>9, WorkerStep

(* The last piece of the source is compressed.                             *)
LEMMA CompressLastRight ==
  ASSUME IInv, OInv, NEW w \in Workers, CompressLast(w)
  PROVE  OInv'
<1> DEFINE block == Compressed(w, JobOf(w).src.size)
<1>1. /\ UNCHANGED mainVars /\ jobs' = jobs /\ UNCHANGED serialVars
      /\ serialNext' = serialNext
      /\ queue' = queue /\ running' = running /\ wseq' = wseq /\ failures' = failures
      /\ wlast' = [wlast EXCEPT ![w] = <<block>>]
      /\ wpc[w] = "compress" /\ wpc' = [wpc EXCEPT ![w] = "ensure"]
  BY DEF CompressLast, serialVars, poolVars
<1> HIDE DEF block
<1>2. WorkerTypes /\ call' = call /\ Working(w)
  BY <1>1, MainTypesNow, MainStateKept DEF Working
<1>3. JobsAdvance /\ (\A k \in Live : JobAt(k)' = JobAt(k)
                                       /\ (Completed(JobAt(k))' => Completed(JobAt(k))))
      /\ \A s \in TableSlots : jobs'[s].error = jobs[s].error
  BY <1>1, NothingWritten
<1>4. /\ wlast'[w] = <<block>> /\ wpc'[w] = "ensure"
      /\ \A v \in Workers : v # w => /\ wpc'[v] = wpc[v] /\ running'[v] = running[v]
                                     /\ wseq'[v] = wseq[v] /\ wlast'[v] = wlast[v]
      /\ Pool!Queued' \subseteq Pool!Queued
  BY <1>1, <1>2 DEF WorkerTypes, Pool!Queued
<1>5. ASSUME Right
      PROVE  InTurn' /\ BlocksInv' /\ InWork'
  <2>1. ~(serialNext <= running[w])
    BY <1>1, <1>2, <1>5 DEF Right, InTurn, BeforeTurn
  <2>2. InTurn'
    BY <1>1, <1>3, <1>4, <1>5, <2>1, TurnsKept DEF Right, BeforeTurn
  <2>3. BlocksInv'
    BY <1>1, <1>3, <1>5, BlocksKept DEF Right
  <2>4. JobOf(w).src.size \in Nat /\ JobOf(w).src.size > 0
        /\ JobOf(w).src.size = JobUnits(running[w])
    <3>1. running[w] \in Live /\ JobOf(w) = JobAt(running[w]) /\ Described(running[w])
          /\ JobOf(w) \in Descriptions
      BY <1>2, InHand
    <3> QED BY <1>5, <3>1 DEF Right, SourcesInv, Described, Descriptions, Pieces
  <2>5. block = Reference!Block(call, running[w], JobUnits(running[w]))
    <3> DEFINE n == JobOf(w).src.size
    <3>1. n \in Nat /\ n > 0 /\ n <= n
      BY <2>4
    <3>2. Compressed(w, n) = Reference!Block(call, running[w], n)
      <4> HIDE DEF n
      <4>1. n <= JobOf(w).src.size
        BY <3>1 DEF n
      <4> QED BY <1>1, <1>5, <3>1, <4>1, BlockRight
    <3> QED BY <2>4, <3>2 DEF block
  <2>6. InWork'
    BY <1>1, <1>2, <1>4, <1>5, <2>5, WorkKept DEF Right
  <2> QED BY <2>2, <2>3, <2>6
<1> QED BY <1>1, <1>3, <1>5, WorkerStep

(* A job is reported completed with its last block.                        *)
LEMMA ReportKeeps ==
  ASSUME IInv, OInv, NEW w \in Workers, Report(w)
  PROVE  OInv'
<1> DEFINE old == JobOf(w)
           c == old.src.size
           last == wlast[w]
           all == old.blocks \o last
<1>1. /\ UNCHANGED mainVars /\ UNCHANGED serialVars /\ serialNext' = serialNext
      /\ wseq' = wseq /\ wlast' = [wlast EXCEPT ![w] = <<>>] /\ failures' = failures
      /\ running' = running /\ queue' = queue
      /\ wpc[w] = "report" /\ wpc' = [wpc EXCEPT ![w] = "end"]
      /\ jobs' = [jobs EXCEPT ![SlotOf(w)].consumed = c,
                              ![SlotOf(w)].blocks = all]
  <2>1. [jobs EXCEPT ![SlotOf(w)].consumed = c, ![SlotOf(w)].blocks = @ \o last]
          = [jobs EXCEPT ![SlotOf(w)].consumed = c, ![SlotOf(w)].blocks = all]
    BY DEF JobOf
  <2> QED BY <2>1 DEF Report, serialVars, poolVars
<1> HIDE DEF all
<1>2. call' = call /\ Working(w) /\ JobTypes /\ FrameTypes /\ WorkerTypes /\ WorkerPlace(w)
  BY <1>1, MainTypesNow, MainStateKept DEF Working, WorkersInv
<1>3. /\ running[w] \in Live /\ old = JobAt(running[w]) /\ old \in Descriptions /\ Sized(old)
      /\ SlotOf(w) = Slot(running[w]) /\ SlotOf(w) \in TableSlots /\ ~Completed(old) /\ ~Ended
      /\ WorkerJob(w)
  BY <1>2, InHand
<1>4. /\ c \in Nat /\ old.consumed \in Nat /\ old.blocks \in Seq(Blocks) /\ last \in Seq(Blocks)
  BY <1>2, <1>3 DEF Descriptions, Pieces, WorkerTypes
<1>5. \A s \in TableSlots :
        /\ jobs'[s].src = jobs[s].src /\ jobs'[s].prefix = jobs[s].prefix
        /\ jobs'[s].id = jobs[s].id /\ jobs'[s].last = jobs[s].last
        /\ jobs'[s].flushed = jobs[s].flushed /\ jobs'[s].error = jobs[s].error
        /\ s # SlotOf(w) => jobs'[s] = jobs[s]
        /\ s = SlotOf(w) => /\ jobs'[s].consumed = c
                            /\ jobs'[s].blocks = all
  BY <1>1, <1>2, <1>3 DEF JobTypes, Descriptions, JobOf
<1>6. \A k \in Live :
        /\ JobAt(k)'.src = JobAt(k).src /\ JobAt(k)'.prefix = JobAt(k).prefix
        /\ JobAt(k)'.id = JobAt(k).id /\ JobAt(k)'.last = JobAt(k).last
        /\ JobAt(k)'.flushed = JobAt(k).flushed
        /\ k # running[w] => JobAt(k)' = JobAt(k)
        /\ k = running[w] => /\ JobAt(k)'.consumed = c
                             /\ JobAt(k)'.blocks = all
  <2>1. \A k \in Live : Slot(k) \in TableSlots /\ (k # running[w] => Slot(k) # SlotOf(w))
    BY <1>3, LiveSlots, MainTypesNow
  <2>2. \A k : JobAt(k)' = jobs'[Slot(k)]
    BY <1>2, CallKept DEF JobAt
  <2> QED BY <1>3, <1>5, <2>1, <2>2 DEF JobAt
<1>7. JobsAdvance
  BY <1>3, <1>6 DEF JobsAdvance, Completed
<1>8. /\ wpc'[w] = "end" /\ Pool!Queued' \subseteq Pool!Queued
      /\ \A v \in Workers : v # w => /\ wpc'[v] = wpc[v] /\ running'[v] = running[v]
                                     /\ wseq'[v] = wseq[v] /\ wlast'[v] = wlast[v]
  BY <1>1, <1>2 DEF WorkerTypes, Pool!Queued
<1>9. ASSUME Right, failures = 0
      PROVE  InTurn' /\ BlocksInv' /\ InWork'
  <2>1. running[w] < serialNext
    <3>1. ~(serialNext <= running[w])
      BY <1>1, <1>2, <1>9 DEF Right, InTurn, BeforeTurn
    <3>2. running[w] \in Nat /\ serialNext \in Nat
      BY <1>2, InHand, MainTypesNow DEF TurnsInv
    <3> QED BY <3>1, <3>2
  <2>2. InTurn'
    <3>1. \A k \in Live : Completed(JobAt(k))' => Completed(JobAt(k)) \/ k < serialNext
      BY <1>6, <2>1 DEF Completed
    <3>2. ~Working(w)'
      BY <1>8 DEF Working
    <3> QED BY <1>1, <1>8, <1>9, <3>1, <3>2, TurnsKept DEF Right
  <2>3. InWork'
    BY <1>2, <1>8, <1>9, WorkKept DEF Right, Working
  <2>4. /\ Len(old.blocks) = old.consumed
        /\ \A i \in 1..old.consumed : old.blocks[i] = Reference!Block(call, running[w], i)
    BY <1>3, <1>9 DEF Right, BlocksInv
  <2>5. ~old.error
    BY <1>3, <1>9 DEF OInv, ErrorsInv, JobOf
  <2>6. last # <<>> /\ Len(last) = 1 /\ old.consumed + 1 = c
    BY <1>1, <1>2, <1>3, <2>5 DEF WorkerJob, WorkerPlace
  <2>7. last = <<Reference!Block(call, running[w], c)>>
    <3>1. last = <<Reference!Block(call, running[w], JobUnits(running[w]))>>
      BY <1>2, <1>9, <2>6 DEF Right, InWork
    <3>2. JobUnits(running[w]) = c
      BY <1>3, <1>9 DEF Right, SourcesInv
    <3> QED BY <3>1, <3>2
  <2> DEFINE n == old.consumed
             s == old.blocks
             t == all
  <2>8. n \in Nat /\ s \in Seq(Blocks) /\ Len(s) = n /\ c = n + 1
        /\ last \in Seq(Blocks) /\ Len(last) = 1
    BY <1>4, <2>4, <2>6
  <2>9. Len(t) = n + 1 /\ \A i \in 1 .. n + 1 : t[i] = IF i <= n THEN s[i] ELSE last[1]
    <3>1. t = s \o last
      BY DEF all
    <3> HIDE DEF t, n, s, last
    <3> QED BY <2>8, <3>1, Lengthened
  <2> HIDE DEF t
  <2>10. Len(t) = c /\ \A i \in 1..c : t[i] = Reference!Block(call, running[w], i)
    <3>1. last[1] = Reference!Block(call, running[w], c)
      BY <2>7
    <3> HIDE DEF t
    <3> QED BY <2>4, <2>8, <2>9, <3>1
  <2>11. BlocksInv'
    <3> HIDE DEF t, c
    <3>1. /\ Len(JobAt(running[w])'.blocks) = JobAt(running[w])'.consumed
          /\ \A i \in 1..JobAt(running[w])'.consumed :
               JobAt(running[w])'.blocks[i] = Reference!Block(call, running[w], i)
      BY <1>1, <1>3, <1>6, <2>10 DEF t
    <3> QED BY <1>1, <1>3, <1>6, <1>9, <3>1, BlocksGrow DEF Right
  <2> QED BY <2>2, <2>3, <2>11
<1> QED BY <1>1, <1>5, <1>6, <1>7, <1>9, WorkerStep

-----------------------------------------------------------------------------
(* The window of long distance matching.                                   *)

(* Window x holds the last units up to unit s.                             *)
Recent(x, s) ==
  /\ Holds(x.pre, s - x.pre.size)
  /\ Holds(x.ext, s - x.pre.size - x.ext.size)
  /\ x.ext.size > 0 => x.pre.start = Overlap

(* Range r is clear of window x.                                           *)
Clear(r, x) == ~isOverlapped(r, x.ext) /\ ~isOverlapped(r, x.pre)

(* The numbers in a window.                                                *)
LEMMA WindowSizes ==
  ASSUME NEW x, Window(x)
  PROVE  /\ x.ext.start \in Nat /\ x.ext.size \in Nat
         /\ x.pre.start \in Nat /\ x.pre.size \in Nat
         /\ Ends(x.ext) = x.ext.start + x.ext.size
         /\ Ends(x.pre) = x.pre.start + x.pre.size
         /\ x.ext = Span(x.ext.start, x.ext.size) /\ x.pre = Span(x.pre.start, x.pre.size)
<1>1. x.ext \in Pieces /\ x.pre \in Pieces
  BY DEF Window, Within
<1> QED BY <1>1 DEF Pieces, Ends, Span

(* What is left of a range without its first part.                         *)
LEMMA HoldsRest ==
  ASSUME NEW start \in Nat, NEW size \in Nat, NEW b \in Int, NEW d \in Nat, d <= size,
         Holds(Span(start, size), b)
  PROVE  Holds(Span(start + d, size - d), b + d)
<1>1. \A i \in 0 .. size - 1 : roundBuff[start + i] = b + i + 1
  BY DEF Holds, Span
<1> SUFFICES ASSUME NEW i \in 0 .. (size - d) - 1
             PROVE  roundBuff[start + d + i] = b + d + i + 1
  BY DEF Holds, Span
<1>2. d + i \in 0 .. size - 1 /\ start + (d + i) = start + d + i /\ b + (d + i) + 1 = b + d + i + 1
  OBVIOUS
<1> QED BY <1>1, <1>2

(* Two ranges one after the other.                                         *)
LEMMA HoldsBoth ==
  ASSUME NEW start \in Nat, NEW m \in Nat, NEW n \in Nat, NEW b \in Int,
         Holds(Span(start, m), b), Holds(Span(start + m, n), b + m)
  PROVE  Holds(Span(start, m + n), b)
<1>1. \A i \in 0 .. m - 1 : roundBuff[start + i] = b + i + 1
  BY DEF Holds, Span
<1>2. \A i \in 0 .. n - 1 : roundBuff[start + m + i] = b + m + i + 1
  BY DEF Holds, Span
<1> SUFFICES ASSUME NEW i \in 0 .. (m + n) - 1
             PROVE  roundBuff[start + i] = b + i + 1
  BY DEF Holds, Span
<1>3. CASE i < m
  BY <1>1, <1>3
<1>4. CASE ~(i < m)
  <2>1. i - m \in 0 .. n - 1 /\ start + m + (i - m) = start + i
        /\ b + m + (i - m) + 1 = b + i + 1
    BY <1>4
  <2> QED BY <1>2, <2>1
<1> QED BY <1>3, <1>4

(* The sequence u is s and then t.                                         *)
Joins(s, t, u) == s \o t = u

(* Units that follow others continue their sequence.                       *)
LEMMA UnitsJoined ==
  ASSUME NEW a \in Int, NEW m \in Nat, NEW n \in Nat
  PROVE  Joins(Reference!Units(a + 1, a + m), Reference!Units(a + m + 1, a + m + n),
               Reference!Units(a + 1, a + m + n))
<1> DEFINE s == [i \in 1..m |-> a + i]
           t == [i \in 1..n |-> a + m + i]
           u == [i \in 1 .. m + n |-> a + i]
<1>1. ASSUME NEW b \in Int, NEW p \in Nat
      PROVE  Reference!Units(b + 1, b + p) = [i \in 1..p |-> b + i]
  <2>1. Reference!Highest(b + p + 1, b + 1) - (b + 1) = p
    BY DEF Reference!Highest
  <2>2. \A i \in 1..p : b + 1 + (i - 1) = b + i
    OBVIOUS
  <2> QED BY <2>1, <2>2 DEF Reference!Units
<1>2. Reference!Units(a + 1, a + m) = s
  BY <1>1
<1>3. Reference!Units(a + m + 1, a + m + n) = t
  <2> DEFINE b == a + m
  <2>1. b \in Int
    OBVIOUS
  <2> HIDE DEF b
  <2>2. Reference!Units(b + 1, b + n) = [i \in 1..n |-> b + i]
    BY <1>1, <2>1
  <2> QED BY <2>2 DEF b
<1>4. Reference!Units(a + 1, a + m + n) = u
  <2> DEFINE p == m + n
  <2>1. p \in Nat /\ a + m + n = a + p
    OBVIOUS
  <2> HIDE DEF p
  <2>2. Reference!Units(a + 1, a + p) = [i \in 1..p |-> a + i]
    BY <1>1, <2>1
  <2> QED BY <2>1, <2>2 DEF p
<1>5. s \o t = [i \in 1 .. m + n |-> IF i <= m THEN s[i] ELSE t[i - m]]
  <2>1. s = [i \in 1..m |-> s[i]] /\ t = [i \in 1..n |-> t[i]]
    OBVIOUS
  <2> HIDE DEF s, t
  <2> QED BY <2>1, Joined
<1>6. \A i \in 1 .. m + n : (IF i <= m THEN s[i] ELSE t[i - m]) = a + i
  <2> SUFFICES ASSUME NEW i \in 1 .. m + n
               PROVE  (IF i <= m THEN s[i] ELSE t[i - m]) = a + i
    OBVIOUS
  <2>1. CASE i <= m
    BY <2>1
  <2>2. CASE ~(i <= m)
    <3>1. i - m \in 1..n /\ a + m + (i - m) = a + i
      BY <2>2
    <3> QED BY <2>2, <3>1
  <2> QED BY <2>1, <2>2
<1> HIDE DEF s, t
<1>7. s \o t = u
  BY <1>5, <1>6
<1> QED BY <1>2, <1>3, <1>4, <1>7 DEF Joins

(* What is seen through the window are its units.                          *)
LEMMA SeenUnits ==
  ASSUME NEW x, Window(x), NEW s \in Nat, NEW t \in Nat, NEW after \in Nat,
         after <= x.pre.size, x.ext.size + x.pre.size = t + after, t <= s,
         Recent(x, s + after)
  PROVE  SeenAt(x, after) = Reference!Units(s - t + 1, s)
<1> DEFINE e == x.ext.size
           p == x.pre.size - after
           a == s - t
           r == [x.pre EXCEPT !.size = @ - after]
<1>1. /\ x.ext.start \in Nat /\ e \in Nat /\ x.pre.start \in Nat /\ x.pre.size \in Nat
      /\ x.pre = Span(x.pre.start, x.pre.size)
  BY WindowSizes
<1>2. p \in Nat /\ e + p = t /\ a \in Nat
  BY <1>1
<1>3. r = Span(x.pre.start, p)
  BY <1>1 DEF Span
<1>4. Contents(roundBuff, x.ext) = Reference!Units(a + 1, a + e)
  <2>1. Holds(x.ext, a)
    <3>1. (s + after) - x.pre.size - x.ext.size = a
      <4> DEFINE q == x.pre.size
      <4>1. q \in Nat /\ e \in Nat /\ e + (q - after) = t
        BY <1>1, <1>2
      <4> HIDE DEF q, e
      <4>2. ((s + after) - q) - e = s - t
        BY <4>1
      <4> QED BY <4>2 DEF q, e
    <3> QED BY <3>1 DEF Recent
  <2>2. a \in Int /\ e <= e
    BY <1>1, <1>2
  <2> HIDE DEF a
  <2> QED BY <1>1, <2>1, <2>2, ContentsUnits
<1>5. Contents(roundBuff, r) = Reference!Units(a + e + 1, a + e + p)
  <2> DEFINE b == a + e
  <2>1. Holds(x.pre, b)
    <3>1. (s + after) - x.pre.size = b
      BY <1>1, <1>2
    <3> QED BY <3>1 DEF Recent
  <2>2. b \in Int /\ p <= x.pre.size
    BY <1>1, <1>2
  <2> HIDE DEF b, p
  <2>3. Contents(roundBuff, Span(x.pre.start, p)) = Reference!Units(b + 1, b + p)
    BY <1>1, <1>2, <2>1, <2>2, ContentsUnits
  <2> QED BY <1>3, <2>3 DEF b
<1>6. a + e + p = s /\ a \in Int
  BY <1>1, <1>2
<1> HIDE DEF a, e, p, r
<1>7. Joins(Contents(roundBuff, x.ext), Contents(roundBuff, r),
            Reference!Units(a + 1, a + e + p))
  <2>1. Joins(Reference!Units(a + 1, a + e), Reference!Units(a + e + 1, a + e + p),
              Reference!Units(a + 1, a + e + p))
    BY <1>1, <1>2, <1>6, UnitsJoined
  <2> QED BY <1>4, <1>5, <2>1
<1> QED BY <1>6, <1>7 DEF SeenAt, Joins, a, r

(* Ranges that are clear of others.                                        *)
LEMMA PartsClear ==
  ASSUME NEW r, r.start \in Nat, r.size \in Nat,
         NEW start \in Nat, NEW size \in Nat, NEW d \in Nat, d <= size,
         ~isOverlapped(r, Span(start, size))
  PROVE  ~isOverlapped(r, Span(start + d, size - d))
BY DEF isOverlapped, Ends, Span

(* ZSTD_window_enforceMaxDist: the units beyond the window's size go, the  *)
(* oldest first.                                                           *)
LEMMA WindowTrimmed ==
  ASSUME MainTypes, NEW x, Window(x), NEW s \in Nat, NEW t \in Nat, NEW after \in Nat,
         after <= x.pre.size, x.ext.size + x.pre.size = t + after, t <= s,
         Recent(x, s + after)
  PROVE  LET y == Enforced(x, after)
         IN  /\ Window(y) /\ after <= y.pre.size /\ Recent(y, s + after)
             /\ y.ext.size + y.pre.size = Reference!Lowest(t, LdmWindow) + after
             /\ Ends(y.pre) = Ends(x.pre)
             /\ \A r : r.start \in Nat /\ r.size \in Nat /\ Clear(r, x) => Clear(r, y)
<1> DEFINE y == Enforced(x, after)
           l == LdmWindow
           e == x.ext.size
           p == x.pre.size
           es == x.ext.start
           ps == x.pre.start
           excess == Reference!Highest(0, e + p - after - l)
           d == Reference!Lowest(excess, e)
           f == excess - d
<1>1. /\ e \in Nat /\ p \in Nat /\ es \in Nat /\ ps \in Nat
      /\ x.ext = Span(es, e) /\ x.pre = Span(ps, p)
      /\ Ends(x.pre) = ps + p
  BY WindowSizes
<1>2. y = [ext |-> Span(es + d, e - d), pre |-> Span(ps + f, p - f)]
  BY DEF Enforced
<1>3. l \in Nat
  BY CallFacts DEF MainTypes
<1>4. e + p = t + after /\ after <= p
  OBVIOUS
<1>5. excess = IF t > l THEN t - l ELSE 0
  <2> HIDE DEF e, p, l
  <2> QED BY <1>1, <1>3, <1>4 DEF Reference!Highest
<1> HIDE DEF e, p, es, ps, l, excess
<1>6. excess \in Nat /\ excess <= t /\ t - excess = Reference!Lowest(t, l)
  BY <1>3, <1>5 DEF Reference!Lowest
<1>7. /\ d \in Nat /\ d <= e /\ f \in Nat /\ f <= p /\ after <= p - f
      /\ d + f = excess /\ (f > 0 => d = e)
  BY <1>1, <1>4, <1>6 DEF Reference!Lowest
<1> HIDE DEF d, f
<1>8. Window(y) /\ after <= y.pre.size
  BY WindowEnforced
<1>9. /\ y.ext = Span(es + d, e - d) /\ y.pre = Span(ps + f, p - f)
      /\ y.ext.size = e - d /\ y.pre.size = p - f /\ y.pre.start = ps + f
      /\ Ends(y.pre) = ps + p
  <2>1. /\ y.ext = Span(es + d, e - d) /\ y.pre = Span(ps + f, p - f)
    BY <1>2
  <2> HIDE DEF y
  <2>2. y.pre.start = ps + f /\ y.pre.size = p - f /\ y.ext.size = e - d
    BY <2>1 DEF Span
  <2> QED BY <1>1, <1>7, <2>1, <2>2 DEF Ends
<1> HIDE DEF y
<1>10. y.ext.size + y.pre.size = Reference!Lowest(t, l) + after
  <2> DEFINE low == Reference!Lowest(t, l)
  <2>1. t - excess = low
    BY <1>6
  <2> HIDE DEF low
  <2> QED BY <1>1, <1>4, <1>6, <1>7, <1>9, <2>1
<1>11. Recent(y, s + after)
  <2> DEFINE bp == (s + after) - p
             be == bp - e
  <2>1. Holds(Span(ps, p), bp) /\ Holds(Span(es, e), be) /\ (e > 0 => ps = Overlap)
    BY <1>1 DEF Recent, e, p, es, ps
  <2>2. bp \in Int /\ be \in Int
    BY <1>1
  <2> HIDE DEF bp, be
  <2>3. Holds(Span(ps + f, p - f), bp + f)
    BY <1>1, <1>7, <2>1, <2>2, HoldsRest
  <2>4. Holds(Span(es + d, e - d), be + d)
    BY <1>1, <1>7, <2>1, <2>2, HoldsRest
  <2>5. (s + after) - (p - f) = bp + f
    BY <1>1, <1>7 DEF bp
  <2>6. e - d > 0 => f = 0
    BY <1>1, <1>7
  <2>7. e - d > 0 => (s + after) - (p - f) - (e - d) = be + d
    BY <1>1, <1>7, <2>6 DEF bp, be
  <2>8. Holds(y.pre, (s + after) - y.pre.size)
    BY <1>9, <2>3, <2>5
  <2>9. Holds(y.ext, (s + after) - y.pre.size - y.ext.size)
    <3>1. CASE e - d > 0
      BY <1>9, <2>4, <2>7, <3>1
    <3>2. CASE ~(e - d > 0)
      <4>1. 0 .. y.ext.size - 1 = {}
        BY <1>1, <1>7, <1>9, <3>2
      <4> QED BY <4>1 DEF Holds
    <3> QED BY <3>1, <3>2
  <2>10. y.ext.size > 0 => y.pre.start = Overlap
    BY <1>1, <1>7, <1>9, <2>1, <2>6
  <2> QED BY <2>8, <2>9, <2>10 DEF Recent
<1>12. ASSUME NEW r, r.start \in Nat, r.size \in Nat, Clear(r, x)
       PROVE  Clear(r, y)
  <2>1. ~isOverlapped(r, Span(es, e)) /\ ~isOverlapped(r, Span(ps, p))
    BY <1>1, <1>12 DEF Clear
  <2>2. ~isOverlapped(r, Span(es + d, e - d))
    BY <1>1, <1>7, <1>12, <2>1, PartsClear
  <2>3. ~isOverlapped(r, Span(ps + f, p - f))
    BY <1>1, <1>7, <1>12, <2>1, PartsClear
  <2> QED BY <1>9, <2>2, <2>3 DEF Clear
<1>13. Ends(y.pre) = Ends(x.pre)
  BY <1>1, <1>9
<1> QED BY <1>8, <1>10, <1>11, <1>12, <1>13 DEF y, l

(* ZSTD_window_update: the window takes in what follows it, or starts anew *)
(* with it when main has turned round the buffer; it then has but one      *)
(* piece, as it is shorter than what precedes a turn.                      *)
LEMMA WindowGrows ==
  ASSUME MainTypes, NEW x, Window(x), NEW src, Within(src), NEW s \in Nat,
         x.ext.size + x.pre.size <= LdmWindow, Recent(x, s), src.size > 0, Holds(src, s),
         Clear(src, x), Follows(Ends(x.pre), src.start)
  PROVE  LET y == WindowWith(x, src)
         IN  /\ Window(y) /\ src.size <= y.pre.size /\ Recent(y, s + src.size)
             /\ y.ext.size + y.pre.size = x.ext.size + x.pre.size + src.size
             /\ Ends(y.pre) = Ends(src)
             /\ \A r : r.start \in Nat /\ r.size \in Nat /\ Clear(r, x) /\ ~isOverlapped(r, src)
                         => Clear(r, y)
<1> DEFINE y == WindowWith(x, src)
           e == x.ext.size
           p == x.pre.size
           es == x.ext.start
           ps == x.pre.start
           n == src.size
           ss == src.start
<1>1. /\ e \in Nat /\ p \in Nat /\ es \in Nat /\ ps \in Nat
      /\ x.ext = Span(es, e) /\ x.pre = Span(ps, p)
      /\ Ends(x.pre) = ps + p /\ Ends(x.ext) = es + e
  BY WindowSizes
<1>2. n \in Nat /\ n > 0 /\ ss \in Nat /\ src = Span(ss, n) /\ Ends(src) = ss + n
  BY DEF Within, Pieces, Span, Ends
<1>3. Window(y) /\ n <= y.pre.size
  BY WindowTakesIn
<1>4. ~isOverlapped(src, x.ext) /\ ~isOverlapped(src, x.pre)
  BY DEF Clear
<1>5. (e > 0 => ps = Overlap) /\ Holds(Span(ps, p), s - p) /\ Holds(Span(es, e), s - p - e)
      /\ Holds(Span(ss, n), s)
  BY <1>1, <1>2 DEF Recent
<1>6. CASE ss = ps + p
  <2>1. y = [ext |-> Span(es, (es + e) - es), pre |-> Span(ps, p + n)]
    BY <1>1, <1>4, <1>6 DEF WindowWith
  <2> HIDE DEF y
  <2>2. (es + e) - es = e
    BY <1>1
  <2>3. y.ext = Span(es, e) /\ y.pre = Span(ps, p + n)
    BY <2>1, <2>2
  <2>4. y.ext.size = e /\ y.pre.size = p + n /\ y.pre.start = ps
    BY <2>3 DEF Span
  <2> HIDE DEF e, p, es, ps, n, ss
  <2>5. Holds(Span(ps, p + n), s - p)
    <3> DEFINE b == s - p
    <3>1. b \in Int /\ b + p = s
      BY <1>1
    <3> HIDE DEF b
    <3>2. Holds(Span(ps, p), b) /\ Holds(Span(ps + p, n), b + p)
      BY <1>5, <1>6, <3>1 DEF b
    <3>3. Holds(Span(ps, p + n), b)
      BY <1>1, <1>2, <3>1, <3>2, HoldsBoth
    <3> QED BY <3>3 DEF b
  <2>6. Recent(y, s + n)
    <3>1. (s + n) - (p + n) = s - p
      BY <1>1, <1>2
    <3> QED BY <1>5, <2>3, <2>4, <2>5, <3>1 DEF Recent
  <2>7. y.ext.size + y.pre.size = e + p + n /\ Ends(y.pre) = ss + n
    BY <1>1, <1>2, <1>6, <2>4 DEF Ends
  <2>8. ASSUME NEW r, r.start \in Nat, r.size \in Nat, Clear(r, x), ~isOverlapped(r, src)
        PROVE  Clear(r, y)
    <3>1. ~isOverlapped(r, Span(es, e)) /\ ~isOverlapped(r, Span(ps, p))
          /\ ~isOverlapped(r, Span(ss, n))
      BY <1>1, <1>2, <2>8 DEF Clear
    <3>2. ~isOverlapped(r, Span(ps, p + n))
      BY <1>1, <1>2, <1>6, <2>8, <3>1 DEF isOverlapped, Ends, Span
    <3> QED BY <2>3, <3>1, <3>2 DEF Clear
  <2> QED BY <1>2, <1>3, <2>6, <2>7, <2>8 DEF y, e, p, n, ss
<1>7. CASE ss # ps + p
  <2>1. y = [ext |-> Span(ps, (ps + p) - ps), pre |-> src]
    BY <1>1, <1>4, <1>7 DEF WindowWith
  <2> HIDE DEF y
  <2>2. (ps + p) - ps = p
    BY <1>1
  <2>3. y.ext = Span(ps, p) /\ y.pre = src
    BY <2>1, <2>2
  <2>4. y.ext.size = p /\ y.pre.size = n /\ y.pre.start = ss
    BY <2>3 DEF Span
  <2>5. Capacity - (ps + p) < Section /\ ss = Overlap
    BY <1>1, <1>7 DEF Follows
  <2>6. e = 0
    <3> SUFFICES ASSUME e > 0
                 PROVE  FALSE
      BY <1>1
    <3> DEFINE z == Section * NbWorkers
    <3>1. /\ ps = Overlap /\ e + p <= LdmWindow /\ z \in Nat
          /\ LdmWindow \in Nat /\ Section \in Nat /\ Section > 0 /\ Overlap \in Nat
          /\ Overlap <= Section
      <4>1. NbWorkers \in Nat /\ Section \in Nat \ {0} /\ Overlap \in 0..Section
            /\ LdmWindow \in Nat
        BY CallFacts DEF MainTypes
      <4>2. z \in Nat
        <5>1. Section * NbWorkers = NbWorkers * Section
          BY <4>1
        <5> QED BY <4>1, <5>1, Products
      <4> QED BY <1>5, <4>1, <4>2
    <3>2. Capacity >= LdmWindow + Section * (IF Overlap > 0 THEN 3 ELSE 2)
      <4>1. Capacity = Reference!Highest(LdmWindow, z) + Section * (IF Overlap > 0 THEN 3 ELSE 2)
        <5>1. SlackBuffers = IF Overlap > 0 THEN 3 ELSE 2
          BY <3>1 DEF SlackBuffers
        <5> QED BY <5>1 DEF Capacity
      <4> HIDE DEF z
      <4>2. Reference!Highest(LdmWindow, z) \in Nat /\ Reference!Highest(LdmWindow, z) >= LdmWindow
        BY <3>1 DEF Reference!Highest
      <4>3. Section * 3 \in Nat /\ Section * 2 \in Nat
        BY <3>1
      <4> QED BY <3>1, <4>1, <4>2, <4>3
    <3> HIDE DEF z, e, p, ps, ss
    <3>3. Capacity \in Nat
      BY Sizes DEF MainTypes
    <3>4. Section * 3 = Section + Section + Section /\ Section * 2 = Section + Section
      BY <3>1
    <3> QED BY <1>1, <2>5, <3>1, <3>2, <3>3, <3>4
  <2> HIDE DEF e, p, es, ps, n, ss
  <2>7. Recent(y, s + n)
    <3>1. (s + n) - n = s /\ (s + n) - n - p = s - p
      BY <1>1, <1>2
    <3> QED BY <1>2, <1>5, <2>3, <2>4, <2>5, <3>1 DEF Recent
  <2>8. y.ext.size + y.pre.size = e + p + n /\ Ends(y.pre) = ss + n
    BY <1>1, <1>2, <2>3, <2>4, <2>6
  <2>9. ASSUME NEW r, r.start \in Nat, r.size \in Nat, Clear(r, x), ~isOverlapped(r, src)
        PROVE  Clear(r, y)
    BY <1>1, <2>3, <2>9 DEF Clear
  <2> QED BY <1>2, <1>3, <2>7, <2>8, <2>9 DEF y, e, p, n, ss
<1> QED BY <1>6, <1>7

(* The turn is that of the worker that takes it, whose job is unserved and *)
(* unfinished.                                                             *)
LEMMA TurnTaken ==
  ASSUME IInv, Right, NEW w \in Workers, wpc[w] = "serial", TurnReached(JobOf(w).id)
  PROVE  /\ Working(w) /\ serialNext = running[w] /\ JobOf(w).id = running[w]
         /\ running[w] \in Live /\ running[w] \in Nat /\ running[w] < nextJobID
         /\ running[w] \notin Pool!Queued
         /\ running[w] \in Unfinished /\ running[w] \in Unserved
         /\ running[w] < JobCount /\ JobOf(w) = JobAt(running[w])
<1>1. Working(w)
  BY DEF Working
<1>2. /\ running[w] \in Live /\ running[w] \in Nat /\ JobOf(w) = JobAt(running[w])
      /\ WorkerJob(w) /\ ~Completed(JobOf(w)) /\ Described(running[w])
  BY <1>1, InHand
<1>3. JobOf(w).id = running[w]
  BY <1>2 DEF Described
<1>4. serialNext \in Nat /\ FrameTypes /\ call \in Calls
  BY MainTypesNow DEF TurnsInv
<1>5. serialNext <= running[w] /\ serialNext >= running[w]
  BY <1>1, <1>3 DEF Right, InTurn, BeforeTurn, TurnReached
<1>6. serialNext = running[w]
  BY <1>2, <1>4, <1>5
<1>7. running[w] \in doneJobID .. nextJobID - 1 /\ running[w] \notin Pool!Queued
  BY <1>2 DEF WorkerJob
<1>8. running[w] < JobCount /\ running[w] < nextJobID
  <2>1. JobCount \in Nat
    BY <1>4, JobSections
  <2>2. Prepared \in Nat /\ running[w] < Prepared /\ Prepared <= JobCount
    BY <1>2, <1>4, PreparedJobs DEF FrameTypes
  <2> QED BY <1>2, <1>4, <1>7, <2>1, <2>2 DEF FrameTypes
<1>9. running[w] \in Unserved /\ running[w] \in Unfinished
  BY <1>2, <1>5 DEF Unserved, Unfinished
<1> QED BY <1>1, <1>2, <1>3, <1>6, <1>7, <1>8, <1>9

(* The window that takes in a job's source, and the matches found then.    *)
LEMMA SerialFinds ==
  ASSUME IInv, Right, LdmWindow > 0, NEW w \in Workers, wpc[w] = "serial",
         TurnReached(JobOf(w).id), SerialStep(w)
  PROVE  /\ wseq' = [wseq EXCEPT ![w] = Reference!LdmMatches(call, running[w])]
         /\ ldmState' = ldmWindow'
         /\ Recent(ldmWindow', UnitsBefore(running[w] + 1))
         /\ ldmWindow'.ext.size + ldmWindow'.pre.size
              = Reference!Lowest(UnitsBefore(running[w] + 1), LdmWindow)
         /\ Ends(ldmWindow'.pre) = Ends(JobOf(w).src)
         /\ \A r : r.start \in Nat /\ r.size \in Nat /\ LdmComplete(r)
                     /\ ~isOverlapped(r, JobOf(w).src) => Clear(r, ldmWindow')
<1> DEFINE k == running[w]
           src == JobOf(w).src
           n == src.size
           x == ldmWindow
           full == WindowWith(x, src)
           At(c) == Enforced(full, n - c)
           S == UnitsBefore(k)
           L == LdmWindow
           held == x.ext.size + x.pre.size
           low == Reference!Lowest(S, L)
<1>1. /\ k \in Live /\ k \in Nat /\ k < JobCount /\ serialNext = k /\ k \in Unfinished
      /\ k \in Unserved /\ JobOf(w) = JobAt(k) /\ k < Prepared
  <2>1. k < Prepared
    BY TurnTaken, PreparedJobs, MainTypesNow
  <2> QED BY <2>1, TurnTaken
<1>2. MainTypes /\ BufferTypes /\ call \in Calls /\ Window(ldmWindow)
  BY MainTypesNow DEF WindowTypes, Window
<1>3. WindowInv /\ ServingInv /\ SourcesInv /\ ContentsInv
  BY DEF Right
<1>4. /\ S \in Nat /\ S = k * Section /\ n = JobUnits(k) /\ n \in Nat /\ n > 0
      /\ UnitsBefore(k + 1) = S + n
      /\ Reference!JobStart(call, k) = S + 1 /\ Reference!JobEnd(call, k) = S + n
  <2>1. n = JobUnits(k)
    BY <1>1, <1>3 DEF SourcesInv
  <2>2. /\ k * Section \in Nat /\ UnitsBefore(k) = k * Section /\ JobUnits(k) \in 1..Section
        /\ UnitsBefore(k + 1) = k * Section + JobUnits(k)
        /\ Reference!JobStart(call, k) = k * Section + 1
        /\ Reference!JobEnd(call, k) = k * Section + JobUnits(k)
    <3>1. k \in Nat /\ k < JobCount
      BY <1>1
    <3> HIDE DEF k
    <3> QED BY <1>2, <3>1, JobSections
  <2>3. Section \in Nat
    BY <1>2, CallFacts
  <2> HIDE DEF k, n
  <2> QED BY <2>1, <2>2, <2>3
<1>5. L \in Nat /\ held = low /\ low <= S /\ low <= L /\ low \in Nat
  <2>1. L \in Nat
    BY <1>2, CallFacts
  <2>2. held = low
    BY <1>1, <1>3 DEF WindowInv, Served
  <2> HIDE DEF S, L, held
  <2> QED BY <1>4, <2>1, <2>2 DEF Reference!Lowest
<1>6. Within(src) /\ Holds(src, S) /\ Clear(src, x) /\ Follows(Ends(x.pre), src.start)
  <2>1. Within(src)
    BY <1>1, LiveSlots, MainTypesNow DEF Sized
  <2>2. Holds(src, S)
    BY <1>1, <1>3, <1>4 DEF ContentsInv
  <2>3. Clear(src, x)
    BY <1>1, <1>3 DEF ServingInv, LdmComplete, Clear
  <2>4. NextStart(k) = src.start
    BY <1>1 DEF NextStart
  <2>5. Follows(Ends(x.pre), src.start)
    BY <1>1, <1>3, <2>4 DEF ServingInv
  <2> QED BY <2>1, <2>2, <2>3, <2>5
<1>7. Recent(x, S)
  BY <1>1, <1>3 DEF WindowInv, Served, Recent
<1>8. /\ wseq' = [wseq EXCEPT ![w] = [c \in 1..n |-> SeenAt(At(c), n - c)]]
      /\ ldmState' = At(n) /\ ldmWindow' = At(n)
  BY <1>3 DEF SerialStep, WindowInv
<1> HIDE DEF src, x, S, L, held, low, k
<1>9. held = x.ext.size + x.pre.size
  BY DEF held
<1>10. /\ Window(full) /\ n <= full.pre.size /\ Recent(full, S + n)
       /\ full.ext.size + full.pre.size = x.ext.size + x.pre.size + n
       /\ Ends(full.pre) = Ends(src)
       /\ \A r : r.start \in Nat /\ r.size \in Nat /\ Clear(r, x) /\ ~isOverlapped(r, src)
                   => Clear(r, full)
  <2>1. Window(x)
    BY <1>2 DEF x
  <2>2. x.ext.size + x.pre.size <= LdmWindow
    BY <1>5, <1>9 DEF L
  <2> QED BY <1>2, <1>4, <1>6, <1>7, <2>1, <2>2, WindowGrows
<1> HIDE DEF full, n
<1>11. full.ext.size + full.pre.size = low + n /\ full.pre.size \in Nat
  <2>1. Window(x) /\ Window(full)
    BY <1>2, <1>10 DEF x
  <2>2. x.ext.size \in Nat /\ x.pre.size \in Nat /\ full.pre.size \in Nat
    BY <2>1, WindowSizes
  <2> QED BY <1>5, <1>9, <1>10, <2>2
<1>12. ASSUME NEW c \in 0..n
       PROVE  LET y == Enforced(full, n - c)
              IN  /\ Window(y) /\ n - c <= y.pre.size /\ Recent(y, (S + c) + (n - c))
                  /\ y.ext.size + y.pre.size
                       = Reference!Lowest(low + c, L) + (n - c)
                  /\ Ends(y.pre) = Ends(full.pre)
                  /\ \A r : r.start \in Nat /\ r.size \in Nat /\ Clear(r, full) => Clear(r, y)
  <2> DEFINE s == S + c
             t == low + c
             after == n - c
  <2>1. /\ s \in Nat /\ t \in Nat /\ after \in Nat /\ after <= full.pre.size
        /\ full.ext.size + full.pre.size = t + after /\ t <= s /\ s + after = S + n
    BY <1>4, <1>5, <1>10, <1>11
  <2> HIDE DEF s, t, after
  <2>2. Recent(full, s + after)
    BY <1>10, <2>1
  <2>3. LET y == Enforced(full, after)
        IN  /\ Window(y) /\ after <= y.pre.size /\ Recent(y, s + after)
            /\ y.ext.size + y.pre.size = Reference!Lowest(t, LdmWindow) + after
            /\ Ends(y.pre) = Ends(full.pre)
            /\ \A r : r.start \in Nat /\ r.size \in Nat /\ Clear(r, full) => Clear(r, y)
    BY <1>2, <1>10, <2>1, <2>2, WindowTrimmed
  <2> QED BY <2>3 DEF s, t, after, L
<1>13. ASSUME NEW c \in 0..n
       PROVE  /\ Reference!Lowest(low + c, L) = Reference!Lowest(S + c, L)
              /\ Reference!Lowest(low + c, L) \in Nat
              /\ Reference!Lowest(low + c, L) <= S + c
              /\ S + c - Reference!Lowest(low + c, L) + 1
                   = Reference!Highest(1, S + c - L + 1)
  <2>1. c \in Nat /\ low = IF S < L THEN S ELSE L
    BY <1>4 DEF low, Reference!Lowest
  <2>2. Reference!Lowest(low + c, L) = IF S + c < L THEN S + c ELSE L
    BY <1>4, <1>5, <2>1 DEF Reference!Lowest
  <2> QED BY <1>4, <1>5, <2>1, <2>2 DEF Reference!Lowest, Reference!Highest
<1>14. ASSUME NEW c \in 1..n
       PROVE  SeenAt(At(c), n - c) = Reference!Units(Reference!Highest(1, S + c - L + 1), S + c)
  <2> DEFINE y == Enforced(full, n - c)
             s == S + c
             after == n - c
             t == Reference!Lowest(low + c, L)
  <2>1. c \in 0..n
    BY <1>4
  <2>2. /\ Window(y) /\ after <= y.pre.size /\ Recent(y, s + after)
        /\ y.ext.size + y.pre.size = t + after
    BY <1>12, <2>1
  <2>3. /\ s \in Nat /\ t \in Nat /\ after \in Nat /\ t <= s
        /\ s - t + 1 = Reference!Highest(1, s - L + 1)
    <3>1. s \in Nat /\ after \in Nat
      BY <1>4, <2>1
    <3>2. /\ t \in Nat /\ t <= s
          /\ S + c - t + 1 = Reference!Highest(1, S + c - L + 1)
      BY <1>13, <2>1
    <3>3. S + c - t + 1 = s - t + 1 /\ S + c - L + 1 = s - L + 1
      <4> HIDE DEF t
      <4> QED BY <1>4, <1>5, <2>1, <3>2
    <3> QED BY <3>1, <3>2, <3>3
  <2> HIDE DEF y, s, after, t
  <2>4. SeenAt(y, after) = Reference!Units(s - t + 1, s)
    BY <2>2, <2>3, SeenUnits
  <2>5. SeenAt(y, after) = Reference!Units(Reference!Highest(1, s - L + 1), s)
    BY <2>3, <2>4
  <2>6. s - L + 1 = S + c - L + 1
    BY <1>4, <1>5, <2>1 DEF s
  <2> QED BY <2>5, <2>6 DEF y, s, after
<1>15. Reference!LdmMatches(call, k)
         = [c \in 1..n |-> Reference!Units(Reference!Highest(1, S + c - L + 1), S + c)]
  <2>1. call.ldm = L /\ L # 0
    BY DEF L, LdmWindow
  <2>2. Reference!JobEnd(call, k) - Reference!JobStart(call, k) + 1 = n
    BY <1>4
  <2>3. \A c \in 1..n : Reference!JobStart(call, k) + c - 1 = S + c
    BY <1>4
  <2>4. \A c \in 1..n : (Reference!JobStart(call, k) + c - 1) - L + 1 = S + c - L + 1
    BY <1>4, <1>5
  <2> HIDE DEF n
  <2>5. Reference!LdmMatches(call, k)
          = [c \in 1..n |->
               Reference!Units(Reference!Highest(1, (Reference!JobStart(call, k) + c - 1) - L + 1),
                               Reference!JobStart(call, k) + c - 1)]
    BY <2>1, <2>2 DEF Reference!LdmMatches
  <2> QED BY <2>3, <2>4, <2>5
<1>16. [c \in 1..n |-> SeenAt(At(c), n - c)] = Reference!LdmMatches(call, k)
  <2> HIDE DEF At
  <2> QED BY <1>14, <1>15
<1>17. LET y == At(n)
       IN  /\ Recent(y, S + n) /\ Ends(y.pre) = Ends(src)
           /\ y.ext.size + y.pre.size = Reference!Lowest(S + n, L)
           /\ \A r : r.start \in Nat /\ r.size \in Nat /\ Clear(r, x) /\ ~isOverlapped(r, src)
                       => Clear(r, y)
  <2> DEFINE c == n
             y == Enforced(full, n - c)
  <2>1. c \in 0..n
    BY <1>4
  <2>2. /\ Recent(y, (S + c) + (n - c))
        /\ y.ext.size + y.pre.size = Reference!Lowest(low + c, L) + (n - c)
        /\ Ends(y.pre) = Ends(full.pre)
        /\ \A r : r.start \in Nat /\ r.size \in Nat /\ Clear(r, full) => Clear(r, y)
    <3> HIDE DEF c
    <3> QED BY <1>12, <2>1
  <2>3. (S + c) + (n - c) = S + n
    BY <1>4
  <2>4. Reference!Lowest(low + c, L) + (n - c) = Reference!Lowest(S + n, L)
    <3> DEFINE z == Reference!Lowest(low + c, L)
    <3>1. z = Reference!Lowest(S + n, L) /\ z \in Nat
      BY <1>13, <2>1
    <3> HIDE DEF z
    <3>2. z + (n - c) = z
      BY <1>4, <3>1
    <3> QED BY <3>1, <3>2 DEF z
  <2> HIDE DEF y
  <2>5. y = At(n)
    BY DEF y
  <2> HIDE DEF At, c
  <2> QED BY <1>10, <2>2, <2>3, <2>4, <2>5
<1> HIDE DEF At
<1> QED BY <1>4, <1>8, <1>16, <1>17 DEF k, src, x, L, LdmComplete, Clear

(* What the serial step leaves the jobs that are yet to be served.         *)
LEMMA SerialServes ==
  ASSUME IInv, Right, LdmWindow > 0, NEW w \in Workers, wpc[w] = "serial",
         TurnReached(JobOf(w).id), SerialStep(w), serialNext' = serialNext + 1,
         UNCHANGED mainVars, jobs' = jobs
  PROVE  WindowInv' /\ ServingInv'
<1>1. /\ serialNext = running[w] /\ running[w] \in Nat /\ running[w] \in Unserved
      /\ running[w] \in Unfinished /\ running[w] \in Live /\ JobOf(w) = JobAt(running[w])
  BY TurnTaken
<1>2. /\ ldmState' = ldmWindow' /\ Recent(ldmWindow', UnitsBefore(serialNext + 1))
      /\ ldmWindow'.ext.size + ldmWindow'.pre.size
           = Reference!Lowest(UnitsBefore(serialNext + 1), LdmWindow)
      /\ Ends(ldmWindow'.pre) = Ends(JobAt(serialNext).src)
      /\ \A r : r.start \in Nat /\ r.size \in Nat /\ LdmComplete(r)
                  /\ ~isOverlapped(r, JobAt(serialNext).src) => Clear(r, ldmWindow')
  BY <1>1, SerialFinds
<1>3. call' = call /\ roundBuff' = roundBuff /\ Live' = Live /\ Prepared' = Prepared
      /\ roundPos' = roundPos /\ (Reserved' <=> Reserved)
  BY MainStateKept
<1>4. /\ LdmWindow' = LdmWindow /\ Overlap' = Overlap /\ Section' = Section
      /\ Capacity' = Capacity /\ Total' = Total
  BY <1>3, CallKept
<1>5. WindowInv'
  <2>1. Served' = UnitsBefore(serialNext + 1)
    BY <1>4 DEF Served, UnitsBefore, Reference!Lowest
  <2> QED BY <1>2, <1>3, <1>4, <2>1 DEF WindowInv, Recent, Holds, Reference!Lowest
<1>6. \A j : JobAt(j)' = JobAt(j) /\ NextStart(j)' = NextStart(j)
  BY <1>3, UntouchedStep DEF NextStart
<1>7. ServingInv
  BY DEF Right
<1>8. Unserved' \subseteq Unserved /\ \A j \in Unserved' : serialNext < j
  <2>1. \A j \in Live : j \in Nat
    BY PreparedJobs, MainTypesNow
  <2> QED BY <1>1, <1>3, <2>1 DEF Unserved
<1>9. NextStart(serialNext)' = NextStart(serialNext + 1)
  <2>1. \A j : j = serialNext' => NextStart(serialNext)' = NextStart(j)'
    BY <1>3, <1>4, CallKept DEF NextStart, JobAt
  <2> QED BY <1>6, <2>1
<1>10. Follows(Ends(ldmWindow.pre), NextStart(serialNext))'
  <2>1. Follows(Ends(JobAt(serialNext).src), NextStart(serialNext + 1))
    BY <1>1, <1>7 DEF ServingInv
  <2> QED BY <1>2, <1>4, <1>9, <2>1 DEF Follows, Ends
<1>11. ASSUME NEW r, r.start \in Nat, r.size \in Nat, LdmComplete(r),
              ~isOverlapped(r, JobAt(serialNext).src)
       PROVE  LdmComplete(r)'
  <2>1. Clear(r, ldmWindow')
    BY <1>2, <1>11
  <2> QED BY <2>1 DEF Clear, LdmComplete, isOverlapped, Ends
<1>12. ASSUME NEW j \in Unserved'
       PROVE  /\ Follows(Ends(JobAt(j).src), NextStart(j + 1))'
              /\ LdmComplete(JobAt(j).src)'
  <2>1. j \in Unserved /\ j \in Live /\ serialNext < j
    BY <1>8 DEF Unserved
  <2>2. JobAt(j).src.start \in Nat /\ JobAt(j).src.size \in Nat
    BY <2>1, LiveSlots, MainTypesNow DEF Sized, Within, Pieces
  <2>3. ~isOverlapped(JobAt(j).src, JobAt(serialNext).src)
    BY <1>1, <1>7, <2>1 DEF ServingInv, isOverlapped
  <2>4. LdmComplete(JobAt(j).src) /\ Follows(Ends(JobAt(j).src), NextStart(j + 1))
    BY <1>7, <2>1 DEF ServingInv
  <2>5. Clear(JobAt(j).src, ldmWindow')
    BY <1>2, <2>2, <2>3, <2>4
  <2> QED BY <1>4, <1>6, <2>4, <2>5 DEF Clear, LdmComplete, isOverlapped, Ends, Follows
<1>13. ASSUME NEW i \in Unserved', NEW j \in Unserved', i < j
       PROVE  ~isOverlapped(JobAt(i).src, JobAt(j).src)'
  <2>1. ~isOverlapped(JobAt(i).src, JobAt(j).src)
    BY <1>7, <1>8, <1>13 DEF ServingInv
  <2> QED BY <1>6, <2>1 DEF isOverlapped, Ends
<1>14. ASSUME Reserved
       PROVE  LdmComplete(Span(roundPos, Section))'
  <2> DEFINE r == Span(roundPos, Section)
  <2>1. LdmComplete(r)
    BY <1>7, <1>14 DEF ServingInv
  <2>2. r.start \in Nat /\ r.size \in Nat /\ r.start = roundPos /\ r.size = Section
        /\ Ends(r) = roundPos + Section
    BY RoundSizes DEF Span, Ends
  <2>3. ~isOverlapped(r, JobAt(serialNext).src)
    <3>1. ~Ended /\ Geometry
      <4>1. Working(w)
        BY DEF Working
      <4>2. ~Ended
        BY <4>1, InHand
      <4> QED BY <4>2, MainTypesNow
    <3>2. Behind(serialNext) \/ Ahead(serialNext)
      BY <1>1, <3>1 DEF Geometry, Sides
    <3>3. /\ JobAt(serialNext).src.start \in Nat
          /\ Ends(JobAt(serialNext).src) \in Nat
          /\ Low(JobAt(serialNext)) \in Nat
          /\ Low(JobAt(serialNext)) <= JobAt(serialNext).src.start
      BY <1>1, <3>1, UnfinishedJob
    <3>4. CASE Behind(serialNext)
      BY <2>2, <3>3, <3>4, RoundSizes DEF Behind, isOverlapped
    <3>5. CASE Ahead(serialNext)
      <4>1. roundPos + Section <= JobAt(serialNext).src.start
        BY <1>14, <3>3, <3>5, RoundSizes DEF Ahead, Frontier
      <4> QED BY <2>2, <3>3, <4>1, RoundSizes DEF isOverlapped
    <3> QED BY <3>2, <3>4, <3>5
  <2>4. Clear(r, ldmWindow')
    BY <1>2, <2>1, <2>2, <2>3
  <2> QED BY <1>3, <1>4, <2>4 DEF Clear, LdmComplete, isOverlapped, Ends, Span
<1> QED BY <1>3, <1>5, <1>10, <1>12, <1>13, <1>14 DEF ServingInv

(* A job takes its turn in the serial step.                                *)
LEMMA GenSequencesKeeps ==
  ASSUME IInv, OInv, NEW w \in Workers, GenSequences(w)
  PROVE  OInv'
<1>1. /\ UNCHANGED mainVars /\ jobs' = jobs /\ serialNext' = serialNext + 1
      /\ queue' = queue /\ running' = running /\ wlast' = wlast /\ failures' = failures
      /\ wpc[w] = "serial" /\ wpc' = [wpc EXCEPT ![w] = "compress"]
      /\ TurnReached(JobOf(w).id)
  BY DEF GenSequences, poolVars
<1>2. WorkerTypes /\ PoolTypes /\ FrameTypes /\ JobsShared /\ call' = call
  BY <1>1, MainTypesNow, MainStateKept
<1>3. JobsAdvance /\ (\A k \in Live : JobAt(k)' = JobAt(k)
                                       /\ (Completed(JobAt(k))' => Completed(JobAt(k))))
      /\ \A s \in TableSlots : jobs'[s].error = jobs[s].error
  BY <1>1, NothingWritten
<1>4. ASSUME Right
      PROVE  /\ InTurn' /\ BlocksInv' /\ InWork'
             /\ LdmWindow > 0 => WindowInv' /\ ServingInv'
  <2>1. /\ Working(w) /\ serialNext = running[w] /\ JobOf(w).id = running[w]
        /\ running[w] \in Nat /\ running[w] < nextJobID /\ running[w] \notin Pool!Queued
    BY <1>1, <1>4, TurnTaken
  <2>2. /\ doneJobID \in Nat /\ nextJobID \in Nat /\ serialNext \in Nat
        /\ doneJobID' = doneJobID /\ nextJobID' = nextJobID /\ Live' = Live
        /\ Pool!Queued' = Pool!Queued
        /\ \A k \in Pool!Queued : k \in Int
        /\ \A k \in Live : k \in Nat
    <3>1. \A k \in Pool!Queued : k \in Int
      BY <1>2 DEF PoolTypes, Pool!Queued
    <3>2. \A k \in Live : k \in Nat
      BY <1>2, PreparedJobs
    <3> QED BY <1>1, <1>2, <2>1, <3>1, <3>2, MainStateKept DEF FrameTypes, Pool!Queued
  <2>3. InTurn
    BY <1>4 DEF Right
  <2>4. \A v \in Workers : Working(v)' => (BeforeTurn(v)' <=> serialNext' <= running'[v])
    <3> SUFFICES ASSUME NEW v \in Workers, Working(v)'
                 PROVE  BeforeTurn(v)' <=> serialNext' <= running'[v]
      OBVIOUS
    <3>1. CASE v = w
      <4>1. wpc'[w] = "compress"
        BY <1>1, <1>2 DEF WorkerTypes
      <4> QED BY <1>1, <2>1, <2>2, <3>1, <4>1 DEF BeforeTurn
    <3>2. CASE v # w
      <4>1. wpc'[v] = wpc[v] /\ Working(v)
        BY <1>1, <1>2, <3>2 DEF WorkerTypes, Working
      <4>2. running[v] # running[w] /\ running[v] \in Nat
        BY <1>2, <2>1, <3>2, <4>1, InHand DEF JobsShared
      <4>3. BeforeTurn(v) <=> serialNext <= running[v]
        BY <2>3, <4>1 DEF InTurn
      <4> QED BY <1>1, <2>1, <2>2, <4>1, <4>2, <4>3 DEF BeforeTurn
    <3> QED BY <3>1, <3>2
  <2>5. InTurn'
    <3>1. doneJobID' <= serialNext' /\ serialNext' <= nextJobID'
      BY <1>1, <2>1, <2>2, <2>3 DEF InTurn
    <3>2. \A k \in Pool!Queued' : serialNext' <= k
      BY <1>1, <2>1, <2>2, <2>3 DEF InTurn
    <3>3. \A k \in Live' : Completed(JobAt(k))' => k < serialNext'
      BY <1>1, <1>3, <2>2, <2>3 DEF InTurn
    <3> QED BY <2>4, <3>1, <3>2, <3>3 DEF InTurn
  <2>6. BlocksInv'
    BY <1>1, <1>3, <1>4, BlocksKept DEF Right
  <2>7. LdmWindow > 0 => SerialStep(w)
    BY <2>1 DEF GenSequences
  <2>8. wseq' = [wseq EXCEPT ![w] = Reference!LdmMatches(call, running[w])]
    <3>1. CASE LdmWindow > 0
      BY <1>1, <1>4, <2>7, <3>1, SerialFinds
    <3>2. CASE ~(LdmWindow > 0)
      <4>1. call.ldm = 0
        <5>1. LdmWindow \in Nat
          BY CallFacts, MainTypesNow
        <5> QED BY <3>2, <5>1 DEF LdmWindow
      <4> QED BY <3>2, <4>1 DEF GenSequences, Reference!LdmMatches
    <3> QED BY <3>1, <3>2
  <2>9. InWork'
    <3> DEFINE seq == Reference!LdmMatches(call, running[w])
    <3> HIDE DEF seq
    <3>1. /\ wseq'[w] = seq /\ running'[w] = running[w] /\ wlast'[w] = wlast[w]
          /\ \A v \in Workers : v # w => /\ wpc'[v] = wpc[v] /\ running'[v] = running[v]
                                         /\ wseq'[v] = wseq[v] /\ wlast'[v] = wlast[v]
      BY <1>1, <1>2, <2>8 DEF WorkerTypes, PoolTypes, seq
    <3> QED BY <1>2, <1>4, <2>1, <3>1, WorkKept DEF Right, InWork, seq
  <2>10. LdmWindow > 0 => WindowInv' /\ ServingInv'
    BY <1>1, <1>4, <2>7, SerialServes
  <2> QED BY <2>5, <2>6, <2>9, <2>10
<1> QED BY <1>1, <1>3, <1>4, WorkerStep

(* No step of a worker breaks the invariant.                               *)
LEMMA WorkersKeep ==
  ASSUME IInv, OInv, NEW w \in Workers, Worker(w)
  PROVE  OInv'
BY BeginKeeps, GetResourcesKeeps, FailingKeeps, GenSequencesKeeps, CompressPieceKeeps,
   CompressLastRight, QuietKeeps, EnsureFinishedKeeps, ReportKeeps DEF Worker

-----------------------------------------------------------------------------
(* Steps of main that start and flush no job.                              *)

(* The order of turns and the work of the workers, when main moves.        *)
LEMMA ThreadsRight ==
  ASSUME IInv, UNCHANGED Jobs, UNCHANGED Threads
  PROVE  /\ SourcesInv => SourcesInv'
         /\ InTurn => InTurn'
         /\ BlocksInv => BlocksInv'
         /\ InWork => InWork'
         /\ OutInv /\ out' = out => OutInv'
<1>1. /\ call' = call /\ doneJobID' = doneJobID /\ nextJobID' = nextJobID /\ queue' = queue
      /\ Prepared' = Prepared /\ Live' = Live /\ \A k : JobAt(k)' = JobAt(k)
      /\ \A k : Completed(JobAt(k))' = Completed(JobAt(k))
  BY JobsKept
<1>2. /\ serialNext' = serialNext /\ wpc' = wpc /\ wseq' = wseq /\ wlast' = wlast
      /\ running' = running
  BY DEF Threads, serialVars, workerVars
<1>3. \A k : UnitsBefore(k)' = UnitsBefore(k) /\ JobUnits(k)' = JobUnits(k)
  BY <1>1, PartsKept
<1>4. SourcesInv => SourcesInv'
  BY <1>1, <1>3 DEF SourcesInv
<1>5. InTurn => InTurn'
  BY <1>1, <1>2 DEF InTurn, Working, BeforeTurn, Pool!Queued
<1>6. BlocksInv => BlocksInv'
  BY <1>1 DEF BlocksInv
<1>7. InWork => InWork'
  BY <1>1, <1>2, <1>3 DEF InWork, Working, JobUnits, Reference!JobStart, Reference!JobEnd
<1>8. OutInv /\ out' = out => OutInv'
  <2>1. \A k : k = doneJobID => JobAt(doneJobID)' = JobAt(k)'
    BY <1>1, CallKept DEF JobAt
  <2>2. OldestFlushed' = OldestFlushed
    BY <1>1, <2>1 DEF OldestFlushed
  <2>3. UnitsBefore(doneJobID)' = UnitsBefore(doneJobID)
    BY <1>1, CallKept DEF UnitsBefore, Reference!Lowest
  <2> QED BY <1>1, <2>2, <2>3, CallKept DEF OutInv, FrameBlocks, BlockAt
<1> QED BY <1>4, <1>5, <1>6, <1>7, <1>8

(* Ranges that are not written hold what they held, and the window and the *)
(* jobs it waits for stay where they are.                                  *)
LEMMA InputsRight ==
  ASSUME IInv, UNCHANGED Jobs, UNCHANGED Threads,
         UNCHANGED <<inBuff, prefix, roundBuff, roundPos>>
  PROVE  /\ ContentsInv => ContentsInv'
         /\ WindowInv => WindowInv'
         /\ ServingInv => ServingInv'
<1>1. /\ call' = call /\ doneJobID' = doneJobID /\ nextJobID' = nextJobID
      /\ frameEnded' = frameEnded /\ Unfinished' = Unfinished
      /\ Prepared' = Prepared /\ Live' = Live /\ \A k : JobAt(k)' = JobAt(k)
  BY JobsKept
<1>2. /\ serialNext' = serialNext /\ ldmWindow' = ldmWindow /\ ldmState' = ldmState
  BY DEF Threads, serialVars
<1>3. /\ LdmWindow' = LdmWindow /\ Overlap' = Overlap /\ Section' = Section
      /\ Capacity' = Capacity /\ Total' = Total
  BY <1>1, CallKept
<1>4. Reserved' <=> Reserved
  BY DEF Reserved, NoInBuff
<1>5. ContentsInv => ContentsInv'
  BY <1>1, <1>3, <1>4 DEF ContentsInv, Holds
<1>6. WindowInv => WindowInv'
  <2>1. Served' = Served
    BY <1>2, <1>3 DEF Served, UnitsBefore, Reference!Lowest
  <2> QED BY <1>2, <1>3, <2>1 DEF WindowInv, Holds, Reference!Lowest
<1>7. ServingInv => ServingInv'
  <2>1. \A k : NextStart(k)' = NextStart(k)
    BY <1>1 DEF NextStart
  <2>2. \A k : k = serialNext => NextStart(serialNext)' = NextStart(k)'
    BY <1>1, <1>2, CallKept DEF NextStart, JobAt
  <2>3. Unserved' = Unserved
    BY <1>1, <1>2 DEF Unserved
  <2> QED BY <1>1, <1>2, <1>3, <1>4, <2>1, <2>2, <2>3
          DEF ServingInv, Follows, Ends, LdmComplete, isOverlapped
<1> QED BY <1>5, <1>6, <1>7

(* Errors, when main moves and meets none.                                 *)
LEMMA ErrorsStay ==
  ASSUME IInv, ErrorsInv, UNCHANGED Jobs, UNCHANGED Threads, UNCHANGED <<failed, failures, outcome>>,
         Ended' <=> Ended, mpc # "returned", mpc' # "returned", mpc' # "waitAll"
  PROVE  ErrorsInv'
<1>1. /\ call' = call /\ jobs' = jobs /\ Live' = Live /\ \A k : JobAt(k)' = JobAt(k)
  BY JobsKept
<1>2. TableSlots' = TableSlots
  BY <1>1, CallKept
<1> QED BY <1>1, <1>2 DEF ErrorsInv

(* Steps of main that touch neither jobs nor the input keep it all.        *)
LEMMA SmallStepsKeep ==
  ASSUME IInv, OInv,
         \/ StartCall \/ ScanJobs \/ ScanSkipped \/ RangeInUse \/ NoJobToCreate \/ FreeCCtx
  PROVE  OInv'
<1>1. /\ UNCHANGED Jobs /\ UNCHANGED Threads /\ UNCHANGED <<failed, failures, outcome>>
      /\ UNCHANGED <<inBuff, prefix, roundBuff, roundPos>> /\ out' = out
      /\ mpc # "returned" /\ mpc' # "returned" /\ mpc' # "waitAll"
      /\ (Ended' <=> Ended)
  BY DEF StartCall, ScanJobs, ScanSkipped, RangeInUse, NoJobToCreate, FreeCCtx, Jobs, Threads,
         callVars, inputVars, frameVars, serialVars, resourceVars, workerVars, poolVars,
         Pool!Close, Ended
<1>2. ErrorsInv'
  BY <1>1, ErrorsStay DEF OInv
<1>3. call' = call
  BY <1>1, JobsKept
<1>4. Right => Right'
  <2>1. LdmWindow' = LdmWindow
    BY <1>3, CallKept
  <2> QED BY <1>1, <2>1, ThreadsRight, InputsRight DEF Right
<1>5. out = FrameBlocks(Total) => out' = FrameBlocks(Total)'
  BY <1>1, <1>3, CallKept DEF FrameBlocks, BlockAt
<1> QED BY <1>1, <1>2, <1>4, <1>5 DEF OInv

(* Main meets an error, or has none to meet and ends the call.             *)
LEMMA EndStepsKeep ==
  ASSUME IInv, OInv,
         StartFails \/ FlushError \/ WaitForJob \/ ReleaseAfterError \/ Return
  PROVE  OInv'
<1>1. failures \in Nat /\ call' = call /\ ErrorsInv /\ TableSlots' = TableSlots
  <2>1. call' = call
    BY DEF StartFails, FlushError, WaitForJob, ReleaseAfterError, Return, callVars
  <2>2. failures \in Nat
    BY CallFacts, MainTypesNow DEF MainTypes
  <2> QED BY <2>1, <2>2, CallKept DEF OInv
<1>2. CASE StartFails
  <2>1. /\ failures' = failures + 1 /\ failed' = TRUE /\ mpc = "start" /\ mpc' = "free"
        /\ outcome' = outcome
    BY <1>2 DEF StartFails, CountFailure
  <2> QED BY <1>1, <2>1 DEF OInv, ErrorsInv
<1>3. CASE FlushError
  <2>1. /\ failures' = failures /\ failed' = TRUE /\ mpc = "flush" /\ mpc' = "waitAll"
        /\ outcome' = outcome /\ Oldest.error
    BY <1>3 DEF FlushError
  <2>2. Slot(doneJobID) \in TableSlots
    BY Sizes, SlotOfJob, MainTypesNow DEF FrameTypes, TableSlots
  <2>3. failures > 0
    BY <1>1, <2>1, <2>2 DEF ErrorsInv, Oldest
  <2> QED BY <1>1, <2>1, <2>3 DEF OInv, ErrorsInv
<1>4. CASE WaitForJob \/ ReleaseAfterError
  <2>1. /\ failures' = failures /\ failed' = failed /\ mpc = "waitAll" /\ mpc' \in {"waitAll", "free"}
        /\ outcome' = outcome
    BY <1>4 DEF WaitForJob, ReleaseAfterError, callVars
  <2>2. failed /\ failures > 0
    BY <1>1, <2>1 DEF ErrorsInv
  <2> QED BY <1>1, <2>1, <2>2 DEF OInv, ErrorsInv
<1>5. CASE Return
  <2>1. /\ failures' = failures /\ failed' = failed /\ mpc = "join" /\ mpc' = "returned"
        /\ outcome' = (IF failed THEN "error" ELSE "ok") /\ out' = out
        /\ jobs' = [s \in DOMAIN jobs |-> UnusedJob]
    BY <1>5 DEF Return, ZSTDMT_releaseAllJobResources
  <2>2. Ended /\ Ended'
    BY <2>1 DEF Ended
  <2>3. \A s \in TableSlots' : ~jobs'[s].error
    BY <1>1, <2>1, MainTypesNow DEF JobTypes, UnusedJob
  <2>4. FrameBlocks(Total)' = FrameBlocks(Total)
    BY <1>1, CallKept DEF FrameBlocks, BlockAt
  <2> QED BY <1>1, <2>1, <2>2, <2>3, <2>4 DEF OInv, ErrorsInv
<1> QED BY <1>2, <1>3, <1>4, <1>5

(* A step that changes nothing.                                            *)
LEMMA StutteringKeeps ==
  ASSUME IInv, OInv, UNCHANGED vars
  PROVE  OInv'
<1>1. /\ UNCHANGED Jobs /\ UNCHANGED Threads
      /\ UNCHANGED <<inBuff, prefix, roundBuff, roundPos>> /\ out' = out /\ mpc' = mpc
      /\ failed' = failed /\ failures' = failures /\ outcome' = outcome
  BY DEF vars, Jobs, Threads, callVars, inputVars, frameVars, serialVars, resourceVars,
         workerVars, poolVars
<1>2. /\ call' = call /\ jobs' = jobs /\ Live' = Live /\ \A k : JobAt(k)' = JobAt(k)
  BY <1>1, JobsKept
<1>3. Ended' = Ended /\ TableSlots' = TableSlots /\ LdmWindow' = LdmWindow
  BY <1>1, <1>2, CallKept DEF Ended
<1>4. ErrorsInv => ErrorsInv'
  BY <1>1, <1>2, <1>3 DEF ErrorsInv
<1>5. Right => Right'
  BY <1>1, <1>3, ThreadsRight, InputsRight DEF Right
<1>6. FrameBlocks(Total)' = FrameBlocks(Total)
  BY <1>2, CallKept DEF FrameBlocks, BlockAt
<1> QED BY <1>1, <1>3, <1>4, <1>5, <1>6 DEF OInv

-----------------------------------------------------------------------------
(* Steps of main that change the round buffer.                             *)

(* The round buffer has room for more than two sections and a prefix.      *)
LEMMA RoomForSections ==
  ASSUME call \in Calls
  PROVE  Capacity >= (Section + Section) + Section
<1> DEFINE s == Section
           m == Reference!Highest(LdmWindow, s * NbWorkers)
           n == s * NbWorkers
           b == s * SlackBuffers
<1>1. /\ s \in Nat /\ s > 0 /\ NbWorkers \in Nat /\ NbWorkers >= 1 /\ LdmWindow \in Nat
  BY CallFacts
<1>2. SlackBuffers \in {2, 3}
  BY DEF SlackBuffers
<1>3. Capacity = m + b
  BY DEF Capacity
<1>4. m = IF LdmWindow > n THEN LdmWindow ELSE n
  BY DEF Reference!Highest
<1> HIDE DEF s, m
<1>5. n \in Nat /\ n >= s
  <2>1. 1 * s <= NbWorkers * s /\ NbWorkers * s \in Nat
    BY <1>1, Products
  <2>2. NbWorkers * s = s * NbWorkers /\ 1 * s = s
    BY <1>1
  <2> QED BY <2>1, <2>2
<1>6. b \in Nat /\ b >= s + s
  <2>1. s * 2 = s + s /\ s * 3 = s + s + s
    BY <1>1
  <2> QED BY <1>1, <1>2, <2>1
<1> HIDE DEF n, b
<1>7. m \in Nat /\ m >= s
  BY <1>1, <1>4, <1>5
<1> QED BY <1>1, <1>3, <1>6, <1>7 DEF s

(* The cells a job not completed refers to lie between the beginning of    *)
(* its prefix and the end of its source.                                   *)
LEMMA RangesOfJob ==
  ASSUME IInv, ~Ended, NEW k \in Unfinished
  PROVE  /\ \A i \in 0 .. JobAt(k).src.size - 1 :
              /\ JobAt(k).src.start + i \in Cells /\ Low(JobAt(k)) <= JobAt(k).src.start + i
              /\ JobAt(k).src.start + i < Ends(JobAt(k).src)
         /\ \A i \in 0 .. JobAt(k).prefix.size - 1 :
              /\ JobAt(k).prefix.start + i \in Cells
              /\ Low(JobAt(k)) <= JobAt(k).prefix.start + i
              /\ JobAt(k).prefix.start + i < Ends(JobAt(k).src)
<1> DEFINE src == JobAt(k).src
           pre == JobAt(k).prefix
           low == Low(JobAt(k))
<1>1. /\ src.start \in Nat /\ src.size \in Nat /\ pre.start \in Nat /\ pre.size \in Nat
      /\ Ends(src) = src.start + src.size /\ Ends(src) <= Capacity
      /\ low \in Nat /\ low <= src.start
      /\ pre.size > 0 => Ends(pre) = src.start
      /\ low = IF pre.size = 0 THEN src.start ELSE pre.start
      /\ Capacity \in Nat
  BY UnfinishedJob, RoundSizes DEF Described, Low
<1>2. Ends(pre) = pre.start + pre.size
  BY DEF Ends
<1> HIDE DEF src, pre, low
<1>3. \A i \in 0 .. src.size - 1 :
        src.start + i \in Cells /\ low <= src.start + i /\ src.start + i < Ends(src)
  BY <1>1 DEF Cells
<1>4. \A i \in 0 .. pre.size - 1 :
        pre.start + i \in Cells /\ low <= pre.start + i /\ pre.start + i < Ends(src)
  BY <1>1, <1>2 DEF Cells
<1> QED BY <1>3, <1>4 DEF src, pre, low

(* What the jobs refer to stays what it was, where main does not write.    *)
LEMMA SourcesStay ==
  ASSUME IInv, ~Ended, ContentsInv, UNCHANGED Jobs, UNCHANGED Threads,
         \A k \in Unfinished : \A c \in Cells :
           Low(JobAt(k)) <= c /\ c < Ends(JobAt(k).src) => roundBuff'[c] = roundBuff[c]
  PROVE  \A k \in Unfinished' :
           Holds(JobAt(k).src, k * Section)'
           /\ Holds(JobAt(k).prefix, k * Section - JobAt(k).prefix.size)'
<1>1. call' = call /\ Unfinished' = Unfinished /\ \A k : JobAt(k)' = JobAt(k)
  BY JobsKept
<1>2. Section' = Section
  BY <1>1, CallKept
<1> SUFFICES ASSUME NEW k \in Unfinished
             PROVE  Holds(JobAt(k).src, k * Section)'
                    /\ Holds(JobAt(k).prefix, k * Section - JobAt(k).prefix.size)'
  BY <1>1
<1>3. /\ Holds(JobAt(k).src, k * Section)
      /\ Holds(JobAt(k).prefix, k * Section - JobAt(k).prefix.size)
  BY DEF ContentsInv
<1>4. \A i \in 0 .. JobAt(k).src.size - 1 :
        roundBuff'[JobAt(k).src.start + i] = roundBuff[JobAt(k).src.start + i]
  BY RangesOfJob
<1>5. \A i \in 0 .. JobAt(k).prefix.size - 1 :
        roundBuff'[JobAt(k).prefix.start + i] = roundBuff[JobAt(k).prefix.start + i]
  BY RangesOfJob
<1> QED BY <1>1, <1>2, <1>3, <1>4, <1>5 DEF Holds

(* Ranges that do not overlap have no cell in common.                      *)
LEMMA NoCellShared ==
  ASSUME NEW r, r.start \in Nat, r.size \in Nat, NEW x, x.start \in Nat, x.size \in Nat,
         ~isOverlapped(r, x), NEW i \in 0 .. x.size - 1
  PROVE  ~(r.start <= x.start + i /\ x.start + i < Ends(r))
BY DEF isOverlapped, Ends

(* The window stays what it was, where main does not write.                *)
LEMMA WindowStays ==
  ASSUME IInv, WindowInv, UNCHANGED Jobs, UNCHANGED Threads,
         NEW r, r.start \in Nat, r.size \in Nat, LdmComplete(r),
         \A c \in Cells : ~(r.start <= c /\ c < Ends(r)) => roundBuff'[c] = roundBuff[c]
  PROVE  WindowInv'
<1>1. call' = call /\ serialNext' = serialNext /\ ldmWindow' = ldmWindow /\ ldmState' = ldmState
  BY JobsKept DEF Threads, serialVars
<1>2. LdmWindow' = LdmWindow /\ Overlap' = Overlap /\ Section' = Section /\ Total' = Total
  BY <1>1, CallKept
<1>3. Served' = Served
  BY <1>1, <1>2 DEF Served, UnitsBefore, Reference!Lowest
<1>4. ASSUME NEW x \in {ldmWindow.ext, ldmWindow.pre}, NEW i \in 0 .. x.size - 1
      PROVE  roundBuff'[x.start + i] = roundBuff[x.start + i]
  <2>1. x.start \in Nat /\ x.size \in Nat /\ x.start + x.size <= Capacity /\ Capacity \in Nat
    BY MainTypesNow, RoundSizes DEF WindowTypes, Within, Pieces, Ends
  <2>2. x.start + i \in Cells
    BY <2>1 DEF Cells
  <2>3. ~isOverlapped(r, x)
    BY DEF LdmComplete
  <2>4. ~(r.start <= x.start + i /\ x.start + i < Ends(r))
    BY <2>1, <2>3, NoCellShared
  <2> QED BY <2>2, <2>4
<1> QED BY <1>1, <1>2, <1>3, <1>4 DEF WindowInv, Holds, Reference!Lowest

(* Main takes a range of the round buffer that nothing refers to.          *)
LEMMA TakeRangeKeeps ==
  ASSUME IInv, OInv, TakeRange
  PROVE  OInv'
<1>1. /\ UNCHANGED Jobs /\ UNCHANGED Threads /\ UNCHANGED <<failed, failures, outcome>>
      /\ prefix' = prefix /\ roundBuff' = roundBuff /\ roundPos' = roundPos /\ out' = out
      /\ inBuff' = [start |-> roundPos, filled |-> 0]
      /\ mpc = "range" /\ mpc' = "load" /\ ~MustWrap /\ LdmComplete(WantedRange)
      /\ ~Ended /\ ~Ended'
  BY DEF TakeRange, Jobs, Threads, callVars, frameVars, serialVars, resourceVars, workerVars,
         poolVars, Ended
<1>2. ErrorsInv'
  BY <1>1, ErrorsStay DEF OInv
<1>3. /\ call' = call /\ doneJobID' = doneJobID /\ frameEnded' = frameEnded
      /\ Unfinished' = Unfinished /\ Prepared' = Prepared /\ Live' = Live
      /\ \A k : JobAt(k)' = JobAt(k)
  BY <1>1, JobsKept
<1>4. /\ LdmWindow' = LdmWindow /\ Overlap' = Overlap /\ Section' = Section
      /\ Capacity' = Capacity /\ Total' = Total
  BY <1>3, CallKept
<1>5. ASSUME Right
      PROVE  ContentsInv'
  <2>1. Holds(Span(inBuff.start, inBuff.filled), Prepared * Section)'
    BY <1>1 DEF Holds, Span
  <2> QED BY <1>1, <1>3, <1>4, <1>5, <2>1 DEF Right, ContentsInv, Holds
<1>6. ASSUME WindowInv
      PROVE  WindowInv'
  <2>1. serialNext' = serialNext /\ ldmWindow' = ldmWindow /\ ldmState' = ldmState
    BY <1>1 DEF Threads, serialVars
  <2>2. Served' = Served
    BY <1>4, <2>1 DEF Served, UnitsBefore, Reference!Lowest
  <2> QED BY <1>1, <1>4, <1>6, <2>1, <2>2 DEF WindowInv, Holds, Reference!Lowest
<1>7. ASSUME ServingInv
      PROVE  ServingInv'
  <2>1. serialNext' = serialNext /\ ldmWindow' = ldmWindow
    BY <1>1 DEF Threads, serialVars
  <2>2. \A k : NextStart(k)' = NextStart(k)
    BY <1>1, <1>3 DEF NextStart
  <2>3. \A k : k = serialNext => NextStart(serialNext)' = NextStart(k)'
    BY <1>3, <2>1, CallKept DEF NextStart, JobAt
  <2>4. Unserved' = Unserved
    BY <1>3, <2>1 DEF Unserved
  <2>5. LdmComplete(Span(roundPos, Section))'
    <3>1. LdmComplete(Span(roundPos, Section))
      BY <1>1 DEF WantedRange
    <3> QED BY <1>1, <1>4, <2>1, <3>1 DEF LdmComplete, isOverlapped, Ends
  <2> QED BY <1>3, <1>4, <1>7, <2>1, <2>2, <2>3, <2>4, <2>5
          DEF ServingInv, Follows, Ends, LdmComplete, isOverlapped
<1>8. Right => Right'
  BY <1>1, <1>4, <1>5, <1>6, <1>7, ThreadsRight DEF Right
<1> QED BY <1>1, <1>2, <1>8 DEF OInv

(* Main moves the prefix to the beginning of the round buffer and goes on  *)
(* from there.                                                             *)
LEMMA WrapRangeKeeps ==
  ASSUME IInv, OInv, WrapRange
  PROVE  OInv'
<1> DEFINE p == prefix.size
           r == Span(0, p)
<1>1. /\ UNCHANGED Jobs /\ UNCHANGED Threads /\ UNCHANGED <<failed, failures, outcome>>
      /\ prefix' = r /\ roundBuff' = MovedPrefix /\ roundPos' = p /\ out' = out
      /\ inBuff' = inBuff
      /\ mpc = "range" /\ mpc' = "range" /\ MustWrap /\ LdmComplete(r)
      /\ ~isOverlapped(WantedRange, inUse)
      /\ ~Ended /\ ~Ended'
  BY DEF WrapRange, WantedRange, Jobs, Threads, callVars, frameVars, serialVars, resourceVars,
         workerVars, poolVars, Ended
<1>2. ErrorsInv'
  BY <1>1, ErrorsStay DEF OInv
<1>3. /\ call' = call /\ doneJobID' = doneJobID /\ frameEnded' = frameEnded
      /\ Unfinished' = Unfinished /\ Prepared' = Prepared /\ Live' = Live
      /\ \A k : JobAt(k)' = JobAt(k)
  BY <1>1, JobsKept
<1>4. /\ LdmWindow' = LdmWindow /\ Overlap' = Overlap /\ Section' = Section
      /\ Capacity' = Capacity /\ Total' = Total
  BY <1>3, CallKept
<1>5. /\ Capacity \in Nat /\ Section \in Nat /\ Section > 0 /\ roundPos \in Nat
      /\ roundPos <= Capacity /\ Prepared \in Nat /\ Overlap \in Nat /\ Overlap <= Section
      /\ prefix.start \in Nat /\ p \in Nat /\ Ends(prefix) = prefix.start + p
      /\ Ends(prefix) <= Capacity
      /\ Capacity >= (Section + Section) + Section
  BY RoundSizes, RoomForSections, MainTypesNow
<1>6. /\ (Prepared + 1) * Section > Capacity
      /\ \A k \in Unfinished : Behind(k) /\ p <= Low(JobAt(k))
  BY <1>1, WrapPlace
<1>7. ~frameEnded /\ ~Reserved /\ ~jobReady
  BY <1>1, InputAhead, MainTypesNow DEF Places
<1>8. p = Overlap
  <2>1. p = IF Prepared = 0 THEN 0 ELSE Overlap
    BY <1>1, <1>7, MainTypesNow DEF Rounding
  <2>2. Prepared # 0
    <3> SUFFICES ASSUME Prepared = 0
                 PROVE  FALSE
      OBVIOUS
    <3>1. (Prepared + 1) * Section = Section
      BY <1>5
    <3> QED BY <1>5, <1>6, <3>1
  <2> QED BY <2>1, <2>2
<1>9. \A c \in Cells : roundBuff'[c] = IF c < p THEN roundBuff[prefix.start + c] ELSE roundBuff[c]
  BY <1>1 DEF MovedPrefix
<1>10. r.start = 0 /\ r.size = p /\ Ends(r) = p
  BY <1>5 DEF Span, Ends
<1> HIDE DEF p, r
<1>11. ASSUME Right
       PROVE  ContentsInv'
  <2>1. \A k \in Unfinished' :
          Holds(JobAt(k).src, k * Section)'
          /\ Holds(JobAt(k).prefix, k * Section - JobAt(k).prefix.size)'
    <3>1. ASSUME NEW k \in Unfinished, NEW c \in Cells, Low(JobAt(k)) <= c
          PROVE  roundBuff'[c] = roundBuff[c]
      <4>1. p <= Low(JobAt(k)) /\ Low(JobAt(k)) \in Nat /\ c \in Nat
        BY <1>1, <1>5, <1>6, UnfinishedJob DEF Cells
      <4>2. ~(c < p)
        BY <1>5, <3>1, <4>1
      <4> QED BY <1>9, <4>2
    <3> QED BY <1>1, <1>11, <3>1, SourcesStay DEF Right
  <2>2. Holds(prefix, Prepared * Section - prefix.size)'
    <3> DEFINE b == Prepared * Section - p
    <3>1. \A i \in 0 .. p - 1 : roundBuff[prefix.start + i] = b + i + 1
      BY <1>7, <1>11 DEF Right, ContentsInv, Holds, p
    <3>2. \A i \in 0 .. p - 1 : i \in Cells /\ i < p
      BY <1>5 DEF Cells
    <3>3. \A i \in 0 .. p - 1 : roundBuff'[i] = b + i + 1
      BY <1>9, <3>1, <3>2
    <3>4. b' = b /\ prefix'.size = p /\ prefix'.start = 0
      BY <1>1, <1>3, <1>4, <1>10 DEF p
    <3> HIDE DEF b
    <3>5. \A i \in 0 .. p - 1 : 0 + i = i
      BY <1>5
    <3>6. \A i \in 0 .. prefix'.size - 1 : roundBuff'[prefix'.start + i] = b + i + 1
      BY <3>3, <3>4, <3>5
    <3>7. b = Prepared' * Section' - prefix'.size
      BY <1>3, <1>4, <3>4 DEF b
    <3> QED BY <3>6, <3>7 DEF Holds
  <2>3. ~Reserved'
    BY <1>1, <1>7 DEF Reserved, NoInBuff
  <2> QED BY <2>1, <2>2, <2>3 DEF ContentsInv
<1>12. ASSUME WindowInv
       PROVE  WindowInv'
  <2>1. \A c \in Cells : ~(r.start <= c /\ c < Ends(r)) => roundBuff'[c] = roundBuff[c]
    <3>1. \A c \in Cells : 0 <= c
      BY DEF Cells
    <3> QED BY <1>9, <1>10, <3>1
  <2> QED BY <1>1, <1>5, <1>10, <1>12, <2>1, WindowStays
<1>13. ASSUME NEW e \in Nat, Follows(e, roundPos)
       PROVE  Capacity - e < Section /\ roundPos' = Overlap
  <2>1. Capacity - roundPos < Section
    BY <1>1 DEF MustWrap
  <2>2. roundPos # Overlap
    BY <1>5, <2>1
  <2> QED BY <1>1, <1>8, <1>13, <2>1, <2>2 DEF Follows
<1>14. ASSUME ServingInv, Right
       PROVE  ServingInv'
  <2>1. serialNext' = serialNext /\ ldmWindow' = ldmWindow
    BY <1>1 DEF Threads, serialVars
  <2>2. Unserved' = Unserved
    BY <1>3, <2>1 DEF Unserved
  <2>3. \A k : NextStart(k)' = IF k < Prepared THEN NextStart(k) ELSE roundPos'
    BY <1>3 DEF NextStart
  <2>4. \A k : ~(k < Prepared) => NextStart(k) = roundPos
    BY DEF NextStart
  <2>5. \A k : k = serialNext => NextStart(serialNext)' = NextStart(k)'
    BY <1>3, <2>1, CallKept DEF NextStart, JobAt
  <2>6. ASSUME NEW e \in Nat, NEW k, Follows(e, NextStart(k))
        PROVE  Follows(e, NextStart(k)')
    <3>1. CASE k < Prepared
      BY <2>3, <2>6, <3>1
    <3>2. CASE ~(k < Prepared)
      <4>1. Capacity - e < Section /\ roundPos' = Overlap
        BY <1>13, <2>4, <2>6, <3>2
      <4> QED BY <2>3, <3>2, <4>1 DEF Follows
    <3> QED BY <3>1, <3>2
  <2>7. Follows(Ends(ldmWindow.pre), NextStart(serialNext))'
    <3>1. Ends(ldmWindow.pre) \in Nat
      BY MainTypesNow DEF WindowTypes, Within, Pieces, Ends
    <3>2. Follows(Ends(ldmWindow.pre), NextStart(serialNext)')
      BY <1>14, <2>5, <2>6, <3>1 DEF ServingInv
    <3> QED BY <1>4, <2>1, <3>2 DEF Follows, Ends
  <2>8. ASSUME NEW k \in Unserved'
        PROVE  Follows(Ends(JobAt(k).src), NextStart(k + 1))' /\ LdmComplete(JobAt(k).src)'
    <3>1. k \in Unserved /\ k \in Live
      BY <2>2, <2>8 DEF Unserved
    <3>2. Ends(JobAt(k).src) \in Nat
      BY <3>1, LiveSlots, MainTypesNow DEF Sized, Within, Pieces, Ends
    <3>3. Follows(Ends(JobAt(k).src), NextStart(k + 1)) /\ LdmComplete(JobAt(k).src)
      BY <1>14, <3>1 DEF ServingInv
    <3>4. Follows(Ends(JobAt(k).src), NextStart(k + 1)')
      BY <2>6, <3>2, <3>3
    <3> QED BY <1>3, <1>4, <2>1, <3>3, <3>4 DEF Follows, Ends, LdmComplete, isOverlapped
  <2>9. \A i, k \in Unserved' : i < k => ~isOverlapped(JobAt(i).src, JobAt(k).src)'
    BY <1>3, <1>14, <2>2 DEF ServingInv, isOverlapped, Ends
  <2>10. ~Reserved'
    BY <1>1, <1>7 DEF Reserved, NoInBuff
  <2> QED BY <2>7, <2>8, <2>9, <2>10 DEF ServingInv
<1>15. Right => Right'
  BY <1>1, <1>4, <1>11, <1>12, <1>14, ThreadsRight DEF Right
<1> QED BY <1>1, <1>2, <1>15 DEF OInv

(* Main copies input to the range it has taken.                            *)
LEMMA LoadInputKeeps ==
  ASSUME IInv, OInv, LoadInput
  PROVE  OInv'
<1> DEFINE n == ToLoad
           to == inBuff.start + inBuff.filled
           r == Span(roundPos, Section)
<1>1. /\ UNCHANGED Jobs /\ UNCHANGED Threads /\ UNCHANGED <<failed, failures, outcome>>
      /\ prefix' = prefix /\ roundPos' = roundPos /\ out' = out
      /\ inBuff' = [inBuff EXCEPT !.filled = @ + n]
      /\ roundBuff' = [i \in Cells |-> IF to <= i /\ i < to + n THEN UnitAt(inPos + i - to)
                                       ELSE roundBuff[i]]
      /\ mpc = "load" /\ mpc' = "create" /\ ~Ended /\ ~Ended'
  BY DEF LoadInput, Jobs, Threads, callVars, frameVars, serialVars, resourceVars, workerVars,
         poolVars, Ended
<1>2. ErrorsInv'
  BY <1>1, ErrorsStay DEF OInv
<1>3. /\ call' = call /\ doneJobID' = doneJobID /\ frameEnded' = frameEnded
      /\ Unfinished' = Unfinished /\ Prepared' = Prepared /\ Live' = Live
      /\ \A k : JobAt(k)' = JobAt(k)
  BY <1>1, JobsKept
<1>4. /\ LdmWindow' = LdmWindow /\ Overlap' = Overlap /\ Section' = Section
      /\ Capacity' = Capacity /\ Total' = Total
  BY <1>3, CallKept
<1>5. /\ Capacity \in Nat /\ Section \in Nat /\ Section > 0 /\ roundPos \in Nat
      /\ roundPos <= Capacity /\ Prepared \in Nat /\ inBuff.filled \in Nat
      /\ prefix.start \in Nat /\ prefix.size \in Nat /\ Ends(prefix) = prefix.start + prefix.size
      /\ Ends(prefix) <= Capacity /\ srcOffset \in Nat /\ inPos \in Nat
      /\ Prepared * Section \in Nat
  BY RoundSizes, Products
<1>6. /\ n \in Nat /\ inBuff.filled + n <= Section
      /\ Reserved /\ inBuff.start = roundPos /\ roundPos + Section <= Capacity
      /\ ~frameEnded /\ InputLeft /\ ~jobReady
  BY <1>1, LoadFacts
<1> HIDE DEF n
<1>7. inBuff'.start = roundPos /\ inBuff'.filled = inBuff.filled + n /\ Reserved'
  <2>1. inBuff \in [start : -1..Capacity, filled : 0..Section]
    BY MainTypesNow DEF BufferTypes
  <2>2. inBuff'.start = inBuff.start /\ inBuff'.filled = inBuff.filled + n
    BY <1>1, <2>1
  <2>3. inBuff'.start # -1
    BY <1>5, <1>6, <2>2
  <2> QED BY <1>6, <2>2, <2>3 DEF Reserved, NoInBuff
<1>8. to = roundPos + inBuff.filled /\ to \in Nat
  BY <1>5, <1>6
<1> HIDE DEF to
<1>9. \A c \in Cells : roundBuff'[c] = IF to <= c /\ c < to + n THEN UnitAt(inPos + c - to)
                                       ELSE roundBuff[c]
  BY <1>1
<1>10. \A c \in Cells : c \in Nat
  BY DEF Cells
<1>11. r.start = roundPos /\ r.size = Section /\ Ends(r) = roundPos + Section
  BY DEF Span, Ends
<1> HIDE DEF r
<1>12. \A c \in Cells : ~(roundPos <= c /\ c < roundPos + Section) => roundBuff'[c] = roundBuff[c]
  <2> SUFFICES ASSUME NEW c \in Cells, ~(roundPos <= c /\ c < roundPos + Section)
               PROVE  roundBuff'[c] = roundBuff[c]
    OBVIOUS
  <2>1. ~(to <= c /\ c < to + n)
    BY <1>5, <1>6, <1>8, <1>10
  <2> QED BY <1>9, <2>1
<1>13. ASSUME Right
       PROVE  ContentsInv'
  <2>1. \A k \in Unfinished' :
          Holds(JobAt(k).src, k * Section)'
          /\ Holds(JobAt(k).prefix, k * Section - JobAt(k).prefix.size)'
    <3>1. ASSUME NEW k \in Unfinished, NEW c \in Cells,
                 Low(JobAt(k)) <= c /\ c < Ends(JobAt(k).src)
          PROVE  roundBuff'[c] = roundBuff[c]
      <4>1. /\ Low(JobAt(k)) \in Nat /\ JobAt(k).src.start \in Nat /\ JobAt(k).src.size \in Nat
            /\ Ends(JobAt(k).src) = JobAt(k).src.start + JobAt(k).src.size
        BY <1>1, UnfinishedJob
      <4>2. Ends(JobAt(k).src) <= roundPos \/ roundPos + Section <= Low(JobAt(k))
        BY <1>1, <1>6, MainTypesNow DEF Geometry, Sides, Behind, Ahead, Frontier
      <4>3. ~(roundPos <= c /\ c < roundPos + Section)
        BY <1>5, <1>10, <3>1, <4>1, <4>2
      <4> QED BY <1>12, <4>3
    <3> QED BY <1>1, <1>13, <3>1, SourcesStay DEF Right
  <2>2. Holds(prefix, Prepared * Section - prefix.size)'
    <3>1. Holds(prefix, Prepared * Section - prefix.size)
      BY <1>6, <1>13 DEF Right, ContentsInv
    <3>2. \A i \in 0 .. prefix.size - 1 : roundBuff'[prefix.start + i] = roundBuff[prefix.start + i]
      <4> SUFFICES ASSUME NEW i \in 0 .. prefix.size - 1
                   PROVE  roundBuff'[prefix.start + i] = roundBuff[prefix.start + i]
        OBVIOUS
      <4>1. Ends(prefix) = roundPos
        BY <1>1, <1>5, <1>6, MainTypesNow DEF Rounding
      <4>2. prefix.start + i \in Cells /\ prefix.start + i < roundPos
        BY <1>5, <4>1 DEF Cells
      <4>3. ~(roundPos <= prefix.start + i)
        BY <1>5, <4>2
      <4> QED BY <1>12, <4>2, <4>3
    <3> QED BY <1>1, <1>3, <1>4, <3>1, <3>2 DEF Holds
  <2>3. Holds(Span(inBuff.start, inBuff.filled), Prepared * Section)'
    <3> DEFINE b == Prepared * Section
               f == inBuff.filled
    <3>1. \A i \in 0 .. f - 1 : roundBuff[roundPos + i] = b + i + 1
      BY <1>6, <1>13 DEF Right, ContentsInv, Holds, Span
    <3>2. srcOffset + inPos = b + f
      BY <1>1, <1>6, MainTypesNow DEF Taken
    <3>3. b \in Nat /\ f \in Nat
      BY <1>5
    <3>4. to = roundPos + f /\ f + n <= Section
      BY <1>6, <1>8
    <3> HIDE DEF b, f
    <3>5. ASSUME NEW i \in 0 .. (f + n) - 1
          PROVE  roundBuff'[roundPos + i] = b + i + 1
      <4>1. roundPos + i \in Cells /\ i \in Nat
        BY <1>5, <1>6, <3>3, <3>4 DEF Cells
      <4>2. CASE i < f
        <5>1. i \in 0 .. f - 1 /\ ~(to <= roundPos + i)
          BY <1>5, <3>3, <3>4, <4>1, <4>2
        <5> QED BY <1>9, <3>1, <4>1, <5>1
      <4>3. CASE ~(i < f)
        <5>1. to <= roundPos + i /\ roundPos + i < to + n
          BY <1>5, <1>6, <3>3, <3>4, <4>1, <4>3
        <5>2. roundBuff'[roundPos + i] = UnitAt(inPos + (roundPos + i) - to)
          BY <1>9, <4>1, <5>1
        <5>3. UnitAt(inPos + (roundPos + i) - to) = srcOffset + (inPos + (roundPos + i) - to) + 1
          BY DEF UnitAt
        <5>4. srcOffset + (inPos + (roundPos + i) - to) + 1 = b + i + 1
          BY <1>5, <3>2, <3>3, <3>4, <4>1
        <5> QED BY <5>2, <5>3, <5>4
      <4> QED BY <4>2, <4>3
    <3>6. /\ inBuff'.start = roundPos /\ inBuff'.filled = f + n
          /\ Prepared' * Section' = b
      BY <1>3, <1>4, <1>7 DEF b, f
    <3> QED BY <3>5, <3>6 DEF Holds, Span
  <2> QED BY <2>1, <2>2, <2>3 DEF ContentsInv
<1>14. ASSUME WindowInv, ServingInv
       PROVE  WindowInv'
  <2>1. LdmComplete(r)
    BY <1>6, <1>14 DEF ServingInv, r
  <2> QED BY <1>1, <1>5, <1>11, <1>12, <1>14, <2>1, WindowStays
<1>15. ASSUME ServingInv
       PROVE  ServingInv'
  <2>1. serialNext' = serialNext /\ ldmWindow' = ldmWindow
    BY <1>1 DEF Threads, serialVars
  <2>2. \A k : NextStart(k)' = NextStart(k)
    BY <1>1, <1>3 DEF NextStart
  <2>3. \A k : k = serialNext => NextStart(serialNext)' = NextStart(k)'
    BY <1>3, <2>1, CallKept DEF NextStart, JobAt
  <2>4. Unserved' = Unserved
    BY <1>3, <2>1 DEF Unserved
  <2> QED BY <1>1, <1>3, <1>4, <1>6, <1>15, <2>1, <2>2, <2>3, <2>4
          DEF ServingInv, Follows, Ends, LdmComplete, isOverlapped
<1>16. Right => Right'
  BY <1>1, <1>4, <1>13, <1>14, <1>15, ThreadsRight DEF Right
<1> QED BY <1>1, <1>2, <1>16 DEF OInv

-----------------------------------------------------------------------------
(* Main makes a job of what is in the input buffer.                        *)

(* The window is what it was as long as the threads do not move and main   *)
(* does not write.                                                         *)
LEMMA WindowRight ==
  ASSUME WindowInv, call' = call, UNCHANGED Threads, roundBuff' = roundBuff
  PROVE  WindowInv'
<1>1. serialNext' = serialNext /\ ldmWindow' = ldmWindow /\ ldmState' = ldmState
  BY DEF Threads, serialVars
<1>2. LdmWindow' = LdmWindow /\ Overlap' = Overlap /\ Section' = Section /\ Total' = Total
  BY CallKept
<1>3. Served' = Served
  BY <1>1, <1>2 DEF Served, UnitsBefore, Reference!Lowest
<1> QED BY <1>1, <1>2, <1>3 DEF WindowInv, Holds, Reference!Lowest

(* What the creation of a job does to the turns and to the rest of main's  *)
(* state.                                                                  *)
LEMMA Dispatched ==
  ASSUME IInv, CreateJob
  PROVE  /\ UNCHANGED <<failed, failures, outcome, roundBuff, out>>
         /\ serialNext' = serialNext /\ wpc' = wpc /\ wseq' = wseq /\ wlast' = wlast
         /\ running' = running
         /\ nextJobID \in Nat /\ doneJobID \in Nat /\ nextJobID' \in Nat
         /\ nextJobID <= nextJobID'
         /\ \A k \in Pool!Queued' : k \in Pool!Queued \/ k = nextJobID
<1>1. /\ UNCHANGED <<failed, failures, outcome, roundBuff, out>>
      /\ serialNext' = serialNext /\ wpc' = wpc /\ wseq' = wseq /\ wlast' = wlast
      /\ \/ WorkerAvailable /\ Pool!Accept(nextJobID) /\ nextJobID' = nextJobID + 1
         \/ UNCHANGED <<nextJobID, poolVars>>
  BY DEF CreateJob, serialVars, workerVars
<1>2. nextJobID \in Nat /\ doneJobID \in Nat
  BY MainTypesNow DEF FrameTypes
<1>3. CASE WorkerAvailable /\ Pool!Accept(nextJobID) /\ nextJobID' = nextJobID + 1
  <2>1. queue = <<>> /\ queue' = Append(queue, nextJobID) /\ running' = running
    BY <1>3 DEF WorkerAvailable, Pool!Accept
  <2>2. queue' = <<nextJobID>>
    BY <2>1
  <2>3. \A k \in Pool!Queued' : k = nextJobID
    BY <2>2 DEF Pool!Queued
  <2> QED BY <1>1, <1>2, <1>3, <2>1, <2>3
<1>4. CASE UNCHANGED <<nextJobID, poolVars>>
  <2>1. nextJobID' = nextJobID /\ queue' = queue /\ running' = running
    BY <1>4 DEF poolVars
  <2> QED BY <1>1, <1>2, <2>1 DEF Pool!Queued
<1> QED BY <1>1, <1>3, <1>4

(* The job that waited for a worker is given to one.                       *)
LEMMA ReadyJobKeeps ==
  ASSUME IInv, OInv, CreateJob, jobReady
  PROVE  OInv'
<1>1. /\ UNCHANGED <<failed, failures, outcome, roundBuff, out>>
      /\ serialNext' = serialNext /\ wpc' = wpc /\ wseq' = wseq /\ wlast' = wlast
      /\ running' = running
      /\ nextJobID \in Nat /\ doneJobID \in Nat /\ nextJobID' \in Nat
      /\ nextJobID <= nextJobID'
      /\ \A k \in Pool!Queued' : k \in Pool!Queued \/ k = nextJobID
  BY Dispatched
<1>2. /\ UNCHANGED Threads /\ call' = call /\ doneJobID' = doneJobID
      /\ mpc = "create" /\ mpc' = "flush" /\ ~Ended /\ ~Ended'
      /\ Prepared' = nextJobID + 1
  BY DispatchFacts
<1>3. /\ jobs' = jobs /\ inBuff' = inBuff /\ prefix' = prefix /\ roundPos' = roundPos
      /\ frameEnded' = frameEnded
  BY DEF CreateJob, PrepareJob
<1>4. Prepared' = Prepared
  BY <1>2 DEF Prepared
<1>5. Live' = Live
  BY <1>2, <1>4 DEF Live
<1>6. /\ LdmWindow' = LdmWindow /\ Overlap' = Overlap /\ Section' = Section
      /\ Capacity' = Capacity /\ Total' = Total /\ TableSlots' = TableSlots
      /\ \A k : Slot(k)' = Slot(k)
  BY <1>2, CallKept
<1>7. \A k : JobAt(k)' = JobAt(k) /\ Completed(JobAt(k))' = Completed(JobAt(k))
  BY <1>3, <1>6 DEF JobAt, Completed
<1>8. Unfinished' = Unfinished /\ (Reserved' <=> Reserved)
  BY <1>3, <1>5, <1>7 DEF Unfinished, Reserved, NoInBuff
<1>9. ErrorsInv'
  BY <1>1, <1>2, <1>3, <1>5, <1>6, <1>7 DEF OInv, ErrorsInv
<1>10. ASSUME Right
       PROVE  Right'
  <2>1. \A k : JobUnits(k)' = JobUnits(k)
    BY <1>2, PartsKept
  <2>2. SourcesInv'
    BY <1>5, <1>7, <1>10, <2>1 DEF Right, SourcesInv
  <2>3. ContentsInv'
    BY <1>1, <1>3, <1>4, <1>6, <1>7, <1>8, <1>10 DEF Right, ContentsInv, Holds
  <2>4. InTurn'
    <3>1. InTurn /\ serialNext \in Nat
      BY <1>10, MainTypesNow DEF Right, TurnsInv
    <3>2. serialNext' <= nextJobID'
      BY <1>1, <3>1 DEF InTurn
    <3> QED BY <1>1, <1>2, <1>5, <1>7, <3>1, <3>2 DEF InTurn, Working, BeforeTurn
  <2>5. BlocksInv'
    BY <1>2, <1>5, <1>7, <1>10 DEF Right, BlocksInv
  <2>6. InWork'
    BY <1>1, <1>2, <1>10 DEF Right, InWork, Working, JobUnits, Reference!JobStart, Reference!JobEnd
  <2>7. OutInv'
    <3>1. \A k : k = doneJobID => JobAt(doneJobID)' = JobAt(k)'
      BY <1>2, CallKept DEF JobAt
    <3>2. OldestFlushed' = OldestFlushed
      BY <1>2, <1>5, <1>7, <3>1 DEF OldestFlushed
    <3>3. UnitsBefore(doneJobID)' = UnitsBefore(doneJobID)
      BY <1>2, <1>6 DEF UnitsBefore, Reference!Lowest
    <3> QED BY <1>1, <1>2, <1>6, <1>10, <3>2, <3>3 DEF Right, OutInv, FrameBlocks, BlockAt
  <2>8. ASSUME WindowInv, ServingInv
        PROVE  WindowInv' /\ ServingInv'
    <3>1. WindowInv'
      BY <1>1, <1>2, <2>8, WindowRight
    <3>2. ldmWindow' = ldmWindow
      BY <1>2 DEF Threads, serialVars
    <3>3. \A k : NextStart(k)' = NextStart(k)
      BY <1>3, <1>4, <1>7 DEF NextStart
    <3>4. \A k : k = serialNext => NextStart(serialNext)' = NextStart(k)'
      BY <1>1, <1>2, CallKept DEF NextStart, JobAt
    <3>5. Unserved' = Unserved
      BY <1>1, <1>5 DEF Unserved
    <3>6. ServingInv'
      BY <1>1, <1>3, <1>6, <1>7, <1>8, <2>8, <3>2, <3>3, <3>4, <3>5
         DEF ServingInv, Follows, Ends, LdmComplete, isOverlapped
    <3> QED BY <3>1, <3>6
  <2> QED BY <1>6, <1>10, <2>2, <2>3, <2>4, <2>5, <2>6, <2>7, <2>8 DEF Right
<1> QED BY <1>1, <1>2, <1>9, <1>10 DEF OInv

(* What changes when main describes a new job.                             *)
LEMMA JobAdded ==
  ASSUME IInv, CreateJob, ~jobReady
  PROVE  /\ Prepared \in Nat /\ Prepared < JobCount /\ Prepared' = Prepared + 1
         /\ Live' = Live \cup {Prepared} /\ Prepared \notin Live /\ Live \subseteq Nat
         /\ doneJobID <= Prepared
         /\ \A k \in Live : /\ k < Prepared /\ JobAt(k)' = JobAt(k)
                            /\ (Completed(JobAt(k))' <=> Completed(JobAt(k)))
         /\ \A k : k = Prepared => JobAt(k)' = PreparedJob
         /\ ~Completed(PreparedJob) /\ Unfinished' = Unfinished \cup {Prepared}
         /\ PreparedJob.src = Span(roundPos, inBuff.filled)
         /\ inBuff.filled = JobUnits(Prepared)
         /\ inBuff.filled \in 1..Section
<1>1. /\ Prepared = nextJobID /\ ~frameEnded
      /\ inBuff.filled > 0 /\ (~EndFrame => inBuff.filled = Section)
      /\ srcOffset + inPos = Prepared * Section + inBuff.filled
      /\ EndFrame => srcOffset + inPos = Total /\ JobCount = Prepared + 1
      /\ Prepared + 1 <= JobCount
  BY JobToPrepare
<1>2. /\ call' = call /\ doneJobID' = doneJobID /\ Prepared' = nextJobID + 1 /\ ~Ended
  BY DispatchFacts
<1>3. Prepared \in Nat /\ JobCount \in Nat /\ doneJobID \in Nat /\ doneJobID <= Prepared
      /\ Live \subseteq Nat /\ \A k \in Live : k >= doneJobID /\ k < Prepared
  BY <1>1, JobSections, PreparedJobs, MainTypesNow DEF FrameTypes
<1>4. /\ \A k \in Live : JobAt(k)' = JobAt(k)
      /\ \A k : k = Prepared => JobAt(k)' = PreparedJob
      /\ PreparedJob.src = Span(roundPos, inBuff.filled) /\ PreparedJob.consumed = 0
  BY PreparedTable
<1>5. Live' = Live \cup {Prepared} /\ Prepared \notin Live
  <2> DEFINE p == Prepared
             d == doneJobID
  <2>1. Live = d .. p - 1 /\ Live' = d' .. p' - 1 /\ d' = d /\ p' = p + 1
    BY <1>1, <1>2 DEF Live
  <2>2. d \in Nat /\ p \in Nat /\ d <= p
    BY <1>3
  <2> HIDE DEF p, d
  <2>3. Live' = d .. p
    BY <2>1, <2>2
  <2>4. Live' = Live \cup {p} /\ p \notin Live
    BY <2>1, <2>2, <2>3
  <2> QED BY <2>4 DEF p
<1>6. \A k \in Live : Completed(JobAt(k))' <=> Completed(JobAt(k))
  BY <1>4 DEF Completed
<1>7. ~Completed(PreparedJob) /\ \A k : k = Prepared => ~Completed(JobAt(k))'
  BY <1>1, <1>4 DEF Completed, Span
<1>8. Unfinished' = Unfinished \cup {Prepared}
  <2>1. Unfinished' = {k \in Live' : ~Completed(JobAt(k))'}
    BY DEF Unfinished
  <2>2. \A k : k \in Unfinished' <=> k \in Unfinished \/ k = Prepared
    BY <1>5, <1>6, <1>7, <2>1 DEF Unfinished
  <2> QED BY <2>2
<1>9. inBuff.filled \in 1..Section
  BY <1>1, RoundSizes
<1>10. inBuff.filled = JobUnits(Prepared)
  <2> DEFINE k == Prepared
             b == k * Section
             n == JobUnits(k)
             f == inBuff.filled
  <2>1. /\ b \in Nat /\ n \in 1..Section
        /\ b + n = Total <=> k = JobCount - 1
        /\ k # JobCount - 1 => n = Section
    <3>1. k \in Nat /\ k < JobCount
      BY <1>1, <1>3
    <3> HIDE DEF k
    <3> QED BY <3>1, MainTypesNow, JobSections DEF b, n
  <2>2. /\ Total \in Nat /\ Section \in Nat /\ f \in 1..Section
        /\ srcOffset + inPos = b + f
    BY <1>1, <1>9, RoundSizes
  <2>3. b + f <= Total
    <3>1. Taken /\ srcOffset \in Nat /\ inPos \in Nat /\ Total \in Nat /\ CallerChunk \in Nat
      BY <1>2, MainTypesNow, RoundSizes
    <3>2. inPos <= ThisChunk /\ ThisChunk <= Total - srcOffset
      BY <3>1 DEF Taken, ThisChunk, Reference!Lowest
    <3>3. srcOffset + inPos <= Total
      <4>1. ThisChunk \in Int
        BY <3>1 DEF ThisChunk, Reference!Lowest
      <4> QED BY <3>1, <3>2, <4>1
    <3> QED BY <2>2, <3>3
  <2>4. EndFrame => b + f = Total /\ k = JobCount - 1
    BY <1>1, <1>3, <2>2
  <2>5. ~EndFrame => f = Section
    BY <1>1
  <2> HIDE DEF k, b, n, f
  <2>6. f = n
    BY <2>1, <2>2, <2>3, <2>4, <2>5
  <2> QED BY <2>6 DEF f, n, k
<1> QED BY <1>1, <1>2, <1>3, <1>4, <1>5, <1>6, <1>7, <1>8, <1>9, <1>10

(* The new job and the prefix of the next hold the units they should.      *)
LEMMA AddedContents ==
  ASSUME IInv, ContentsInv, CreateJob, ~jobReady
  PROVE  ContentsInv'
<1>1. /\ Prepared \in Nat /\ Prepared' = Prepared + 1
      /\ \A k \in Live : JobAt(k)' = JobAt(k)
      /\ \A k : k = Prepared => JobAt(k)' = PreparedJob
      /\ Unfinished' = Unfinished \cup {Prepared}
      /\ PreparedJob.src = Span(roundPos, inBuff.filled)
  BY JobAdded
<1>2. /\ ~frameEnded /\ Reserved /\ inBuff.start = roundPos
      /\ (~EndFrame => inBuff.filled = Section)
  BY JobToPrepare
<1>3. /\ inBuff' = NoInBuff /\ prefix' = NextPrefix /\ frameEnded' = (frameEnded \/ EndFrame)
      /\ PreparedJob.prefix = prefix /\ roundBuff' = roundBuff /\ call' = call
  BY PreparedTable, DispatchFacts DEF CreateJob, PrepareJob
<1>4. Overlap' = Overlap /\ Section' = Section
  BY <1>3, CallKept
<1>5. ASSUME NEW k \in Unfinished'
      PROVE  Holds(JobAt(k).src, k * Section)'
             /\ Holds(JobAt(k).prefix, k * Section - JobAt(k).prefix.size)'
  <2>1. CASE k \in Unfinished
    <3>1. JobAt(k)' = JobAt(k)
      BY <1>1, <2>1 DEF Unfinished
    <3> QED BY <1>3, <1>4, <2>1, <3>1 DEF ContentsInv, Holds
  <2>2. CASE k = Prepared
    <3>1. JobAt(k)' = PreparedJob
      BY <1>1, <2>2
    <3>2. Holds(PreparedJob.src, k * Section)
      BY <1>1, <1>2, <2>2 DEF ContentsInv
    <3>3. Holds(PreparedJob.prefix, k * Section - PreparedJob.prefix.size)
      BY <1>2, <1>3, <2>2 DEF ContentsInv
    <3> QED BY <1>3, <1>4, <3>1, <3>2, <3>3 DEF Holds
  <2> QED BY <1>1, <1>5, <2>1, <2>2
<1>6. ~Reserved'
  BY <1>3 DEF Reserved, NoInBuff
<1>7. ASSUME ~frameEnded'
      PROVE  Holds(prefix, Prepared * Section - prefix.size)'
  <2> DEFINE s == Section
             d == s - Overlap
             b == Prepared * s
  <2>1. ~EndFrame /\ inBuff.filled = s
    BY <1>2, <1>3, <1>7
  <2>2. /\ s \in Nat /\ Overlap \in Nat /\ Overlap <= s /\ roundPos \in Nat
        /\ b \in Nat /\ (Prepared + 1) * s = b + s
    BY <1>1, RoundSizes, Products
  <2>3. prefix' = Span(roundPos + s - Overlap, Overlap)
    <3>1. Reference!Lowest(inBuff.filled, Overlap) = Overlap
      BY <2>1, <2>2 DEF Reference!Lowest
    <3> QED BY <1>2, <1>3, <2>1, <3>1 DEF NextPrefix
  <2>4. Holds(Span(roundPos, s), b)
    BY <1>2, <2>1 DEF ContentsInv
  <2>5. d \in Nat /\ d <= s /\ s - d = Overlap /\ roundPos + s - Overlap = roundPos + d
    BY <2>2
  <2>6. (Prepared * Section)' = b + s
    BY <1>1, <1>4, <2>2
  <2> HIDE DEF s, d, b
  <2>7. Holds(Span(roundPos + d, s - d), b + d)
    BY <2>2, <2>4, <2>5, HoldsRest
  <2>8. prefix' = Span(roundPos + d, s - d)
    BY <2>3, <2>5
  <2>9. (Prepared * Section - prefix.size)' = b + d
    <3>1. prefix'.size = s - d
      BY <2>8 DEF Span
    <3>2. (b + s) - (s - d) = b + d
      BY <2>2, <2>5
    <3> QED BY <2>6, <3>1, <3>2
  <2> QED BY <1>3, <2>7, <2>8, <2>9 DEF Holds
<1> QED BY <1>5, <1>6, <1>7 DEF ContentsInv

(* The new job follows the others and is clear of them and of the window.  *)
LEMMA AddedServing ==
  ASSUME IInv, InTurn, ServingInv, CreateJob, ~jobReady
  PROVE  ServingInv'
<1> DEFINE p == Prepared
           f == inBuff.filled
           src == PreparedJob.src
<1>1. /\ p \in Nat /\ p' = p + 1
      /\ Live' = Live \cup {p} /\ p \notin Live /\ Live \subseteq Nat /\ doneJobID <= p
      /\ \A k \in Live : /\ k < p /\ JobAt(k)' = JobAt(k)
                         /\ (Completed(JobAt(k))' <=> Completed(JobAt(k)))
      /\ \A k : k = p => JobAt(k)' = PreparedJob
      /\ src = Span(roundPos, f) /\ f \in 1..Section
  BY JobAdded
<1>2. /\ UNCHANGED Threads /\ call' = call /\ doneJobID' = doneJobID /\ ~Ended
      /\ p = nextJobID /\ Reserved /\ roundPos + Section <= Capacity
  BY DispatchFacts, JobToPrepare
<1>3. inBuff' = NoInBuff /\ roundPos' = roundPos + f
  BY DEF CreateJob, PrepareJob
<1>4. /\ LdmWindow' = LdmWindow /\ Overlap' = Overlap /\ Section' = Section
      /\ Capacity' = Capacity /\ Total' = Total
  BY <1>2, CallKept
<1>5. serialNext' = serialNext /\ ldmWindow' = ldmWindow
  BY <1>2 DEF Threads, serialVars
<1>6. /\ doneJobID \in Nat /\ serialNext \in Nat /\ doneJobID <= serialNext /\ serialNext <= p
      /\ roundPos \in Nat /\ Section \in Nat /\ f \in Nat /\ f <= Section /\ Capacity \in Nat
      /\ \A k \in Nat : k >= doneJobID /\ k < p => k \in Live
  BY <1>1, <1>2, MainTypesNow, RoundSizes, PreparedJobs DEF InTurn, TurnsInv
<1>7. src.start = roundPos /\ src.size = f /\ Ends(src) = roundPos + f
  BY <1>1 DEF Span, Ends
<1>8. \A k : NextStart(k) = IF k < p THEN JobAt(k).src.start ELSE roundPos
  BY DEF NextStart
<1>9. \A k : NextStart(k)' = IF k < p' THEN JobAt(k)'.src.start ELSE roundPos'
  BY DEF NextStart
<1>10. \A k : k = serialNext => NextStart(serialNext)' = NextStart(k)'
  BY <1>2, <1>5, CallKept DEF NextStart, JobAt
<1> HIDE DEF p, f, src
<1>11. ASSUME NEW k \in Nat, doneJobID <= k, k <= p
       PROVE  NextStart(k)' = NextStart(k)
  <2>1. CASE k < p
    <3>1. k \in Live /\ k < p'
      BY <1>1, <1>6, <1>11, <2>1
    <3> QED BY <1>1, <1>8, <1>9, <2>1, <3>1
  <2>2. CASE k = p
    <3>1. k < p' /\ ~(k < p) /\ JobAt(k)' = PreparedJob
      BY <1>1, <2>2
    <3> QED BY <1>7, <1>8, <1>9, <3>1 DEF src
  <2> QED BY <1>1, <1>11, <2>1, <2>2
<1>12. \A k : k = p + 1 => NextStart(k)' = Ends(src)
  BY <1>1, <1>3, <1>7, <1>9
<1>13. \A k : k \in Unserved' <=> k \in Unserved \/ k = p
  BY <1>1, <1>5, <1>6 DEF Unserved
<1>14. \A k \in Unserved : k \in Live /\ k \in Nat /\ k < p /\ doneJobID <= k /\ JobAt(k)' = JobAt(k)
  BY <1>1, <1>6 DEF Unserved
<1>15. Follows(Ends(ldmWindow.pre), NextStart(serialNext))'
  <2>1. NextStart(serialNext)' = NextStart(serialNext)
    BY <1>6, <1>10, <1>11
  <2> QED BY <1>4, <1>5, <2>1 DEF ServingInv, Follows, Ends
<1>16. LdmComplete(src)
  <2>1. LdmComplete(Span(roundPos, Section))
    BY <1>2 DEF ServingInv
  <2>2. ASSUME NEW x, x.start \in Nat, x.size \in Nat, ~isOverlapped(Span(roundPos, Section), x)
        PROVE  ~isOverlapped(src, x)
    BY <1>6, <1>7, <2>2 DEF isOverlapped, Ends, Span
  <2>3. /\ ldmWindow.ext.start \in Nat /\ ldmWindow.ext.size \in Nat
        /\ ldmWindow.pre.start \in Nat /\ ldmWindow.pre.size \in Nat
    BY MainTypesNow DEF WindowTypes, Within, Pieces
  <2> QED BY <2>1, <2>2, <2>3 DEF LdmComplete
<1>17. ASSUME NEW k \in Unserved'
       PROVE  Follows(Ends(JobAt(k).src), NextStart(k + 1))' /\ LdmComplete(JobAt(k).src)'
  <2>1. CASE k \in Unserved
    <3>1. /\ k \in Nat /\ k < p /\ doneJobID <= k /\ JobAt(k)' = JobAt(k)
      BY <1>14, <2>1
    <3>2. k + 1 \in Nat /\ doneJobID <= k + 1 /\ k + 1 <= p
      BY <1>1, <1>6, <3>1
    <3>3. NextStart(k + 1)' = NextStart(k + 1)
      BY <1>11, <3>2
    <3> QED BY <1>4, <1>5, <2>1, <3>1, <3>3
            DEF ServingInv, Follows, Ends, LdmComplete, isOverlapped
  <2>2. CASE k = p
    <3>1. JobAt(k)' = PreparedJob /\ NextStart(k + 1)' = Ends(src)
      BY <1>1, <1>12, <2>2
    <3> QED BY <1>5, <1>16, <3>1 DEF Follows, Ends, LdmComplete, isOverlapped, src
  <2> QED BY <1>13, <1>17, <2>1, <2>2
<1>18. ASSUME NEW i \in Unserved', NEW k \in Unserved', i < k
       PROVE  ~isOverlapped(JobAt(i).src, JobAt(k).src)'
  <2>1. CASE k \in Unserved
    <3>1. i \in Unserved
      <4>1. i # p
        BY <1>1, <1>14, <1>18, <2>1
      <4> QED BY <1>13, <1>18, <4>1
    <3> QED BY <1>14, <1>18, <2>1, <3>1 DEF ServingInv, isOverlapped, Ends
  <2>2. CASE k = p
    <3>1. i \in Unserved
      BY <1>1, <1>13, <1>18, <2>2
    <3>2. i \in Unfinished
      <4>1. i \in Live /\ i >= serialNext /\ i \in Nat
        BY <1>14, <3>1 DEF Unserved
      <4>2. ~Completed(JobAt(i))
        BY <1>6, <4>1 DEF InTurn
      <4> QED BY <4>1, <4>2 DEF Unfinished
    <3>3. Behind(i) \/ Ahead(i)
      BY <1>2, <3>2, MainTypesNow DEF Geometry, Sides
    <3>4. /\ JobAt(i).src.start \in Nat /\ JobAt(i).src.size \in Nat
          /\ Ends(JobAt(i).src) = JobAt(i).src.start + JobAt(i).src.size
          /\ Low(JobAt(i)) \in Nat /\ Low(JobAt(i)) <= JobAt(i).src.start
      BY <1>2, <3>2, UnfinishedJob
    <3>5. ~isOverlapped(JobAt(i).src, src)
      <4>1. CASE Behind(i)
        BY <1>6, <1>7, <3>4, <4>1 DEF Behind, isOverlapped
      <4>2. CASE Ahead(i)
        <5>1. roundPos + Section <= JobAt(i).src.start
          BY <1>2, <1>6, <3>4, <4>2 DEF Ahead, Frontier
        <5> QED BY <1>6, <1>7, <3>4, <5>1 DEF isOverlapped
      <4> QED BY <3>3, <4>1, <4>2
    <3>6. JobAt(i)' = JobAt(i) /\ JobAt(k)' = PreparedJob
      BY <1>1, <1>14, <2>2, <3>1
    <3> QED BY <3>5, <3>6 DEF isOverlapped, Ends, src
  <2> QED BY <1>13, <1>18, <2>1, <2>2
<1>19. ~Reserved'
  BY <1>3 DEF Reserved, NoInBuff
<1> QED BY <1>15, <1>17, <1>18, <1>19 DEF ServingInv

(* A new job is described, and given to a worker or made to wait for one.  *)
LEMMA PreparedJobKeeps ==
  ASSUME IInv, OInv, CreateJob, ~jobReady
  PROVE  OInv'
<1>1. /\ UNCHANGED <<failed, failures, outcome, roundBuff, out>>
      /\ serialNext' = serialNext /\ wpc' = wpc /\ wseq' = wseq /\ wlast' = wlast
      /\ running' = running
      /\ nextJobID \in Nat /\ doneJobID \in Nat /\ nextJobID' \in Nat
      /\ nextJobID <= nextJobID'
      /\ \A k \in Pool!Queued' : k \in Pool!Queued \/ k = nextJobID
  BY Dispatched
<1>2. /\ UNCHANGED Threads /\ call' = call /\ doneJobID' = doneJobID
      /\ mpc = "create" /\ mpc' = "flush" /\ ~Ended /\ ~Ended'
  BY DispatchFacts
<1>3. /\ Prepared \in Nat
      /\ Live' = Live \cup {Prepared} /\ Prepared \notin Live /\ Live \subseteq Nat
      /\ \A k \in Live : /\ JobAt(k)' = JobAt(k)
                         /\ (Completed(JobAt(k))' <=> Completed(JobAt(k)))
      /\ \A k : k = Prepared => JobAt(k)' = PreparedJob
      /\ ~Completed(PreparedJob)
      /\ PreparedJob.src = Span(roundPos, inBuff.filled)
      /\ inBuff.filled = JobUnits(Prepared)
  BY JobAdded
<1>4. /\ \A s \in TableSlots : s # Slot(Prepared) => jobs'[s] = jobs[s]
      /\ jobs' = [jobs EXCEPT ![Slot(Prepared)] = PreparedJob]
      /\ DOMAIN jobs = TableSlots /\ Slot(Prepared) \in TableSlots
      /\ PreparedJob.src = Span(roundPos, inBuff.filled)
      /\ PreparedJob.consumed = 0 /\ PreparedJob.blocks = <<>>
      /\ PreparedJob.flushed = 0 /\ ~PreparedJob.error
  BY PreparedTable
<1>5. /\ LdmWindow' = LdmWindow /\ Total' = Total /\ Section' = Section
      /\ TableSlots' = TableSlots /\ Slot(Prepared) \in TableSlots
  BY <1>2, <1>4, CallKept
<1>6. ErrorsInv'
  <2>1. ErrorsInv
    BY DEF OInv
  <2>2. (\A s \in TableSlots : ~jobs[s].error) => \A s \in TableSlots' : ~jobs'[s].error
    <3> SUFFICES ASSUME \A s \in TableSlots : ~jobs[s].error, NEW s \in TableSlots
                 PROVE  ~jobs'[s].error
      BY <1>5
    <3>1. CASE s = Slot(Prepared)
      BY <1>4, <3>1
    <3>2. CASE s # Slot(Prepared)
      BY <1>4, <3>2
    <3> QED BY <3>1, <3>2
  <2>3. (\E k \in Live : JobAt(k).error) => \E k \in Live' : JobAt(k)'.error
    BY <1>3
  <2> QED BY <1>1, <1>2, <2>1, <2>2, <2>3 DEF ErrorsInv
<1>7. ASSUME Right
      PROVE  Right'
  <2>1. \A k : JobUnits(k)' = JobUnits(k)
    BY <1>2, PartsKept
  <2>2. SourcesInv'
    <3> SUFFICES ASSUME NEW k \in Live'
                 PROVE  JobAt(k)'.src.size = JobUnits(k)
      BY <2>1 DEF SourcesInv
    <3>1. CASE k \in Live
      BY <1>3, <1>7, <3>1 DEF Right, SourcesInv
    <3>2. CASE k = Prepared
      BY <1>3, <3>2 DEF Span
    <3> QED BY <1>3, <3>1, <3>2
  <2>3. ContentsInv'
    BY <1>7, AddedContents DEF Right
  <2>4. InTurn'
    <3>1. InTurn /\ serialNext \in Nat
      BY <1>7, MainTypesNow DEF Right, TurnsInv
    <3>2. doneJobID' <= serialNext' /\ serialNext' <= nextJobID'
      BY <1>1, <1>2, <3>1 DEF InTurn
    <3>3. \A k \in Live' : Completed(JobAt(k))' => k < serialNext'
      <4>1. \A k : k = Prepared => ~Completed(JobAt(k))'
        BY <1>3 DEF Completed
      <4> QED BY <1>1, <1>3, <3>1, <4>1 DEF InTurn
    <3> QED BY <1>1, <3>1, <3>2, <3>3 DEF InTurn, Working, BeforeTurn
  <2>5. BlocksInv'
    <3> SUFFICES ASSUME NEW k \in Live'
                 PROVE  /\ Len(JobAt(k)'.blocks) = JobAt(k)'.consumed
                        /\ \A c \in 1..JobAt(k)'.consumed :
                             JobAt(k)'.blocks[c] = Reference!Block(call, k, c)
                        /\ k # doneJobID => JobAt(k)'.flushed = 0
      BY <1>2 DEF BlocksInv
    <3>1. CASE k \in Live
      BY <1>3, <1>7, <3>1 DEF Right, BlocksInv
    <3>2. CASE k = Prepared
      BY <1>3, <1>4, <3>2
    <3> QED BY <1>3, <3>1, <3>2
  <2>6. InWork'
    BY <1>1, <1>2, <1>7 DEF Right, InWork, Working, JobUnits, Reference!JobStart, Reference!JobEnd
  <2>7. OutInv'
    <3>1. \A k : k = doneJobID => JobAt(doneJobID)' = JobAt(k)'
      BY <1>2, CallKept DEF JobAt
    <3>2. OldestFlushed' = OldestFlushed
      BY <1>2, <1>3, <1>4, <3>1 DEF OldestFlushed
    <3>3. UnitsBefore(doneJobID)' = UnitsBefore(doneJobID)
      BY <1>2, <1>5 DEF UnitsBefore, Reference!Lowest
    <3> QED BY <1>1, <1>2, <1>5, <1>7, <3>2, <3>3 DEF Right, OutInv, FrameBlocks, BlockAt
  <2>8. ASSUME WindowInv, ServingInv
        PROVE  WindowInv' /\ ServingInv'
    BY <1>1, <1>2, <1>7, <2>8, WindowRight, AddedServing DEF Right
  <2> QED BY <1>5, <1>7, <2>2, <2>3, <2>4, <2>5, <2>6, <2>7, <2>8 DEF Right
<1> QED BY <1>1, <1>2, <1>6, <1>7 DEF OInv

(* ZSTDMT_createCompressionJob                                             *)
LEMMA CreateJobKeeps ==
  ASSUME IInv, OInv, CreateJob
  PROVE  OInv'
BY ReadyJobKeeps, PreparedJobKeeps

-----------------------------------------------------------------------------
(* Main flushes what the oldest job has made.                              *)

(* What a flush changes in the table.                                      *)
LEMMA TableAfterFlush ==
  ASSUME IInv, FlushProduced, doneJobID # nextJobID
  PROVE  /\ doneJobID \in Live /\ doneJobID \in Nat /\ doneJobID < JobCount
         /\ doneJobID < nextJobID /\ nextJobID \in Nat
         /\ Oldest = JobAt(doneJobID) /\ Oldest \in Descriptions /\ Sized(Oldest)
         /\ Advanced(doneJobID) /\ ~Oldest.error
         /\ \A k \in Live : k # doneJobID => JobAt(k)' = JobAt(k)
         /\ \A k : k = doneJobID => JobAt(k)' = AfterFlush(Oldest)
         /\ \A s \in TableSlots : jobs'[s].error = jobs[s].error /\ jobs'[s].src = jobs[s].src
         /\ AfterFlush(Oldest).src = Oldest.src /\ AfterFlush(Oldest).prefix = Oldest.prefix
         /\ AfterFlush(Oldest).consumed = Oldest.consumed
         /\ AfterFlush(Oldest).flushed = Len(Oldest.blocks)
         /\ ~Flushed => AfterFlush(Oldest).blocks = Oldest.blocks
<1> DEFINE o == Slot(doneJobID)
           job == Oldest
           new == AfterFlush(Oldest)
<1>1. /\ call' = call /\ mpc = "flush" /\ ~Oldest.error
      /\ jobs' = [jobs EXCEPT ![o] = new]
  BY DEF FlushProduced, Oldest
<1>2. ~Ended
  BY <1>1 DEF Ended
<1>3. MainTypes /\ FrameTypes /\ JobTypes /\ LiveAdvanced
  BY <1>2, MainTypesNow
<1>4. \A k : Slot(k)' = Slot(k)
  BY <1>1, CallKept
<1>5. /\ doneJobID \in Live /\ doneJobID \in Nat /\ nextJobID \in Nat
      /\ doneJobID < nextJobID /\ doneJobID < JobCount
  <2>1. doneJobID \in Nat /\ nextJobID \in Nat /\ doneJobID < nextJobID
    BY <1>3 DEF FrameTypes
  <2>2. doneJobID \in doneJobID .. nextJobID - 1
    BY <2>1
  <2>3. JobCount \in Nat /\ Prepared \in Nat /\ nextJobID <= Prepared /\ Prepared <= JobCount
    BY <1>3, PreparedJobs, JobSections, MainTypesNow DEF FrameTypes
  <2> QED BY <1>3, <2>1, <2>2, <2>3, PreparedJobs
<1>6. /\ o \in TableSlots /\ job = JobAt(doneJobID) /\ job = jobs[o]
      /\ job \in Descriptions /\ Sized(job) /\ DOMAIN jobs = TableSlots
      /\ \A k \in Live : Slot(k) = o => k = doneJobID
      /\ \A k \in Live : Slot(k) \in TableSlots
  BY <1>3, <1>5, LiveSlots DEF Oldest, JobAt, JobTypes
<1>7. Advanced(doneJobID)
  BY <1>3, <1>5 DEF LiveAdvanced
<1>8. /\ new.src = job.src /\ new.prefix = job.prefix /\ new.consumed = job.consumed
      /\ new.error = job.error /\ new.flushed = Len(job.blocks)
      /\ ~Flushed => new.blocks = job.blocks
  <2>1. CASE Flushed
    <3>1. new = [job EXCEPT !.flushed = Len(job.blocks), !.dst = FALSE, !.blocks = <<>>]
      BY <2>1 DEF AfterFlush
    <3> HIDE DEF job, new
    <3> QED BY <1>6, <2>1, <3>1 DEF Descriptions
  <2>2. CASE ~Flushed
    <3>1. new = [job EXCEPT !.flushed = Len(job.blocks)]
      BY <2>2 DEF AfterFlush
    <3> HIDE DEF job, new
    <3> QED BY <1>6, <2>2, <3>1 DEF Descriptions
  <2> QED BY <2>1, <2>2
<1> HIDE DEF new, o, job
<1>9. \A s \in TableSlots : jobs'[s] = IF s = o THEN new ELSE jobs[s]
  BY <1>1, <1>6
<1>10. \A s \in TableSlots : jobs'[s].error = jobs[s].error /\ jobs'[s].src = jobs[s].src
  BY <1>6, <1>8, <1>9
<1>11. \A k : JobAt(k)' = jobs'[Slot(k)]
  BY <1>4 DEF JobAt
<1>12. \A k \in Live : k # doneJobID => JobAt(k)' = JobAt(k)
  <2> SUFFICES ASSUME NEW k \in Live, k # doneJobID
               PROVE  JobAt(k)' = JobAt(k)
    OBVIOUS
  <2>1. Slot(k) # o /\ Slot(k) \in TableSlots
    BY <1>6
  <2> QED BY <1>9, <1>11, <2>1 DEF JobAt
<1>13. \A k : k = doneJobID => JobAt(k)' = new
  BY <1>6, <1>9, <1>11 DEF o
<1> QED BY <1>1, <1>5, <1>6, <1>7, <1>8, <1>10, <1>12, <1>13 DEF new, job

(* compress() leaves its loop only when the whole frame is flushed.        *)
LEMMA LeavesAtEnd ==
  ASSUME IInv, FlushProduced, mpc' = "free"
  PROVE  ~jobReady /\ frameEnded /\ doneJobID' = nextJobID /\ nextJobID = JobCount
<1>1. FlushLeaves
  BY NothingToFlush, SomeFlushed
<1>2. doneJobID' = nextJobID
  BY <1>1, AfterTheFlush
<1>3. /\ mpc = "flush" /\ call' = call
      /\ \E d : NextCall(d)
  BY DEF FlushProduced
<1>4. Taken /\ FrameTypes
  <2>1. ~Ended
    BY <1>3 DEF Ended
  <2> QED BY <2>1, MainTypesNow
<1>5. PICK d : NextCall(d)
  BY <1>3
<1>6. ChunkOver(d) /\ srcOffset' = srcOffset + ThisChunk /\ srcOffset' >= Total
  BY <1>5 DEF NextCall
<1>7. LastChunk
  BY <1>6 DEF LastChunk
<1>8. NothingRemains(d)
  BY <1>6, <1>7 DEF ChunkOver
<1>9. ~jobReady /\ frameEnded
  BY <1>7, <1>8 DEF NothingRemains, MustFlush
<1>10. nextJobID = JobCount
  BY <1>4, <1>9 DEF Taken, Prepared, FrameTypes
<1> QED BY <1>2, <1>9, <1>10

(* What main flushes is the frame's next blocks.                           *)
LEMMA OutputGrows ==
  ASSUME IInv, SourcesInv, BlocksInv, OutInv, FlushProduced, doneJobID # nextJobID
  PROVE  /\ out' = FrameBlocks(doneJobID * Section + Oldest.consumed)
         /\ Flushed => doneJobID * Section + Oldest.consumed = UnitsBefore(doneJobID + 1)
<1> DEFINE k == doneJobID
           b == k * Section
           blocks == Oldest.blocks
           f == Oldest.flushed
           n == Oldest.consumed
           t == SubSeq(blocks, f + 1, n)
<1>1. /\ k \in Live /\ k \in Nat /\ k < JobCount /\ Oldest = JobAt(k)
      /\ Oldest \in Descriptions /\ Sized(Oldest) /\ Advanced(k)
  BY TableAfterFlush
<1>2. /\ Len(blocks) = n /\ \A c \in 1..n : blocks[c] = Reference!Block(call, k, c)
      /\ Oldest.src.size = JobUnits(k)
  BY <1>1 DEF BlocksInv, SourcesInv
<1>3. /\ n \in Nat /\ n <= Section /\ Section \in Nat /\ f \in Nat /\ f <= n
      /\ blocks \in Seq(Blocks)
  <2>1. blocks \in Seq(Blocks) /\ f \in Nat
    BY <1>1 DEF Descriptions
  <2>2. f <= Len(blocks)
    BY <1>1 DEF Advanced
  <2>3. n \in Nat /\ n <= Oldest.src.size /\ Oldest.src.size <= Section
        /\ Oldest.src.size \in Nat
    BY <1>1, Describing
  <2>4. Section \in Nat
    BY RoundSizes
  <2>5. Len(blocks) = n
    BY <1>2
  <2> HIDE DEF n, f, blocks
  <2>6. n \in Nat /\ n <= Section /\ f <= n
    <3>1. n \in Nat /\ n <= Oldest.src.size
      BY <2>3 DEF n
    <3>2. f <= n
      BY <2>2, <2>5 DEF f, blocks
    <3> QED BY <2>3, <2>4, <3>1, <3>2
  <2> QED BY <2>1, <2>4, <2>6 DEF f, blocks
<1>4. b \in Nat /\ UnitsBefore(k) = b /\ UnitsBefore(k + 1) = b + JobUnits(k)
  <2> HIDE DEF k
  <2> QED BY <1>1, MainTypesNow, JobSections DEF b
<1>5. out = FrameBlocks(b + f)
  BY <1>1, <1>4 DEF OutInv, OldestFlushed
<1>6. out' = out \o t
  BY <1>2 DEF FlushProduced
<1>7. blocks = [c \in 1..n |-> blocks[c]]
  <2>1. blocks \in [1 .. Len(blocks) -> Blocks]
    BY <1>3, LenProperties
  <2> HIDE DEF blocks, n
  <2> QED BY <1>2, <2>1
<1>8. t = [c \in 1 .. n - f |-> blocks[f + c]]
  <2> HIDE DEF blocks, n, f
  <2> QED BY <1>3, <1>7, Cut
<1>9. Flushed => b + n = UnitsBefore(k + 1)
  BY <1>2, <1>4 DEF Flushed, Completed
<1> HIDE DEF blocks, n, f, t, k
<1>10. /\ t = [c \in 1 .. n - f |-> t[c]]
       /\ \A c \in 1 .. n - f : t[c] = Reference!Block(call, k, f + c)
  <2>1. \A c \in 1 .. n - f : t[c] = blocks[f + c] /\ f + c \in 1..n
    BY <1>3, <1>8
  <2>2. t = [c \in 1 .. n - f |-> t[c]]
    BY <1>8, <2>1
  <2> QED BY <1>2, <2>1, <2>2
<1>11. n - f \in Nat /\ f + (n - f) <= Section /\ (b + f) + (n - f) = b + n
  BY <1>3, <1>4
<1>12. Extends(t, b + f, n - f)
  <2> DEFINE m == n - f
  <2> HIDE DEF m
  <2>1. /\ m \in Nat /\ f + m <= Section /\ t = [c \in 1..m |-> t[c]]
        /\ \A c \in 1..m : t[c] = Reference!Block(call, k, f + c)
    BY <1>10, <1>11 DEF m
  <2>2. Extends(t, k * Section + f, m)
    BY <1>1, <1>3, <2>1, MainTypesNow, FrameGrows
  <2> QED BY <2>2 DEF m
<1>13. out \o t = FrameBlocks(b + n)
  BY <1>5, <1>11, <1>12 DEF Extends
<1> QED BY <1>6, <1>9, <1>13 DEF k, n

(* A flush, whether or not there is something to flush.                    *)
LEMMA FlushRight ==
  ASSUME IInv, Right, FlushProduced, doneJobID # nextJobID
  PROVE  Right'
<1> DEFINE d == doneJobID
           new == AfterFlush(Oldest)
<1>1. /\ d \in Live /\ d \in Nat /\ d < JobCount /\ d < nextJobID /\ nextJobID \in Nat
      /\ Oldest = JobAt(d) /\ Oldest \in Descriptions /\ Sized(Oldest)
      /\ Advanced(d) /\ ~Oldest.error
      /\ \A k \in Live : k # d => JobAt(k)' = JobAt(k)
      /\ \A k : k = d => JobAt(k)' = new
      /\ \A s \in TableSlots : jobs'[s].error = jobs[s].error /\ jobs'[s].src = jobs[s].src
      /\ new.src = Oldest.src /\ new.prefix = Oldest.prefix
      /\ new.consumed = Oldest.consumed
      /\ new.flushed = Len(Oldest.blocks)
      /\ ~Flushed => new.blocks = Oldest.blocks
  BY TableAfterFlush
<1>2. /\ UNCHANGED Threads /\ call' = call /\ mpc = "flush" /\ inBuff' = inBuff
      /\ prefix' = prefix /\ roundBuff' = roundBuff /\ roundPos' = roundPos
      /\ nextJobID' = nextJobID /\ jobReady' = jobReady /\ frameEnded' = frameEnded
      /\ queue' = queue
      /\ doneJobID' = IF Flushed THEN d + 1 ELSE d
  BY DEF FlushProduced, Threads, inputVars, serialVars, workerVars, poolVars
<1>3. /\ SourcesInv /\ ContentsInv /\ InTurn /\ BlocksInv /\ InWork /\ OutInv
      /\ LdmWindow > 0 => WindowInv /\ ServingInv
  BY DEF Right
<1>4. /\ LdmWindow' = LdmWindow /\ Overlap' = Overlap /\ Section' = Section
      /\ Capacity' = Capacity /\ Total' = Total /\ TableSlots' = TableSlots
      /\ \A k : Slot(k)' = Slot(k)
  BY <1>2, CallKept
<1>5. Prepared' = Prepared /\ (Reserved' <=> Reserved)
  BY <1>2 DEF Prepared, Reserved, NoInBuff
<1>6. /\ Live \subseteq Nat /\ Prepared \in Nat /\ \A k \in Live : k >= d /\ k < Prepared
      /\ \A k \in Nat : k >= d /\ k < Prepared => k \in Live
  BY PreparedJobs, MainTypesNow
<1>7. /\ Live' \subseteq Live
      /\ \A k \in Live : k # d => k \in Live'
      /\ Flushed => d \notin Live'
      /\ ~Flushed => Live' = Live
  <2>1. Live' = doneJobID' .. Prepared - 1
    BY <1>5 DEF Live
  <2>2. CASE Flushed
    <3>1. Live' = d + 1 .. Prepared - 1
      BY <1>2, <2>1, <2>2
    <3> HIDE DEF d
    <3> QED BY <1>1, <1>6, <2>2, <3>1
  <2>3. CASE ~Flushed
    BY <1>2, <2>1, <2>3 DEF Live
  <2> QED BY <2>2, <2>3
<1> HIDE DEF d, new
<1>8. \A k \in Live : /\ JobAt(k)'.src = JobAt(k).src /\ JobAt(k)'.prefix = JobAt(k).prefix
                      /\ JobAt(k)'.consumed = JobAt(k).consumed
                      /\ (Completed(JobAt(k))' <=> Completed(JobAt(k)))
  <2>1. \A k \in Live : /\ JobAt(k)'.src = JobAt(k).src /\ JobAt(k)'.prefix = JobAt(k).prefix
                        /\ JobAt(k)'.consumed = JobAt(k).consumed
    BY <1>1
  <2> QED BY <2>1 DEF Completed
<1>9. \A k : JobUnits(k)' = JobUnits(k)
  BY <1>2, PartsKept
<1>10. SourcesInv'
  BY <1>3, <1>7, <1>8, <1>9 DEF SourcesInv
<1>11. ContentsInv'
  <2>1. Unfinished' \subseteq Unfinished /\ \A k \in Unfinished : k \in Live
    BY <1>7, <1>8 DEF Unfinished
  <2> QED BY <1>2, <1>3, <1>4, <1>5, <1>8, <2>1 DEF ContentsInv, Holds
<1>12. Flushed => d < serialNext
  <2>1. Flushed => Completed(JobAt(d))
    BY <1>1 DEF Flushed
  <2> QED BY <1>1, <1>3, <2>1 DEF InTurn
<1>13. /\ serialNext' = serialNext /\ wpc' = wpc /\ wseq' = wseq /\ wlast' = wlast
       /\ running' = running /\ ldmWindow' = ldmWindow /\ serialNext \in Nat
  BY <1>2, MainTypesNow DEF Threads, serialVars, workerVars, TurnsInv
<1>14. InTurn'
  <2>1. doneJobID' <= serialNext'
    BY <1>1, <1>2, <1>3, <1>12, <1>13 DEF InTurn, d
  <2> QED BY <1>2, <1>3, <1>7, <1>8, <1>13, <2>1
          DEF InTurn, Working, BeforeTurn, Pool!Queued
<1>15. BlocksInv'
  <2> SUFFICES ASSUME NEW k \in Live'
               PROVE  /\ Len(JobAt(k)'.blocks) = JobAt(k)'.consumed
                      /\ \A c \in 1..JobAt(k)'.consumed :
                           JobAt(k)'.blocks[c] = Reference!Block(call, k, c)
                      /\ k # doneJobID' => JobAt(k)'.flushed = 0
    BY <1>2 DEF BlocksInv
  <2>1. k \in Live
    BY <1>7
  <2>2. CASE k # d
    BY <1>1, <1>3, <2>1, <2>2 DEF BlocksInv, d
  <2>3. CASE k = d
    <3>1. ~Flushed /\ JobAt(k)' = new /\ doneJobID' = d
      BY <1>1, <1>2, <1>7, <2>3
    <3> QED BY <1>1, <1>3, <2>1, <2>3, <3>1 DEF BlocksInv
  <2> QED BY <2>2, <2>3
<1>16. InWork'
  BY <1>2, <1>3, <1>13 DEF InWork, Working, JobUnits, Reference!JobStart, Reference!JobEnd
<1>17. OutInv'
  <2>1. /\ out' = FrameBlocks(d * Section + Oldest.consumed)
        /\ Flushed => d * Section + Oldest.consumed = UnitsBefore(d + 1)
    BY <1>1, <1>3, OutputGrows DEF d
  <2>2. \A n : FrameBlocks(n)' = FrameBlocks(n)
    BY <1>2, CallKept DEF FrameBlocks, BlockAt
  <2>3. \A k : k = doneJobID' => JobAt(doneJobID)' = JobAt(k)'
    BY <1>4 DEF JobAt
  <2>4. \A k : k = doneJobID' => UnitsBefore(doneJobID)' = UnitsBefore(k)
    BY <1>4 DEF UnitsBefore, Reference!Lowest
  <2>5. d * Section + Oldest.consumed = UnitsBefore(doneJobID)' + OldestFlushed'
    <3>1. CASE Flushed
      <4>1. OldestFlushed' = 0
        <5> SUFFICES ASSUME doneJobID' \in Live'
                     PROVE  JobAt(doneJobID)'.flushed = 0
          BY DEF OldestFlushed
        <5>1. PICK k \in Live' : k = doneJobID'
          OBVIOUS
        <5>2. k \in Live /\ k # d
          BY <1>7, <3>1, <5>1
        <5>3. JobAt(k)' = JobAt(k) /\ JobAt(k).flushed = 0
          BY <1>1, <1>3, <5>2 DEF BlocksInv, d
        <5> QED BY <2>3, <5>1, <5>3
      <4>2. UnitsBefore(doneJobID)' = UnitsBefore(d + 1)
        BY <1>2, <2>4, <3>1
      <4>3. UnitsBefore(d + 1) \in Nat
        <5>1. d + 1 \in Nat
          BY <1>1
        <5> QED BY <5>1, MainTypesNow, JobSections
      <4> QED BY <2>1, <3>1, <4>1, <4>2, <4>3
    <3>2. CASE ~Flushed
      <4>1. OldestFlushed' = new.flushed
        BY <1>1, <1>2, <1>7, <2>3, <3>2 DEF OldestFlushed
      <4>2. new.flushed = Oldest.consumed
        BY <1>1, <1>3 DEF BlocksInv
      <4>3. UnitsBefore(doneJobID)' = UnitsBefore(d)
        BY <1>2, <2>4, <3>2
      <4>4. UnitsBefore(d) = d * Section
        BY <1>1, MainTypesNow, JobSections
      <4> QED BY <4>1, <4>2, <4>3, <4>4
    <3> QED BY <3>1, <3>2
  <2> QED BY <2>1, <2>2, <2>5 DEF OutInv
<1>18. ASSUME WindowInv, ServingInv
       PROVE  WindowInv' /\ ServingInv'
  <2>1. WindowInv'
    BY <1>2, <1>18, WindowRight
  <2>2. ASSUME NEW k \in Nat
        PROVE  JobAt(k)'.src = JobAt(k).src /\ NextStart(k)' = NextStart(k)
    <3>1. Slot(k) \in TableSlots
      BY Sizes, SlotOfJob, MainTypesNow DEF TableSlots
    <3>2. JobAt(k)'.src = JobAt(k).src
      BY <1>1, <1>4, <3>1 DEF JobAt
    <3> QED BY <1>2, <1>5, <3>2 DEF NextStart
  <2>3. \A k : k = serialNext => NextStart(serialNext)' = NextStart(k)'
    BY <1>2, <1>13, CallKept DEF NextStart, JobAt
  <2>4. Unserved' = Unserved
    <3>1. \A k : k \in Live /\ k >= serialNext => k \in Live'
      <4> SUFFICES ASSUME NEW k \in Live, k >= serialNext
                   PROVE  k \in Live'
        OBVIOUS
      <4>1. k \in Nat
        BY <1>6
      <4>2. Flushed => k # d
        BY <1>1, <1>12, <1>13, <4>1
      <4> QED BY <1>7, <4>2
    <3> QED BY <1>7, <1>13, <3>1 DEF Unserved
  <2>5. \A k \in Unserved : k \in Live /\ k \in Nat /\ k + 1 \in Nat
    BY <1>6 DEF Unserved
  <2>6. NextStart(serialNext)' = NextStart(serialNext)
    BY <1>13, <2>2, <2>3
  <2>7. Follows(Ends(ldmWindow.pre), NextStart(serialNext))'
    BY <1>4, <1>13, <1>18, <2>6 DEF ServingInv, Follows, Ends
  <2>8. ASSUME NEW k \in Unserved
        PROVE  Follows(Ends(JobAt(k).src), NextStart(k + 1))' /\ LdmComplete(JobAt(k).src)'
    <3>1. NextStart(k + 1)' = NextStart(k + 1) /\ JobAt(k)'.src = JobAt(k).src
      BY <2>2, <2>5, <2>8
    <3> QED BY <1>4, <1>13, <1>18, <2>8, <3>1 DEF ServingInv, Follows, Ends, LdmComplete, isOverlapped
  <2>9. \A i, k \in Unserved : i < k => ~isOverlapped(JobAt(i).src, JobAt(k).src)'
    BY <1>18, <2>2, <2>5 DEF ServingInv, isOverlapped, Ends
  <2>10. Reserved' => LdmComplete(Span(roundPos, Section))'
    BY <1>2, <1>4, <1>5, <1>13, <1>18 DEF ServingInv, LdmComplete, isOverlapped, Ends
  <2> QED BY <2>1, <2>4, <2>7, <2>8, <2>9, <2>10 DEF ServingInv
<1> QED BY <1>3, <1>4, <1>10, <1>11, <1>14, <1>15, <1>16, <1>17, <1>18 DEF Right

(* ZSTDMT_flushProduced, and what the loop of compress() does after it.    *)
LEMMA FlushProducedKeeps ==
  ASSUME IInv, OInv, FlushProduced
  PROVE  OInv'
<1>1. /\ UNCHANGED Threads /\ call' = call /\ mpc = "flush" /\ ~Ended
      /\ UNCHANGED <<failed, failures, outcome>> /\ ~Oldest.error
      /\ UNCHANGED <<inBuff, prefix, roundBuff, roundPos>>
      /\ nextJobID' = nextJobID /\ jobReady' = jobReady /\ frameEnded' = frameEnded
      /\ cctxPool' = cctxPool /\ queue' = queue
  BY DEF FlushProduced, Threads, inputVars, serialVars, workerVars, poolVars, Ended
<1>2. FlushLeaves
  BY NothingToFlush, SomeFlushed
<1>3. mpc' \in {"scan", "free"}
  BY <1>2, AfterTheFlush
<1>4. /\ LdmWindow' = LdmWindow /\ Total' = Total /\ TableSlots' = TableSlots
      /\ JobCount' = JobCount
  BY <1>1, CallKept
<1>5. ASSUME doneJobID = nextJobID
      PROVE  UNCHANGED Jobs /\ out' = out
  BY <1>1, <1>5 DEF FlushProduced, Jobs
<1>6. ASSUME Right
      PROVE  Right'
  <2>1. CASE doneJobID = nextJobID
    BY <1>1, <1>4, <1>5, <1>6, <2>1, ThreadsRight, InputsRight DEF Right
  <2>2. CASE doneJobID # nextJobID
    BY <1>6, <2>2, FlushRight
  <2> QED BY <2>1, <2>2
<1>7. ASSUME mpc' = "free"
      PROVE  Live' = {} /\ (OutInv' => out' = FrameBlocks(Total)')
  <2>1. ~jobReady /\ frameEnded /\ doneJobID' = nextJobID /\ nextJobID = JobCount
    BY <1>7, LeavesAtEnd
  <2>2. JobCount \in Nat /\ UnitsBefore(JobCount) = Total /\ Total \in Nat
    BY JobSections, CallFacts, MainTypesNow
  <2>3. Live' = {}
    <3>1. Live' = doneJobID' .. Prepared' - 1 /\ Prepared' = nextJobID
      BY <1>1, <2>1, <2>2 DEF Live, Prepared
    <3> QED BY <2>1, <2>2, <3>1
  <2>4. UnitsBefore(doneJobID)' = Total
    <3>1. \A k : k = doneJobID' => UnitsBefore(doneJobID)' = UnitsBefore(k)
      BY <1>1, CallKept DEF UnitsBefore, Reference!Lowest
    <3> QED BY <2>1, <2>2, <3>1
  <2>5. OldestFlushed' = 0
    BY <2>3 DEF OldestFlushed
  <2> QED BY <1>4, <2>2, <2>3, <2>4, <2>5 DEF OutInv
<1>8. ErrorsInv'
  <2>1. ErrorsInv
    BY DEF OInv
  <2>2. \A s \in TableSlots : jobs'[s].error = jobs[s].error
    <3>1. CASE doneJobID = nextJobID
      BY <1>5, <3>1 DEF Jobs
    <3>2. CASE doneJobID # nextJobID
      BY <3>2, TableAfterFlush
    <3> QED BY <3>1, <3>2
  <2>3. ASSUME NEW k \in Live, JobAt(k).error
        PROVE  k \in Live' /\ JobAt(k)'.error /\ ~Ended'
    <3>1. k # doneJobID
      BY <1>1, <2>3 DEF Oldest, JobAt
    <3>2. k \in Live'
      <4>1. /\ k \in Nat /\ k >= doneJobID /\ k < Prepared /\ doneJobID \in Nat /\ Prepared \in Nat
            /\ doneJobID' = doneJobID \/ doneJobID' = doneJobID + 1
        BY <1>2, PreparedJobs, MainTypesNow DEF FlushLeaves, FrameTypes
      <4>2. Prepared' = Prepared
        BY <1>1 DEF Prepared
      <4>3. Live' = doneJobID' .. Prepared - 1
        BY <4>2 DEF Live
      <4> QED BY <3>1, <4>1, <4>3
    <3>3. JobAt(k)'.error
      <4>1. Slot(k) \in TableSlots /\ Slot(k)' = Slot(k)
        BY <1>1, LiveSlots, MainTypesNow, CallKept
      <4> QED BY <2>2, <2>3, <4>1 DEF JobAt
    <3>4. mpc' # "free"
      BY <1>7, <3>2
    <3> QED BY <1>3, <3>2, <3>3, <3>4 DEF Ended
  <2> QED BY <1>1, <1>3, <1>4, <2>1, <2>2, <2>3 DEF ErrorsInv
<1>9. failures' = 0 /\ Ended' => out' = FrameBlocks(Total)'
  <2> SUFFICES ASSUME failures' = 0, Ended'
               PROVE  out' = FrameBlocks(Total)'
    OBVIOUS
  <2>1. Right' /\ mpc' = "free"
    BY <1>1, <1>3, <1>6 DEF OInv, Ended
  <2> QED BY <1>7, <2>1 DEF Right
<1> QED BY <1>1, <1>6, <1>8, <1>9 DEF OInv

-----------------------------------------------------------------------------
(* The invariant holds in every state of the call.                         *)

(* At the start nothing is taken, made or flushed.                         *)
LEMMA OutputAtStart == Init => OInv
<1> SUFFICES ASSUME Init
             PROVE  OInv
  OBVIOUS
<1>1. /\ call \in Calls
      /\ mpc = "start" /\ failed = FALSE
      /\ inBuff = NoInBuff /\ prefix = kNullRange
      /\ roundPos = 0
      /\ doneJobID = 0 /\ nextJobID = 0 /\ jobReady = FALSE
      /\ jobs = [s \in TableSlots |-> UnusedJob]
      /\ serialNext = 0
      /\ ldmState = [ext |-> kNullRange, pre |-> kNullRange]
      /\ ldmWindow = [ext |-> kNullRange, pre |-> kNullRange]
      /\ wpc = [w \in Workers |-> "idle"]
      /\ queue = <<>>
      /\ failures = 0 /\ out = <<>> /\ outcome = "running"
  BY DEF Init, Pool!Init, TableSlots
<1>2. ~Ended
  BY <1>1 DEF Ended
<1>3. Prepared = 0 /\ Live = {} /\ Unfinished = {} /\ Unserved = {}
  BY <1>1 DEF Prepared, Live, Unfinished, Unserved
<1>4. /\ UnitsBefore(0) = 0 /\ Section \in Nat /\ Overlap \in Nat /\ LdmWindow \in Nat
  BY <1>1, JobSections, CallFacts
<1>5. ErrorsInv
  BY <1>1 DEF ErrorsInv, UnusedJob
<1>6. SourcesInv /\ BlocksInv
  BY <1>3 DEF SourcesInv, BlocksInv
<1>7. ContentsInv
  <2>1. ~Reserved
    BY <1>1 DEF Reserved
  <2>2. Holds(prefix, Prepared * Section - prefix.size)
    BY <1>1 DEF Holds, kNullRange, Span
  <2> QED BY <1>3, <2>1, <2>2 DEF ContentsInv
<1>8. InTurn /\ InWork
  BY <1>1, <1>3 DEF InTurn, InWork, Working, Pool!Queued
<1>9. OutInv
  <2>1. FrameBlocks(0) = <<>>
    BY DEF FrameBlocks
  <2>2. OldestFlushed = 0
    BY <1>3 DEF OldestFlushed
  <2> QED BY <1>1, <1>4, <2>1, <2>2 DEF OutInv
<1>10. ASSUME LdmWindow > 0
       PROVE  WindowInv /\ ServingInv
  <2>1. /\ ldmWindow.ext.size = 0 /\ ldmWindow.pre.size = 0 /\ ldmWindow.pre.start = 0
        /\ ldmState = ldmWindow
    BY <1>1 DEF kNullRange, Span
  <2>2. Served = 0
    BY <1>1, <1>4 DEF Served
  <2>3. Holds(ldmWindow.pre, Served - ldmWindow.pre.size)
        /\ Holds(ldmWindow.ext, Served - ldmWindow.pre.size - ldmWindow.ext.size)
    BY <2>1 DEF Holds
  <2>4. Reference!Lowest(Served, LdmWindow) = 0
    BY <1>10, <2>2 DEF Reference!Lowest
  <2>5. WindowInv
    BY <2>1, <2>3, <2>4 DEF WindowInv
  <2>6. Follows(Ends(ldmWindow.pre), NextStart(serialNext))
    BY <1>1, <1>3, <2>1 DEF Follows, Ends, NextStart
  <2>7. ~Reserved
    BY <1>1 DEF Reserved
  <2> QED BY <1>3, <2>5, <2>6, <2>7 DEF ServingInv
<1> QED BY <1>1, <1>2, <1>5, <1>6, <1>7, <1>8, <1>9, <1>10 DEF OInv, Right

(* It is inductive, relative to that of MTCompress_proofs.                 *)
LEMMA NextKeeps == IInv /\ OInv /\ [Next]_vars => OInv'
<1> SUFFICES ASSUME IInv, OInv, [Next]_vars
             PROVE  OInv'
  OBVIOUS
<1>1. CASE StartCall \/ ScanJobs \/ ScanSkipped \/ RangeInUse \/ NoJobToCreate \/ FreeCCtx
  BY <1>1, SmallStepsKeep
<1>2. CASE StartFails \/ FlushError \/ WaitForJob \/ ReleaseAfterError \/ Return
  BY <1>2, EndStepsKeep
<1>3. CASE WrapRange
  BY <1>3, WrapRangeKeeps
<1>4. CASE TakeRange
  BY <1>4, TakeRangeKeeps
<1>5. CASE LoadInput
  BY <1>5, LoadInputKeeps
<1>6. CASE CreateJob
  BY <1>6, CreateJobKeeps
<1>7. CASE FlushProduced
  BY <1>7, FlushProducedKeeps
<1>8. ASSUME NEW w \in Workers, Worker(w)
      PROVE  OInv'
  BY <1>8, WorkersKeep
<1>9. CASE UNCHANGED vars
  BY <1>9, StutteringKeeps
<1> QED BY <1>1, <1>2, <1>3, <1>4, <1>5, <1>6, <1>7, <1>8, <1>9 DEF Next, Main, Terminating

(* In every reachable state, unless something has failed, every job has    *)
(* the units of its section and the history before it in the round buffer, *)
(* the window of long distance matching the units served last, and every   *)
(* block made or flushed is the one the input determines; and an error of  *)
(* a worker is never lost.                                                 *)
THEOREM OutputRight == Spec => []OInv
BY OutputAtStart, NextKeeps, InitEstablishes, NextPreserves, PTL DEF Spec

(* A frame cut short is a prefix of the frame.                             *)
LEMMA FramePrefix ==
  ASSUME NEW n \in Nat, NEW m \in 0..n
  PROVE  IsPrefix(FrameBlocks(m), FrameBlocks(n))
<1> DEFINE S == {BlockAt(i) : i \in 1..n}
           s == FrameBlocks(m)
           t == FrameBlocks(n)
<1>1. \A i \in 1..n : BlockAt(i) \in S
  OBVIOUS
<1>2. s = [i \in 1..m |-> BlockAt(i)] /\ t = [i \in 1..n |-> BlockAt(i)]
  BY DEF FrameBlocks
<1>3. m \in Nat /\ m <= n /\ \A i \in 1..m : i \in 1..n
  OBVIOUS
<1> HIDE DEF S, s, t
<1>4. s \in Seq(S) /\ Len(s) = m
  <2>1. s = [i \in 1..m |-> s[i]] /\ \A i \in 1..m : s[i] \in S
    BY <1>1, <1>2, <1>3
  <2> QED BY <1>3, <2>1, Listed
<1>5. t \in Seq(S) /\ Len(t) = n
  <2>1. t = [i \in 1..n |-> t[i]] /\ \A i \in 1..n : t[i] \in S
    BY <1>1, <1>2
  <2> QED BY <2>1, Listed
<1>6. /\ SubSeq(s, 1, m) \in Seq(S) /\ Len(SubSeq(s, 1, m)) = m
      /\ SubSeq(t, 1, m) \in Seq(S) /\ Len(SubSeq(t, 1, m)) = m
      /\ \A i \in 1..m : SubSeq(s, 1, m)[i] = s[i] /\ SubSeq(t, 1, m)[i] = t[i]
  BY <1>3, <1>4, <1>5
<1>7. \A i \in 1..m : s[i] = t[i]
  BY <1>2, <1>3
<1>8. SubSeq(s, 1, m) = SubSeq(t, 1, m)
  BY <1>3, <1>6, <1>7, SeqEqual
<1> QED BY <1>3, <1>4, <1>5, <1>8 DEF IsPrefix, s, t

(* What is flushed never goes beyond the frame.                            *)
LEMMA OutputIsPrefix == IInv /\ OInv => OutputBeginsFrame
<1> SUFFICES ASSUME IInv, OInv, failures = 0
             PROVE  IsPrefix(out, Reference!Frames[call])
  BY DEF OutputBeginsFrame
<1>1. Reference!Frames[call] = FrameBlocks(Total) /\ Total \in Nat
  BY MainTypesNow, WholeFrame, CallFacts
<1>2. CASE Ended
  <2>1. out = FrameBlocks(Total)
    BY <1>2 DEF OInv
  <2>2. Total \in 0..Total
    BY <1>1
  <2> QED BY <1>1, <2>1, <2>2, FramePrefix
<1>3. CASE ~Ended
  <2> DEFINE k == doneJobID
             m == UnitsBefore(k) + OldestFlushed
  <2>1. SourcesInv /\ BlocksInv /\ out = FrameBlocks(m)
    BY <1>3 DEF OInv, Right, OutInv
  <2>2. k \in Nat
    BY MainTypesNow DEF FrameTypes
  <2>3. m \in 0..Total
    <3>1. CASE k \in Live
      <4>1. /\ k < JobCount /\ JobAt(k) \in Descriptions /\ Sized(JobAt(k)) /\ Advanced(k)
        <5>1. k < Prepared /\ Prepared <= JobCount /\ Prepared \in Nat /\ JobCount \in Nat
          BY <3>1, PreparedJobs, MainTypesNow, JobSections DEF FrameTypes
        <5> QED BY <1>3, <2>2, <3>1, <5>1, LiveSlots, MainTypesNow DEF LiveAdvanced
      <4>2. /\ JobAt(k).flushed \in Nat /\ JobAt(k).flushed <= JobUnits(k)
        <5>1. JobAt(k).flushed \in Nat /\ JobAt(k).flushed <= Len(JobAt(k).blocks)
          BY <4>1 DEF Descriptions, Advanced
        <5>2. Len(JobAt(k).blocks) = JobAt(k).consumed /\ JobAt(k).src.size = JobUnits(k)
          BY <2>1, <3>1 DEF BlocksInv, SourcesInv
        <5>3. JobAt(k).consumed \in Nat /\ JobAt(k).consumed <= JobAt(k).src.size
              /\ JobAt(k).src.size \in Nat
          BY <4>1, Describing
        <5> QED BY <5>1, <5>2, <5>3
      <4>3. m = UnitsBefore(k) + JobAt(k).flushed
        BY <3>1 DEF OldestFlushed
      <4> HIDE DEF k, m
      <4>4. /\ UnitsBefore(k) \in Nat /\ UnitsBefore(k + 1) = UnitsBefore(k) + JobUnits(k)
            /\ JobUnits(k) \in Nat /\ UnitsBefore(k + 1) <= Total
        <5>1. k + 1 \in Nat
          BY <2>2
        <5>2. /\ UnitsBefore(k) \in Nat /\ UnitsBefore(k) = k * Section
              /\ UnitsBefore(k + 1) = k * Section + JobUnits(k) /\ JobUnits(k) \in 1..Section
              /\ Section \in Nat
          BY <2>2, <4>1, MainTypesNow, JobSections, CallFacts
        <5>3. UnitsBefore(k + 1) <= Total
          BY <5>1, MainTypesNow, JobSections
        <5> QED BY <5>2, <5>3
      <4> QED BY <1>1, <4>2, <4>3, <4>4
    <3>2. CASE k \notin Live
      <4>1. OldestFlushed = 0
        BY <3>2 DEF OldestFlushed
      <4>2. UnitsBefore(k) \in Nat /\ UnitsBefore(k) <= Total
        BY <2>2, MainTypesNow, JobSections
      <4> QED BY <1>1, <4>1, <4>2
    <3> QED BY <3>1, <3>2
  <2> HIDE DEF m
  <2> QED BY <1>1, <2>1, <2>3, FramePrefix
<1> QED BY <1>2, <1>3

(* The output is at all times the beginning of the one frame of the input, *)
(* for any number of workers, any sizes and any order of the workers,      *)
(* unless something has failed.                                            *)
THEOREM OutputCorrect == Spec => []OutputBeginsFrame
BY OutputRight, Invariant, OutputIsPrefix, PTL

(* The frame that is promised is the one the workers' blocks belong to.    *)
LEMMA PromisedFrame ==
  ASSUME call \in Calls
  PROVE  Promise!Frames[call] = FrameBlocks(Total)
<1>1. Promise!Frames = Reference!Frames
  BY DEF Promise!Frames, Reference!Frames, Promise!Frame, Reference!Frame,
         Promise!JobCount, Reference!JobCount, Promise!JobBlocks, Reference!JobBlocks,
         Promise!JobEnd, Reference!JobEnd, Promise!JobStart, Reference!JobStart,
         Promise!Block, Reference!Block, Promise!LdmMatches, Reference!LdmMatches,
         Promise!Units, Reference!Units, Promise!Highest, Reference!Highest,
         Promise!Lowest, Reference!Lowest, Promise!FlattenSeq, Reference!FlattenSeq
<1> QED BY <1>1, WholeFrame

(* What the caller has: the output of a call that succeeded.               *)
Returned == IF outcome = "ok" THEN out ELSE <<>>

(* A step is the call's return, with an error or the whole frame, or none  *)
(* that its caller could see.                                              *)
LEMMA StepIsPromised ==
  IInv /\ OInv /\ [Next]_vars => [Promise!Next]_<<call, Returned, outcome>>
<1> SUFFICES ASSUME IInv, OInv, [Next]_vars
             PROVE  Promise!Next \/ UNCHANGED <<call, Returned, outcome>>
  OBVIOUS
<1>1. ErrorsInv
  BY DEF OInv
<1>2. CASE Return
  <2>1. /\ failed' = failed /\ mpc = "join" /\ out' = out /\ call' = call
        /\ outcome' = IF failed THEN "error" ELSE "ok"
    BY <1>2 DEF Return
  <2>2. outcome = "running" /\ Ended
    BY <1>1, <2>1 DEF ErrorsInv, Ended
  <2>3. CASE failed
    <3>1. outcome' = "error"
      BY <2>1, <2>3
    <3> QED BY <2>1, <2>2, <3>1 DEF Promise!Next, Promise!Fail
  <2>4. CASE ~failed
    <3>1. failures = 0
      <4>1. failures \in Nat
        BY CallFacts, MainTypesNow DEF MainTypes
      <4> QED BY <1>1, <2>2, <2>4, <4>1 DEF ErrorsInv
    <3>2. out = Promise!Frames[call]
      <4>1. out = FrameBlocks(Total)
        BY <2>2, <3>1 DEF OInv
      <4> QED BY <4>1, PromisedFrame, MainTypesNow
    <3>3. Promise!Frames' = Promise!Frames
      BY DEF Promise!Frames, Promise!Frame, Promise!JobCount, Promise!JobBlocks, Promise!JobEnd,
             Promise!JobStart, Promise!Block, Promise!LdmMatches, Promise!Units,
             Promise!Highest, Promise!Lowest
    <3>4. outcome' = "ok"
      BY <2>1, <2>4
    <3> QED BY <2>1, <2>2, <3>2, <3>4 DEF Promise!Next, Promise!Finish
  <2> QED BY <2>3, <2>4
<1>3. CASE ~Return
  <2>1. call' = call /\ outcome' = outcome
    BY <1>3 DEF Next, Main, Terminating, vars, callVars, Worker, mainVars,
       StartCall, StartFails, ScanJobs, ScanSkipped, RangeInUse, WrapRange, TakeRange,
       LoadInput, CreateJob, NoJobToCreate, FlushProduced, FlushError, WaitForJob,
       ReleaseAfterError, FreeCCtx, Begin, GetResources, NoResources, GenSequences,
       CompressPiece, CompressLast, CompressFails, EnsureFinished, ReleaseResources, Report, End
  <2>2. ASSUME outcome = "ok"
        PROVE  out' = out
    <3>1. mpc = "returned"
      BY <1>1, <2>2 DEF ErrorsInv
    <3>2. ~FlushProduced
      BY <3>1 DEF FlushProduced
    <3> QED BY <1>3, <3>2 DEF Next, Main, Terminating, vars, callVars, Worker, mainVars,
       StartCall, StartFails, ScanJobs, ScanSkipped, RangeInUse, WrapRange, TakeRange,
       LoadInput, CreateJob, NoJobToCreate, FlushError, WaitForJob,
       ReleaseAfterError, FreeCCtx, Begin, GetResources, NoResources, GenSequences,
       CompressPiece, CompressLast, CompressFails, EnsureFinished, ReleaseResources, Report, End
  <2>3. Returned' = Returned
    BY <2>1, <2>2 DEF Returned
  <2> QED BY <2>1, <2>3
<1> QED BY <1>2, <1>3

(* The multithreaded compression does what compress() promises: it returns *)
(* once, an error or the whole of the frame that the input alone           *)
(* determines, whatever the number of workers.  This is the safety part of *)
(* KeepsPromise; that the call returns is not proved.                      *)
THEOREM ImplementsPromise ==
  Spec => Promise!Init /\ [][Promise!Next]_<<call, Returned, outcome>>
<1>1. Init => Promise!Init
  BY DEF Init, Promise!Init
<1> QED BY <1>1, OutputRight, Invariant, StepIsPromised, PTL DEF Spec
=============================================================================
