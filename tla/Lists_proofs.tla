---------------------------- MODULE Lists_proofs ----------------------------
(***************************************************************************)
(* What the sums of a list and the list of some of its indices are, for    *)
(* lists of any length.                                                    *)
(***************************************************************************)
EXTENDS Lists, FiniteSetTheorems, WellFoundedInduction, TLAPS

-----------------------------------------------------------------------------
(* Induction over the natural numbers, from the well-founded order of the  *)
(* finite sets 0 .. n - 1.                                                 *)

LEMMA LeastElement ==
  ASSUME NEW A \in SUBSET Nat, A # {}
  PROVE  \E m \in A : \A k \in A : m <= k
<1> DEFINE I(n) == 0 .. n - 1
           F == {I(n) : n \in A}
<1>1. F \subseteq FiniteSubsetsOf(Nat) /\ F # {}
  <2>1. \A n \in A : IsFiniteSet(I(n)) /\ I(n) \subseteq Nat
    BY FS_Interval
  <2> QED BY <2>1 DEF FiniteSubsetsOf
<1>2. PICK x \in F : \A y \in F : ~ (<<y, x>> \in StrictSubsetOrdering(Nat))
  BY <1>1, FS_StrictSubsetOrderingWellFounded, WFMin
<1>3. PICK m \in A : x = I(m)
  BY <1>2
<1>4. ASSUME NEW k \in A, k < m
      PROVE  FALSE
  <2>1. I(k) \in SUBSET I(m) /\ I(k) # I(m) /\ I(k) \in F
    <3>1. k \in I(m) /\ k \notin I(k)
      BY <1>4
    <3> QED BY <3>1, <1>4
  <2> QED BY <2>1, <1>2, <1>3, <1>1 DEF StrictSubsetOrdering, FiniteSubsetsOf
<1> QED BY <1>4, <1>3

LEMMA UpTo ==
  ASSUME NEW S, NEW N \in Nat, 0 \in S,
         \A n \in 1..N : n - 1 \in S => n \in S
  PROVE  \A n \in 0..N : n \in S
<1> DEFINE A == {n \in 0..N : n \notin S}
<1>1. CASE A = {}
  BY <1>1
<1>2. CASE A # {}
  <2>0. A \in SUBSET Nat
    OBVIOUS
  <2>1. PICK m \in A : \A k \in A : m <= k
    <3> HIDE DEF A
    <3> QED BY <1>2, <2>0, LeastElement
  <2>2. m # 0 /\ m \in 1..N
    BY <2>1
  <2>3. m - 1 \notin A /\ m - 1 \in 0..N
    BY <2>1, <2>2
  <2> QED BY <2>1, <2>2, <2>3
<1> QED BY <1>1, <1>2

-----------------------------------------------------------------------------
(* Sums of sequences.                                                      *)

LEMMA SumsDefined ==
  ASSUME NEW seq \in Seq(Nat)
  PROVE  Sums(seq) = [n \in 0 .. Len(seq) |->
                        IF n = 0 THEN 0 ELSE Sums(seq)[n - 1] + seq[n]]
<1> DEFINE IsSum(g, n) ==
             g = [k \in 0..n |-> IF k = 0 THEN 0 ELSE g[k - 1] + seq[k]]
           S == {n \in 0 .. Len(seq) : \E g : IsSum(g, n)}
<1>0. Len(seq) \in Nat
  OBVIOUS
<1>1. 0 \in S
  <2> DEFINE g == [k \in 0..0 |-> 0]
  <2>1. IsSum(g, 0)
    OBVIOUS
  <2> HIDE DEF g, IsSum
  <2> QED BY <1>0, <2>1
<1>2. ASSUME NEW n \in 1 .. Len(seq), n - 1 \in S
      PROVE  n \in S
  <2>1. PICK g : IsSum(g, n - 1)
    BY <1>2
  <2> DEFINE h == [k \in 0..n |-> IF k = n THEN g[n - 1] + seq[n] ELSE g[k]]
  <2>2. \A k \in 0..n : h[k] = IF k = 0 THEN 0 ELSE h[k - 1] + seq[k]
    <3> SUFFICES ASSUME NEW k \in 0..n
                 PROVE  h[k] = IF k = 0 THEN 0 ELSE h[k - 1] + seq[k]
      OBVIOUS
    <3>1. CASE k = n
      BY <3>1
    <3>2. CASE k # n
      <4>1. k \in 0 .. n - 1 /\ h[k] = g[k]
        BY <3>2
      <4>2. g[k] = IF k = 0 THEN 0 ELSE g[k - 1] + seq[k]
        BY <2>1, <4>1
      <4>3. k # 0 => h[k - 1] = g[k - 1]
        BY <4>1
      <4> QED BY <4>1, <4>2, <4>3
    <3> QED BY <3>1, <3>2
  <2>3. IsSum(h, n)
    BY <2>2
  <2> HIDE DEF h, IsSum
  <2> QED BY <1>0, <2>3
<1> HIDE DEF S
<1>3. Len(seq) \in S
  <2>1. \A n \in 0 .. Len(seq) : n \in S
    BY <1>0, <1>1, <1>2, UpTo
  <2> QED BY <1>0, <2>1
<1>4. PICK g : IsSum(g, Len(seq))
  BY <1>3 DEF S
<1> QED BY <1>4 DEF Sums

LEMMA SumsOf ==
  ASSUME NEW seq \in Seq(Nat)
  PROVE  /\ Sums(seq)[0] = 0
         /\ \A n \in 1 .. Len(seq) : Sums(seq)[n] = Sums(seq)[n - 1] + seq[n]
         /\ \A n \in 0 .. Len(seq) : Sums(seq)[n] \in Nat
         /\ Total(seq) \in Nat
<1>0. Len(seq) \in Nat /\ \A n \in 1 .. Len(seq) : seq[n] \in Nat
  OBVIOUS
<1>1. /\ Sums(seq)[0] = 0
      /\ \A n \in 1 .. Len(seq) : Sums(seq)[n] = Sums(seq)[n - 1] + seq[n]
  <2> DEFINE s == Sums(seq)
  <2>1. s = [n \in 0 .. Len(seq) |-> IF n = 0 THEN 0 ELSE s[n - 1] + seq[n]]
    BY SumsDefined
  <2> HIDE DEF s
  <2>2. /\ s[0] = 0
        /\ \A n \in 1 .. Len(seq) : s[n] = s[n - 1] + seq[n]
    BY <1>0, <2>1
  <2> QED BY <2>2 DEF s
<1> DEFINE S == {n \in 0 .. Len(seq) : Sums(seq)[n] \in Nat}
<1>2. 0 \in S
  BY <1>0, <1>1
<1>3. \A n \in 1 .. Len(seq) : n - 1 \in S => n \in S
  BY <1>0, <1>1
<1>4. \A n \in 0 .. Len(seq) : n \in S
  <2> HIDE DEF S
  <2> QED BY <1>0, <1>2, <1>3, UpTo
<1> QED BY <1>0, <1>1, <1>4 DEF Total

LEMMA SumsMonotone ==
  ASSUME NEW a \in Seq(Nat), NEW b \in Seq(Nat), Len(a) = Len(b),
         \A i \in 1 .. Len(a) : a[i] <= b[i]
  PROVE  Total(a) <= Total(b)
<1> DEFINE S == {n \in 0 .. Len(a) : Sums(a)[n] <= Sums(b)[n]}
<1>0. Len(a) \in Nat /\ \A i \in 1 .. Len(a) : a[i] \in Nat /\ b[i] \in Nat
  OBVIOUS
<1>1. 0 \in S
  BY <1>0, SumsOf
<1>2. ASSUME NEW n \in 1 .. Len(a), n - 1 \in S
      PROVE  n \in S
  <2>1. /\ Sums(a)[n] = Sums(a)[n - 1] + a[n] /\ Sums(a)[n - 1] \in Nat
        /\ Sums(b)[n] = Sums(b)[n - 1] + b[n] /\ Sums(b)[n - 1] \in Nat
    BY SumsOf
  <2> QED BY <1>0, <1>2, <2>1
<1>3. Len(a) \in S
  <2> HIDE DEF S
  <2>1. \A n \in 0 .. Len(a) : n \in S
    BY <1>0, <1>1, <1>2, UpTo
  <2> QED BY <1>0, <2>1
<1> QED BY <1>3 DEF Total

(* One element more raises the sum by that element.                        *)
LEMMA SumsRaisedAt ==
  ASSUME NEW a \in Seq(Nat), NEW b \in Seq(Nat), Len(a) = Len(b),
         NEW k \in 1 .. Len(a), NEW d \in Nat, b[k] = a[k] + d,
         \A i \in 1 .. Len(a) : i # k => b[i] = a[i]
  PROVE  Total(b) = Total(a) + d
<1> DEFINE Raised(n) == IF k <= n THEN Sums(b)[n] = Sums(a)[n] + d
                                  ELSE Sums(b)[n] = Sums(a)[n]
           S == {n \in 0 .. Len(a) : Raised(n)}
<1>0. Len(a) \in Nat /\ k \in Nat /\ 1 <= k /\ k <= Len(a)
  OBVIOUS
<1>1. 0 \in S
  <2>1. Sums(b)[0] = Sums(a)[0] /\ ~(k <= 0)
    BY <1>0, SumsOf
  <2> QED BY <1>0, <2>1
<1>2. ASSUME NEW n \in 1 .. Len(a), n - 1 \in S
      PROVE  n \in S
  <2>1. a[n] \in Nat /\ b[n] \in Nat /\ n \in Nat /\ n - 1 \in 0 .. Len(a)
    BY <1>0
  <2>2. /\ Sums(a)[n] = Sums(a)[n - 1] + a[n] /\ Sums(a)[n - 1] \in Nat
        /\ Sums(b)[n] = Sums(b)[n - 1] + b[n] /\ Sums(b)[n - 1] \in Nat
    BY <1>0, <2>1, SumsOf
  <2>3. Raised(n - 1)
    BY <1>2
  <2>4. \A u, v \in Nat : (u + d) + v = (u + v) + d /\ u + (v + d) = (u + v) + d
    OBVIOUS
  <2>5. CASE n = k
    <3>1. Sums(b)[n - 1] = Sums(a)[n - 1] /\ b[n] = a[n] + d
      BY <1>0, <2>3, <2>5, <2>1
    <3>2. Sums(b)[n] = Sums(a)[n] + d
      BY <2>2, <2>1, <2>4, <3>1
    <3> QED BY <1>0, <2>5, <2>1, <3>2
  <2>6. CASE n < k
    <3>1. Sums(b)[n - 1] = Sums(a)[n - 1] /\ b[n] = a[n]
      BY <1>0, <2>3, <2>6, <2>1
    <3> QED BY <1>0, <2>2, <2>6, <2>1, <3>1
  <2>7. CASE k < n
    <3>1. Sums(b)[n - 1] = Sums(a)[n - 1] + d /\ b[n] = a[n]
      BY <1>0, <2>3, <2>7, <2>1
    <3>2. Sums(b)[n] = Sums(a)[n] + d
      BY <2>2, <2>1, <2>4, <3>1
    <3> QED BY <1>0, <2>7, <2>1, <3>2
  <2> QED BY <1>0, <2>1, <2>5, <2>6, <2>7
<1>3. Len(a) \in S
  <2> HIDE DEF S
  <2>1. \A n \in 0 .. Len(a) : n \in S
    BY <1>0, <1>1, <1>2, UpTo
  <2> QED BY <1>0, <2>1
<1> QED BY <1>0, <1>3 DEF Total

LEMMA SumsOfZeros ==
  ASSUME NEW a \in Seq(Nat), \A i \in 1 .. Len(a) : a[i] = 0
  PROVE  Total(a) = 0
<1> DEFINE S == {n \in 0 .. Len(a) : Sums(a)[n] = 0}
<1>0. Len(a) \in Nat
  OBVIOUS
<1>1. 0 \in S
  BY <1>0, SumsOf
<1>2. ASSUME NEW n \in 1 .. Len(a), n - 1 \in S
      PROVE  n \in S
  <2>1. Sums(a)[n] = Sums(a)[n - 1] + a[n]
    BY SumsOf
  <2> QED BY <1>0, <1>2, <2>1
<1>3. Len(a) \in S
  <2> HIDE DEF S
  <2>1. \A n \in 0 .. Len(a) : n \in S
    BY <1>0, <1>1, <1>2, UpTo
  <2> QED BY <1>0, <2>1
<1> QED BY <1>3 DEF Total

LEMMA SumsBounded ==
  ASSUME NEW a \in Seq(Nat), \A i \in 1 .. Len(a) : a[i] \in 1..9
  PROVE  Len(a) <= Total(a) /\ Total(a) <= 9 * Len(a)
<1> DEFINE S == {n \in 0 .. Len(a) : n <= Sums(a)[n] /\ Sums(a)[n] <= 9 * n}
<1>0. Len(a) \in Nat
  OBVIOUS
<1>1. 0 \in S
  BY <1>0, SumsOf
<1>2. ASSUME NEW n \in 1 .. Len(a), n - 1 \in S
      PROVE  n \in S
  <2>1. Sums(a)[n] = Sums(a)[n - 1] + a[n] /\ Sums(a)[n - 1] \in Nat
    BY SumsOf
  <2>2. a[n] \in 1..9 /\ n \in Nat
    BY <1>0
  <2>3. n - 1 <= Sums(a)[n - 1] /\ Sums(a)[n - 1] <= 9 * (n - 1)
    BY <1>2
  <2>4. n <= Sums(a)[n] /\ Sums(a)[n] <= 9 * n
    <3>1. \A u, v, w \in Nat : w \in 1..9 /\ u - 1 <= v /\ v <= 9 * (u - 1) =>
                                u <= v + w /\ v + w <= 9 * u
      OBVIOUS
    <3> DEFINE v == Sums(a)[n - 1]
               w == a[n]
    <3>2. v \in Nat /\ w \in 1..9 /\ n - 1 <= v /\ v <= 9 * (n - 1)
          /\ Sums(a)[n] = v + w
      BY <2>1, <2>2, <2>3
    <3> HIDE DEF v, w
    <3>3. n <= v + w /\ v + w <= 9 * n
      BY <2>2, <3>1, <3>2
    <3> QED BY <3>2, <3>3
  <2> QED BY <1>0, <2>4
<1>3. Len(a) \in S
  <2> HIDE DEF S
  <2>1. \A n \in 0 .. Len(a) : n \in S
    BY <1>0, <1>1, <1>2, UpTo
  <2> QED BY <1>0, <2>1
<1> QED BY <1>3 DEF Total

LEMMA SumsAscend ==
  ASSUME NEW a \in Seq(Nat), \A i \in 1 .. Len(a) : a[i] > 0,
         NEW i \in 0 .. Len(a), NEW j \in 0 .. Len(a), i < j
  PROVE  Sums(a)[i] < Sums(a)[j]
<1> DEFINE S == {n \in 0 .. Len(a) : i < n => Sums(a)[i] < Sums(a)[n]}
<1>0. Len(a) \in Nat
  OBVIOUS
<1>1. 0 \in S
  BY <1>0
<1>2. ASSUME NEW n \in 1 .. Len(a), n - 1 \in S
      PROVE  n \in S
  <2>1. /\ Sums(a)[n] = Sums(a)[n - 1] + a[n] /\ Sums(a)[n - 1] \in Nat
        /\ a[n] \in Nat \ {0} /\ Sums(a)[i] \in Nat
    BY SumsOf
  <2>2. CASE i < n - 1
    BY <1>2, <2>1, <2>2
  <2>3. CASE i = n - 1
    BY <2>1, <2>3
  <2>4. CASE i > n - 1
    BY <2>4
  <2> QED BY <2>2, <2>3, <2>4
<1>3. j \in S
  <2> HIDE DEF S
  <2>1. \A n \in 0 .. Len(a) : n \in S
    BY <1>0, <1>1, <1>2, UpTo
  <2> QED BY <1>0, <2>1
<1> QED BY <1>3

-----------------------------------------------------------------------------
(* The indices in a set, in their order.                                   *)

(* Counting the smaller elements maps a finite set of numbers one to one   *)
(* to the first numbers.                                                   *)
LEMMA NthBijective ==
  ASSUME NEW N \in Nat, NEW S \in SUBSET (1 .. N)
  PROVE  /\ IsFiniteSet(S) /\ Cardinality(S) \in Nat
         /\ [n \in 0 .. Cardinality(S) - 1 |-> Nth(S, n)]
              \in Bijection(0 .. Cardinality(S) - 1, S)
         /\ \A m, n \in 0 .. Cardinality(S) - 1 : m < n => Nth(S, m) < Nth(S, n)
<1> DEFINE Below(i) == {j \in S : j < i}
           before(i) == Cardinality(Below(i))
           Ranks == 0 .. Cardinality(S) - 1
           rank == [i \in S |-> before(i)]
           nth == [n \in Ranks |-> Nth(S, n)]
<1>1. IsFiniteSet(S) /\ Cardinality(S) \in Nat
  <2>1. IsFiniteSet(1 .. N)
    BY FS_Interval
  <2> QED BY <2>1, FS_Subset, FS_CardinalityType
<1>2. ASSUME NEW i \in S
      PROVE  IsFiniteSet(Below(i)) /\ before(i) \in Ranks
  <2>1. Below(i) \subseteq S \ {i}
    OBVIOUS
  <2>2. IsFiniteSet(S \ {i}) /\ Cardinality(S \ {i}) = Cardinality(S) - 1
    BY <1>1, FS_RemoveElement
  <2>3. IsFiniteSet(Below(i)) /\ before(i) <= Cardinality(S) - 1
    BY <2>1, <2>2, FS_Subset
  <2>4. before(i) \in Nat
    BY <2>3, FS_CardinalityType
  <2> QED BY <1>1, <2>3, <2>4
<1>3. ASSUME NEW i \in S, NEW j \in S, i < j
      PROVE  before(i) < before(j)
  <2>1. Below(i) \cup {i} \subseteq Below(j)
    <3>1. i \in Int /\ j \in Int /\ S \subseteq Int
      OBVIOUS
    <3>2. i \in Below(j)
      BY <1>3
    <3>3. ASSUME NEW k \in Below(i)
          PROVE  k \in Below(j)
      <4>1. k \in S /\ k < i /\ k \in Int
        BY <3>1
      <4>2. k < j
        BY <1>3, <3>1, <4>1
      <4> QED BY <4>1, <4>2
    <3> HIDE DEF Below
    <3> QED BY <3>2, <3>3
  <2>2. i \notin Below(i)
    OBVIOUS
  <2>3. /\ IsFiniteSet(Below(i)) /\ IsFiniteSet(Below(j))
        /\ before(i) \in Nat /\ before(j) \in Nat
    BY <1>1, <1>2
  <2>4. Cardinality(Below(i) \cup {i}) = before(i) + 1
    BY <2>2, <2>3, FS_AddElement
  <2>5. Cardinality(Below(i) \cup {i}) <= before(j)
    BY <2>1, <2>3, FS_Subset
  <2> QED BY <2>3, <2>4, <2>5
<1>4. rank \in Injection(S, Ranks)
  <2>1. rank \in [S -> Ranks]
    BY <1>2
  <2>2. ASSUME NEW i \in S, NEW j \in S, rank[i] = rank[j]
        PROVE  i = j
    <3>1. before(i) = before(j) /\ before(i) \in Int /\ before(j) \in Int
      BY <1>2, <1>1, <2>2
    <3>2. ~(i < j) /\ ~(j < i)
      BY <1>3, <3>1
    <3> QED BY <3>2
  <2> QED BY <2>1, <2>2 DEF Injection, IsInjective
<1>5. rank \in Surjection(S, Ranks)
  <2>1. IsFiniteSet(Ranks) /\ Cardinality(Ranks) = Cardinality(S)
    <3>1. /\ IsFiniteSet(0 .. Cardinality(S) - 1)
          /\ Cardinality(0 .. Cardinality(S) - 1) =
               IF 0 > Cardinality(S) - 1 THEN 0 ELSE Cardinality(S) - 1 - 0 + 1
      BY <1>1, FS_Interval
    <3> QED BY <1>1, <3>1
  <2> QED BY <1>1, <1>4, <2>1, FS_Injection
<1>6. ASSUME NEW n \in Ranks
      PROVE  nth[n] \in S /\ before(nth[n]) = n
  <2>1. \E i \in S : before(i) = n
    BY <1>5 DEF Surjection
  <2> QED BY <2>1 DEF Nth
<1>7. nth \in Injection(Ranks, S)
  <2>1. nth \in [Ranks -> S]
    BY <1>6
  <2>2. ASSUME NEW m \in Ranks, NEW n \in Ranks, nth[m] = nth[n]
        PROVE  m = n
    <3> HIDE DEF nth
    <3> QED BY <1>6, <2>2
  <2> HIDE DEF nth
  <2> QED BY <2>1, <2>2 DEF Injection, IsInjective
<1>8. nth \in Surjection(Ranks, S)
  <2>1. ASSUME NEW i \in S
        PROVE  \E n \in Ranks : nth[n] = i
    <3> HIDE DEF nth
    <3>1. before(i) \in Ranks
      BY <1>2
    <3>2. nth[before(i)] \in S /\ before(nth[before(i)]) = before(i)
      BY <1>6, <3>1
    <3>3. nth[before(i)] = i
      BY <1>4, <3>2 DEF Injection, IsInjective
    <3> QED BY <3>1, <3>3
  <2> QED BY <1>6, <2>1 DEF Surjection
<1>9. ASSUME NEW m \in Ranks, NEW n \in Ranks, m < n
      PROVE  Nth(S, m) < Nth(S, n)
  <2> DEFINE i == nth[m]
             j == nth[n]
  <2>1. i \in S /\ j \in S /\ before(i) = m /\ before(j) = n
    BY <1>6
  <2>2. i \in Int /\ j \in Int /\ i = Nth(S, m) /\ j = Nth(S, n)
    <3>1. i = Nth(S, m) /\ j = Nth(S, n)
      OBVIOUS
    <3>2. S \subseteq Int
      OBVIOUS
    <3> HIDE DEF i, j
    <3> QED BY <2>1, <3>1, <3>2
  <2> HIDE DEF i, j
  <2>3. i # j /\ ~(j < i)
    BY <1>3, <1>9, <2>1
  <2> QED BY <2>2, <2>3
<1> QED BY <1>1, <1>7, <1>8, <1>9 DEF Bijection

(* Listed has every index of the set.                                      *)
LEMMA ListedIndices ==
  ASSUME NEW N \in Nat, NEW S \in SUBSET (1 .. N)
  PROVE  /\ DOMAIN Listed(S) = 1 .. Cardinality(S) /\ Cardinality(S) \in Nat
         /\ \A k \in DOMAIN Listed(S) : Listed(S)[k] \in S
         /\ \A i \in S : \E k \in DOMAIN Listed(S) : Listed(S)[k] = i
<1> DEFINE Ranks == 0 .. Cardinality(S) - 1
           nth == [n \in Ranks |-> Nth(S, n)]
<1>1. Cardinality(S) \in Nat /\ nth \in Bijection(Ranks, S)
  BY NthBijective
<1>2. DOMAIN Listed(S) = 1 .. Cardinality(S)
  BY DEF Listed
<1>3. ASSUME NEW k \in DOMAIN Listed(S)
      PROVE  k - 1 \in Ranks /\ Listed(S)[k] = nth[k - 1]
  BY <1>1, <1>2 DEF Listed
<1>4. ASSUME NEW n \in Ranks
      PROVE  n + 1 \in DOMAIN Listed(S) /\ Listed(S)[n + 1] = nth[n]
  BY <1>1 DEF Listed
<1> HIDE DEF nth
<1>5. \A k \in DOMAIN Listed(S) : Listed(S)[k] \in S
  BY <1>1, <1>3 DEF Bijection, Injection
<1>6. \A i \in S : \E n \in Ranks : nth[n] = i
  BY <1>1 DEF Bijection, Surjection
<1>7. \A i \in S : \E k \in DOMAIN Listed(S) : Listed(S)[k] = i
  BY <1>4, <1>6
<1> QED BY <1>1, <1>2, <1>5, <1>7
=============================================================================
