------------------------- MODULE ContainerRead_proofs -------------------------
(***************************************************************************)
(* Proofs about the container serializers, their readers and the search in *)
(* a dict, for every input whose numbers are below 2^64: any number and    *)
(* size of elements.                                                       *)
(*                                                                         *)
(* What the serializer computes in passes is a least fixed point: the place*)
(* of the value after a pass never decreases with the place assumed, nor   *)
(* with the size assumed for index_offset, and starts below every fixed    *)
(* point.  So it only ever grows, and there are few values it can grow to. *)
(***************************************************************************)
EXTENDS ContainerRead, Lists_proofs, SequenceTheorems

-----------------------------------------------------------------------------
(* Encoded numbers and the length that counts itself.                      *)

LEMMA EncodedSizes ==
  \A v, w \in Nat : /\ encodedSize(v) \in 1..9
                    /\ v <= w => encodedSize(v) <= encodedSize(w)
BY DEF encodedSize, minBytes

(* 16 times the number takes at most two bytes more.                       *)
LEMMA EncodedSizeOf16 ==
  \A v \in Nat : encodedSize(16 * v) <= encodedSize(v) + 2
BY DEF encodedSize, minBytes

(* The first length that fits is the least that is large enough.           *)
LEMMA LengthFits ==
  ASSUME NEW b \in Nat
  PROVE  /\ LengthBytes(b) \in 1..9
         /\ encodedSize(b + LengthBytes(b)) = LengthBytes(b)
         /\ \A m \in 1..9 : encodedSize(b + m) <= m => LengthBytes(b) <= m
<1> DEFINE S == {l \in 1..9 : encodedSize(b + l) <= l}
<1>1. /\ \A l \in 1..9 : encodedSize(b + l) \in 1..9
      /\ \A l \in 2..9 : encodedSize(b + (l - 1)) <= encodedSize(b + l)
  BY EncodedSizes
<1>2. S \in SUBSET Nat /\ S # {}
  BY <1>1
<1>3. PICK m \in S : \A k \in S : m <= k
  <2> HIDE DEF S
  <2> QED BY <1>2, LeastElement
<1>4. \A l \in 1 .. m - 1 : encodedSize(b + l) > l
  BY <1>1, <1>3
<1>5. encodedSize(b + m) = m
  <2>1. CASE m = 1
    BY <1>1, <1>3, <2>1
  <2>2. CASE m # 1
    <3>1. m \in 2..9 /\ m - 1 \in 1 .. m - 1 /\ m - 1 \in 1..9
      BY <1>3, <2>2
    <3>2. encodedSize(b + (m - 1)) > m - 1
      BY <1>4, <3>1
    <3>3. encodedSize(b + (m - 1)) <= encodedSize(b + m)
      BY <1>1, <3>1
    <3> QED BY <1>1, <1>3, <3>1, <3>2, <3>3
  <2> QED BY <2>1, <2>2
<1> DEFINE First(l) == /\ encodedSize(b + l) = l
                       /\ \A k \in 1 .. l - 1 : encodedSize(b + k) # k
<1>6. m \in 1..9 /\ First(m)
  BY <1>1, <1>3, <1>4, <1>5
<1>7. \A l \in 1..9 : First(l) => l = m
  <2> SUFFICES ASSUME NEW l \in 1..9, First(l) PROVE l = m
    OBVIOUS
  <2>1. l \in S
    BY <1>1
  <2>2. m <= l
    BY <1>3, <2>1
  <2>3. m < l => FALSE
    BY <1>5, <1>6
  <2> QED BY <1>6, <2>2, <2>3
<1>8. LengthBytes(b) = CHOOSE l \in 1..9 : First(l)
  BY DEF LengthBytes
<1>9. LengthBytes(b) = m
  <2> HIDE DEF First
  <2> QED BY <1>6, <1>7, <1>8
<1> QED BY <1>3, <1>5, <1>6, <1>9

LEMMA LengthMonotone ==
  ASSUME NEW b \in Nat, NEW c \in Nat, b <= c
  PROVE  LengthBytes(b) <= LengthBytes(c)
<1> DEFINE l == LengthBytes(c)
<1>1. l \in 1..9 /\ encodedSize(c + l) = l
  BY LengthFits
<1> HIDE DEF l
<1>2. encodedSize(b + l) <= l
  BY <1>1, EncodedSizes
<1> QED BY <1>1, <1>2, LengthFits DEF l

(* A base that is 9 times as large needs at most two bytes more.           *)
LEMMA LengthOf9 ==
  ASSUME NEW b \in Nat, NEW c \in Nat, c <= 9 * b
  PROVE  LengthBytes(c) <= LengthBytes(b) + 2
<1> DEFINE l == LengthBytes(b)
<1>1. l \in 1..9 /\ encodedSize(b + l) = l /\ LengthBytes(c) \in 1..9
  BY LengthFits
<1> HIDE DEF l
<1>2. CASE l + 2 > 9
  BY <1>1, <1>2 DEF l
<1>3. CASE l + 2 <= 9
  <2>1. /\ c + (l + 2) \in Nat /\ 16 * (b + l) \in Nat /\ b + l \in Nat
        /\ c + (l + 2) <= 16 * (b + l)
    BY <1>1
  <2>2. encodedSize(c + (l + 2)) <= encodedSize(16 * (b + l))
    BY <2>1, EncodedSizes
  <2>3. encodedSize(16 * (b + l)) <= l + 2
    BY <1>1, <2>1, EncodedSizeOf16
  <2>4. encodedSize(c + (l + 2)) <= l + 2
    BY <1>1, <2>1, <2>2, <2>3, EncodedSizes
  <2>5. l + 2 \in 1..9
    BY <1>1, <1>3
  <2> QED BY <2>4, <2>5, LengthFits DEF l
<1> QED BY <1>1, <1>2, <1>3

-----------------------------------------------------------------------------
(* A pass as a function of the place v of the value and the size i of      *)
(* index_offset that it assumes.                                           *)

Laid(x, start) == [k \in DOMAIN x.sizes |-> start + Sums(x.sizes)[k - 1]]
CountOf(x) == IF x.kind = "dict" THEN Len(x.keys) ELSE Len(x.sizes)
SizesOf(places) == [k \in DOMAIN places |-> encodedSize(places[k])]
IndexOf(x, start) == encodedSize(CountOf(x)) + Total(SizesOf(Laid(x, start)))
PayloadOf(x, v, i) == i + Total(x.sizes) + IndexOf(x, v + i)
BaseOf(x, v, i) == AttrOverhead(x) + PayloadOf(x, v, i) + x.csum
NextOffset(x, v, i) == AttrOverhead(x) + LengthBytes(BaseOf(x, v, i))

LEMMA InputParts ==
  ASSUME NEW x \in Inputs
  PROVE  /\ x.sizes \in Seq(Nat) /\ x.keys \in Seq(Nat) /\ x.csum \in Nat
         /\ Len(x.sizes) \in Nat /\ DOMAIN x.sizes = 1 .. Len(x.sizes)
         /\ Total(x.sizes) \in Nat /\ AttrOverhead(x) \in Nat
         /\ CountOf(x) \in Nat /\ encodedSize(CountOf(x)) \in 1..9
         /\ x.kind \in Kinds
<1>1. /\ x.sizes \in Seq(Nat) /\ x.keys \in Seq(Nat) /\ x.csum \in Nat
      /\ x.kind \in Kinds
  BY InputsAssumption
<1>2. Total(x.sizes) \in Nat
  BY <1>1, SumsOf
<1>3. encodedSize(DecompressedLength) \in Nat
  BY EncodedSizes DEF DecompressedLength
<1>4. AttrOverhead(x) \in Nat
  BY <1>3 DEF AttrOverhead
<1>5. CountOf(x) \in Nat /\ Len(x.sizes) \in Nat /\ DOMAIN x.sizes = 1 .. Len(x.sizes)
  BY <1>1 DEF CountOf
<1> QED BY <1>1, <1>2, <1>4, <1>5, EncodedSizes

LEMMA LaidParts ==
  ASSUME NEW x \in Inputs, NEW s \in Nat
  PROVE  /\ Laid(x, s) \in Seq(Nat) /\ Len(Laid(x, s)) = Len(x.sizes)
         /\ \A k \in 1 .. Len(x.sizes) :
              /\ Laid(x, s)[k] = s + Sums(x.sizes)[k - 1]
              /\ Sums(x.sizes)[k - 1] \in Nat
         /\ SizesOf(Laid(x, s)) \in Seq(Nat)
         /\ Len(SizesOf(Laid(x, s))) = Len(x.sizes)
         /\ \A k \in 1 .. Len(x.sizes) :
              /\ SizesOf(Laid(x, s))[k] = encodedSize(Laid(x, s)[k])
              /\ SizesOf(Laid(x, s))[k] \in 1..9
<1> DEFINE n == Len(x.sizes)
<1>1. n \in Nat /\ DOMAIN x.sizes = 1..n /\ x.sizes \in Seq(Nat)
  BY InputParts
<1>2. \A k \in 1..n : Sums(x.sizes)[k - 1] \in Nat
  BY <1>1, SumsOf
<1>3. Laid(x, s) \in [1..n -> Nat]
  BY <1>1, <1>2 DEF Laid
<1>4. /\ Laid(x, s) \in Seq(Nat) /\ Len(Laid(x, s)) = n
      /\ \A k \in 1..n : /\ Laid(x, s)[k] \in Nat
                          /\ Laid(x, s)[k] = s + Sums(x.sizes)[k - 1]
  BY <1>1, <1>3 DEF Laid
<1>5. SizesOf(Laid(x, s)) \in [1..n -> 1..9]
  BY <1>1, <1>3, <1>4, EncodedSizes DEF SizesOf
<1>6. SizesOf(Laid(x, s)) \in Seq(Nat) /\ Len(SizesOf(Laid(x, s))) = n
  <2>1. SizesOf(Laid(x, s)) \in [1..n -> Nat]
    BY <1>5
  <2> QED BY <1>1, <2>1
<1>7. \A k \in 1..n : SizesOf(Laid(x, s))[k] = encodedSize(Laid(x, s)[k])
  BY <1>1, <1>3 DEF SizesOf
<1> QED BY <1>1, <1>2, <1>4, <1>5, <1>6, <1>7

LEMMA IndexGrows ==
  ASSUME NEW x \in Inputs, NEW s \in Nat, NEW t \in Nat
  PROVE  /\ IndexOf(x, s) \in Nat
         /\ s <= t => IndexOf(x, s) <= IndexOf(x, t)
         /\ IndexOf(x, t) <= 9 * IndexOf(x, s)
<1> DEFINE a == SizesOf(Laid(x, s))
           b == SizesOf(Laid(x, t))
           c == encodedSize(CountOf(x))
           n == Len(x.sizes)
<1>1. /\ a \in Seq(Nat) /\ b \in Seq(Nat) /\ Len(a) = n /\ Len(b) = n
      /\ n \in Nat /\ c \in 1..9
      /\ \A k \in 1..n : a[k] \in 1..9 /\ b[k] \in 1..9
  BY LaidParts, InputParts
<1>2. s <= t => \A k \in 1..n : a[k] <= b[k]
  <2> SUFFICES ASSUME s <= t, NEW k \in 1..n PROVE a[k] <= b[k]
    OBVIOUS
  <2>1. /\ a[k] = encodedSize(Laid(x, s)[k]) /\ b[k] = encodedSize(Laid(x, t)[k])
        /\ Laid(x, s)[k] = s + Sums(x.sizes)[k - 1]
        /\ Laid(x, t)[k] = t + Sums(x.sizes)[k - 1]
        /\ Sums(x.sizes)[k - 1] \in Nat
    BY LaidParts
  <2>2. /\ Laid(x, s)[k] \in Nat /\ Laid(x, t)[k] \in Nat
        /\ Laid(x, s)[k] <= Laid(x, t)[k]
    BY <2>1
  <2> QED BY <2>1, <2>2, EncodedSizes
<1>3. IndexOf(x, s) = c + Total(a) /\ IndexOf(x, t) = c + Total(b)
  BY DEF IndexOf
<1> HIDE DEF a, b, c, n
<1>4. s <= t => Total(a) <= Total(b)
  BY <1>1, <1>2, SumsMonotone
<1>5. Total(a) \in Nat /\ Total(b) \in Nat
  BY <1>1, SumsOf
<1>6. n <= Total(a) /\ Total(b) <= 9 * n
  BY <1>1, SumsBounded
<1> QED BY <1>1, <1>3, <1>4, <1>5, <1>6

(* A pass gives more for more, and at most two bytes more than the first.  *)
LEMMA NextGrows ==
  ASSUME NEW x \in Inputs, NEW v \in Nat, NEW i \in Nat
  PROVE  /\ BaseOf(x, v, i) \in Nat
         /\ NextOffset(x, v, i) \in Nat
         /\ AttrOverhead(x) < NextOffset(x, v, i)
         /\ \A w \in Nat, j \in Nat :
              v <= w /\ i <= j => NextOffset(x, v, i) <= NextOffset(x, w, j)
         /\ \A w \in Nat : NextOffset(x, w, i) <= NextOffset(x, v, i) + 2
<1>1. /\ AttrOverhead(x) \in Nat /\ Total(x.sizes) \in Nat /\ x.csum \in Nat
  BY InputParts
<1>2. \A w \in Nat, j \in Nat : /\ IndexOf(x, w + j) \in Nat
                               /\ BaseOf(x, w, j) \in Nat
                               /\ LengthBytes(BaseOf(x, w, j)) \in 1..9
  <2> SUFFICES ASSUME NEW w \in Nat, NEW j \in Nat
               PROVE  /\ IndexOf(x, w + j) \in Nat
                      /\ BaseOf(x, w, j) \in Nat
                      /\ LengthBytes(BaseOf(x, w, j)) \in 1..9
    OBVIOUS
  <2>1. IndexOf(x, w + j) \in Nat
    BY IndexGrows
  <2>2. BaseOf(x, w, j) \in Nat
    BY <1>1, <2>1 DEF BaseOf, PayloadOf
  <2> QED BY <2>1, <2>2, LengthFits
<1>3. ASSUME NEW w \in Nat, NEW j \in Nat, v <= w, i <= j
      PROVE  NextOffset(x, v, i) <= NextOffset(x, w, j)
  <2>1. v + i \in Nat /\ w + j \in Nat /\ v + i <= w + j
    BY <1>3
  <2>2. IndexOf(x, v + i) <= IndexOf(x, w + j)
    BY <2>1, IndexGrows
  <2>3. BaseOf(x, v, i) <= BaseOf(x, w, j)
    BY <1>1, <1>2, <1>3, <2>2 DEF BaseOf, PayloadOf
  <2> DEFINE l == LengthBytes(BaseOf(x, v, i))
             m == LengthBytes(BaseOf(x, w, j))
  <2>4. l <= m /\ l \in 1..9 /\ m \in 1..9
    BY <1>2, <2>3, LengthMonotone
  <2>5. /\ NextOffset(x, v, i) = AttrOverhead(x) + l
        /\ NextOffset(x, w, j) = AttrOverhead(x) + m
    BY DEF NextOffset
  <2> HIDE DEF l, m
  <2> QED BY <1>1, <2>4, <2>5
<1>4. ASSUME NEW w \in Nat
      PROVE  NextOffset(x, w, i) <= NextOffset(x, v, i) + 2
  <2>1. v + i \in Nat /\ w + i \in Nat
    OBVIOUS
  <2>2. IndexOf(x, w + i) <= 9 * IndexOf(x, v + i)
    BY <2>1, IndexGrows
  <2>3. BaseOf(x, w, i) <= 9 * BaseOf(x, v, i)
    BY <1>1, <1>2, <2>2 DEF BaseOf, PayloadOf
  <2> DEFINE l == LengthBytes(BaseOf(x, v, i))
             m == LengthBytes(BaseOf(x, w, i))
  <2>4. m <= l + 2 /\ l \in 1..9 /\ m \in 1..9
    BY <1>2, <2>3, LengthOf9
  <2>5. /\ NextOffset(x, v, i) = AttrOverhead(x) + l
        /\ NextOffset(x, w, i) = AttrOverhead(x) + m
    BY DEF NextOffset
  <2> HIDE DEF l, m
  <2> QED BY <1>1, <2>4, <2>5
<1>5. NextOffset(x, v, i) \in Nat /\ AttrOverhead(x) < NextOffset(x, v, i)
  <2> DEFINE l == LengthBytes(BaseOf(x, v, i))
  <2>1. l \in 1..9 /\ NextOffset(x, v, i) = AttrOverhead(x) + l
    BY <1>2 DEF NextOffset
  <2> HIDE DEF l
  <2> QED BY <1>1, <2>1
<1> QED BY <1>2, <1>3, <1>4, <1>5

LEMMA NextMonotone ==
  \A x \in Inputs : \A v, w, i, j \in Nat :
    /\ NextOffset(x, v, i) \in Nat
    /\ v <= w /\ i <= j => NextOffset(x, v, i) <= NextOffset(x, w, j)
BY NextGrows

LEMMA NextNear ==
  \A x \in Inputs : \A v, w, i \in Nat :
    NextOffset(x, w, i) <= NextOffset(x, v, i) + 2
BY NextGrows

-----------------------------------------------------------------------------
(* The inductive invariant.                                                *)

Fits(v, i) == NextOffset(input, v, i) <= v

(* No place that fits is below the one reached so far, and none would make *)
(* index_offset shorter than assumed.                                      *)
BelowAll ==
  \A v \in Nat : Fits(v, iSize) =>
    valOffset <= v /\ iSize <= encodedSize(v + iSize + DataSize)

Beginning ==
  /\ outer = 0 /\ inner = 0 /\ iSize = 1 /\ valOffset = 0 /\ total = 0
  /\ indexOffset = 0 /\ offsets = <<>>

StartInv ==
  /\ place \in {"validate", "refused"} => input.kind = "dict" /\ Beginning
  /\ input.kind = "dict" /\ place \notin {"validate", "refused"} => KeysInOrder
  /\ input.kind = "leaf" =>
       /\ place \in {"write", "written"}
       /\ total = computeLPLength(input, DataSize)
       /\ outer = 0 /\ inner = 0 /\ iSize = 0 /\ valOffset = 0
       /\ indexOffset = 0 /\ offsets = <<>>

(* Within the inner loop the place grows by one or more with every pass,   *)
(* and has no room for more than four.                                     *)
InnerInv ==
  place = "inner" =>
    /\ outer < iSize /\ iSize \in 1..9
    /\ valOffset <= NextOffset(input, valOffset, iSize)
    /\ inner = 0 => valOffset = 0
    /\ inner > 0 => NextOffset(input, 0, iSize) + (inner - 1) <= valOffset
    /\ valOffset <= NextOffset(input, 0, iSize) + 2
    /\ inner \in 0..3
    /\ BelowAll
    /\ offsets \in Seq(Nat) /\ indexOffset \in Nat /\ total \in Nat

(* After it the header, the offsets and the length belong together.        *)
SettledInv ==
  place \in {"outer", "write", "written"} /\ input.kind # "leaf" =>
    /\ valOffset = NextOffset(input, valOffset, iSize)
    /\ offsets = Laid(input, valOffset + iSize)
    /\ indexOffset = valOffset + iSize + DataSize
    /\ total = BaseOf(input, valOffset, iSize)
                 + LengthBytes(BaseOf(input, valOffset, iSize))
    /\ iSize \in 1..9 /\ inner \in 0..4
    /\ place = "outer" => outer < iSize /\ BelowAll
    /\ place # "outer" => outer <= iSize /\ iSize = encodedSize(indexOffset)

DataAt == HeaderLength(input, total) +
            (IF input.kind # "leaf" THEN encodedSize(indexOffset) ELSE 0)
WrittenInv ==
  IF place = "written"
  THEN /\ starts = Laid(input, DataAt)
       /\ pos = DataAt + DataSize + input.csum +
                  (IF input.kind # "leaf" THEN IndexSize(offsets) ELSE 0)
  ELSE starts = <<>> /\ pos = 0

Places == {"validate", "inner", "outer", "write", "written", "refused"}
LayoutInv ==
  /\ input \in Inputs /\ place \in Places
  /\ outer \in Nat /\ inner \in Nat /\ iSize \in Nat /\ valOffset \in Nat
  /\ StartInv /\ InnerInv /\ SettledInv /\ WrittenInv

(* The keys left of lo are smaller, those from hi on larger.               *)
SearchInv ==
  /\ wanted \in Nat
  /\ stored # <<>> \/ answer = Searching =>
       stored = input.keys /\ place = "written" /\ input.kind = "dict"
  /\ lo \in 0 .. Len(stored) /\ hi \in 0 .. Len(stored) /\ lo <= hi
  /\ answer \in {Searching, NotFound} \cup 0 .. Len(stored) - 1
  /\ answer = Searching =>
       /\ \A j \in 1..lo : stored[j] < wanted
       /\ \A j \in hi + 1 .. Len(stored) : stored[j] > wanted
  /\ answer >= 0 => stored[answer + 1] = wanted
  /\ answer = NotFound => \A j \in 1 .. Len(stored) : stored[j] # wanted

Inv == LayoutInv /\ SearchInv

-----------------------------------------------------------------------------
(* The serializer.                                                         *)

LEMMA AsOperators ==
  ASSUME input \in Inputs, NEW s
  PROVE  /\ LaidOutFrom(s) = Laid(input, s)
         /\ IndexSize(Laid(input, s)) = IndexOf(input, s)
<1>1. LaidOutFrom(s) = Laid(input, s)
  BY DEF LaidOutFrom, Laid
<1>2. IndexSize(Laid(input, s)) = IndexOf(input, s)
  BY DEF IndexSize, IndexOf, SizesOf, Count, CountOf
<1> QED BY <1>1, <1>2

LEMMA PassComputes ==
  ASSUME input \in Inputs, valOffset \in Nat, iSize \in Nat, InnerPass
  PROVE  /\ offsets' = Laid(input, valOffset + iSize)
         /\ indexOffset' = valOffset + iSize + DataSize
         /\ total' = BaseOf(input, valOffset, iSize)
                      + LengthBytes(BaseOf(input, valOffset, iSize))
         /\ valOffset' = NextOffset(input, valOffset, iSize)
         /\ DataSize \in Nat
<1> DEFINE p == PayloadOf(input, valOffset, iSize)
           b == BaseOf(input, valOffset, iSize)
           l == LengthBytes(b)
<1>1. offsets' = Laid(input, valOffset + iSize)
  BY AsOperators DEF InnerPass
<1>2. iSize + DataSize + IndexSize(offsets') = p
  BY <1>1, AsOperators DEF DataSize, PayloadOf
<1>3. total' = computeLPLength(input, p) /\ valOffset' = ValOffsetFor(total', p)
  BY <1>2 DEF InnerPass
<1>4. total' = b + l
  BY <1>3 DEF computeLPLength, BaseOf
<1>5. valOffset' = total' - p - input.csum
  BY <1>3 DEF ValOffsetFor
<1>6. /\ b = AttrOverhead(input) + p + input.csum
      /\ AttrOverhead(input) \in Nat /\ p \in Nat /\ input.csum \in Nat /\ l \in 1..9
      /\ DataSize \in Nat
  <2>1. /\ AttrOverhead(input) \in Nat /\ input.csum \in Nat /\ DataSize \in Nat
    BY InputParts DEF DataSize
  <2>2. IndexOf(input, valOffset + iSize) \in Nat
    BY IndexGrows
  <2>3. p \in Nat
    BY <2>1, <2>2 DEF PayloadOf, DataSize
  <2>4. l \in 1..9
    BY NextGrows, LengthFits
  <2> QED BY <2>1, <2>3, <2>4 DEF BaseOf
<1>7. NextOffset(input, valOffset, iSize) = AttrOverhead(input) + l
  BY DEF NextOffset
<1>8. indexOffset' = valOffset + iSize + DataSize
  BY DEF InnerPass
<1> HIDE DEF p, b, l
<1>9. valOffset' = AttrOverhead(input) + l
  BY <1>4, <1>5, <1>6
<1> QED BY <1>1, <1>4, <1>6, <1>7, <1>8, <1>9 DEF b, l

LEMMA PassTypes ==
  ASSUME NEW x \in Inputs, NEW v \in Nat, NEW i \in Nat
  PROVE  /\ Laid(x, v + i) \in Seq(Nat)
         /\ BaseOf(x, v, i) + LengthBytes(BaseOf(x, v, i)) \in Nat
<1>1. v + i \in Nat
  OBVIOUS
<1>2. Laid(x, v + i) \in Seq(Nat)
  BY <1>1, LaidParts
<1>3. BaseOf(x, v, i) \in Nat
  BY NextGrows
<1>4. LengthBytes(BaseOf(x, v, i)) \in 1..9
  BY <1>3, LengthFits
<1> QED BY <1>2, <1>3, <1>4

LEMMA LayoutInit == Init => LayoutInv
<1> SUFFICES ASSUME Init PROVE LayoutInv
  OBVIOUS
<1>1. input \in Inputs /\ input.kind \in Kinds
  BY InputParts DEF Init
<1>2. /\ place \in Places /\ place \notin {"outer", "written", "refused"}
      /\ outer \in Nat /\ inner \in Nat /\ iSize \in Nat /\ valOffset \in Nat
  BY <1>1 DEF Init, Places, Kinds
<1>3. StartInv
  BY <1>1 DEF Init, StartInv, Beginning, Kinds
<1>4. place = "inner" => BelowAll /\ NextOffset(input, 0, 1) \in Nat
  <2> SUFFICES ASSUME place = "inner" PROVE BelowAll /\ NextOffset(input, 0, 1) \in Nat
    OBVIOUS
  <2>1. iSize = 1 /\ valOffset = 0 /\ DataSize \in Nat
    BY <1>1, InputParts DEF Init, DataSize
  <2>2. \A v \in Nat : 1 <= encodedSize(v + 1 + DataSize)
    BY <2>1, EncodedSizes
  <2>3. BelowAll
    BY <2>1, <2>2 DEF BelowAll
  <2>4. NextOffset(input, 0, 1) \in Nat
    BY <1>1, NextGrows
  <2> QED BY <2>3, <2>4
<1>5. InnerInv
  BY <1>4 DEF Init, InnerInv
<1>6. SettledInv
  BY <1>1, <1>2 DEF Init, SettledInv, Kinds
<1>7. WrittenInv
  BY <1>2 DEF Init, WrittenInv
<1> QED BY <1>1, <1>2, <1>3, <1>5, <1>6, <1>7 DEF LayoutInv

(* With a larger size of index_offset assumed, and a place none that fits  *)
(* is below, the inner loop begins anew.                                   *)
LEMMA ValidateStep ==
  ASSUME LayoutInv, Validate
  PROVE  LayoutInv'
<1>1. /\ input \in Inputs /\ input.kind = "dict" /\ Beginning
      /\ UNCHANGED <<input, outer, inner, iSize, valOffset, offsets, indexOffset,
                     total, starts, pos>>
      /\ place = "validate"
      /\ \/ place' = "inner" /\ KeysInOrder
         \/ place' = "refused"
  BY DEF Validate, LayoutInv, StartInv
<1>2. starts = <<>> /\ pos = 0
  BY <1>1 DEF LayoutInv, WrittenInv
<1>3. DataSize \in Nat /\ NextOffset(input, 0, 1) \in Nat
  BY <1>1, InputParts, NextGrows DEF DataSize
<1>4. BelowAll'
  <2>1. iSize' = 1 /\ valOffset' = 0 /\ DataSize' = DataSize
    BY <1>1 DEF Beginning, DataSize
  <2>2. \A v \in Nat : 1 <= encodedSize(v + 1 + DataSize)
    BY <1>3, EncodedSizes
  <2> QED BY <2>1, <2>2 DEF BelowAll
<1>5. StartInv'
  BY <1>1 DEF StartInv, Beginning, KeysInOrder
<1>6. InnerInv'
  BY <1>1, <1>3, <1>4 DEF InnerInv, Beginning
<1>7. SettledInv' /\ WrittenInv'
  BY <1>1, <1>2 DEF SettledInv, WrittenInv
<1> QED BY <1>1, <1>5, <1>6, <1>7 DEF LayoutInv, Beginning, Places

(* The place of the value grows, but to no more than any that fits.        *)
LEMMA InnerStep ==
  ASSUME LayoutInv, InnerPass
  PROVE  LayoutInv'
<1> DEFINE v == valOffset
           w == valOffset'
           i == iSize
<1>1. /\ input \in Inputs /\ place = "inner" /\ v \in Nat /\ i \in 1..9
      /\ inner \in 0..3 /\ outer < iSize /\ outer \in Nat
      /\ v <= NextOffset(input, v, i) /\ BelowAll
      /\ inner = 0 => v = 0
      /\ inner > 0 => NextOffset(input, 0, i) + (inner - 1) <= v
      /\ starts = <<>> /\ pos = 0
  BY DEF InnerPass, LayoutInv, InnerInv, WrittenInv
<1>2. /\ offsets' = Laid(input, v + i)
      /\ indexOffset' = v + i + DataSize
      /\ total' = BaseOf(input, v, i) + LengthBytes(BaseOf(input, v, i))
      /\ w = NextOffset(input, v, i) /\ DataSize \in Nat
  BY <1>1, PassComputes
<1>3. /\ UNCHANGED <<input, outer, iSize, starts, pos>> /\ inner' = inner + 1
      /\ place' = IF w = v \/ inner + 1 = 10 THEN "outer" ELSE "inner"
  BY DEF InnerPass, Settled
<1>4. /\ w \in Nat /\ v <= w
      /\ NextOffset(input, 0, i) \in Nat /\ NextOffset(input, 0, i) <= w
      /\ w <= NextOffset(input, 0, i) + 2
      /\ w <= NextOffset(input, w, i)
  <2>1. i \in Nat /\ 0 \in Nat
    BY <1>1
  <2>2. w \in Nat /\ v <= w
    BY <1>1, <1>2, <2>1, NextGrows
  <2>3. /\ NextOffset(input, 0, i) \in Nat
        /\ NextOffset(input, 0, i) <= NextOffset(input, v, i)
        /\ NextOffset(input, v, i) <= NextOffset(input, 0, i) + 2
    BY <1>1, <2>1, NextMonotone, NextNear
  <2>4. NextOffset(input, v, i) <= NextOffset(input, w, i)
    BY <1>1, <2>1, <2>2, NextGrows
  <2> QED BY <1>2, <2>2, <2>3, <2>4
<1>5. BelowAll'
  <2>1. ASSUME NEW x \in Nat, Fits(x, i)
        PROVE  w <= x /\ i <= encodedSize(x + i + DataSize)
    <3>1. v <= x /\ i <= encodedSize(x + i + DataSize)
      BY <1>1, <2>1 DEF BelowAll
    <3>2. NextOffset(input, v, i) <= NextOffset(input, x, i) /\ NextOffset(input, x, i) \in Nat
      <4>1. i \in Nat
        BY <1>1
      <4> QED BY <1>1, <3>1, <4>1, NextMonotone
    <3> QED BY <1>2, <1>4, <2>1, <3>1, <3>2 DEF Fits
  <2>2. DataSize' = DataSize
    BY <1>3 DEF DataSize
  <2> QED BY <1>3, <2>1, <2>2 DEF BelowAll, Fits
<1>6. CASE w = v
  <2>1. place' = "outer"
    BY <1>3, <1>6
  <2>2. DataSize' = DataSize
    BY <1>3 DEF DataSize
  <2>3. SettledInv'
    <3>1. inner' \in 0..4 /\ outer' < iSize' /\ iSize' \in 1..9
      BY <1>1, <1>3
    <3>2. valOffset' = v /\ iSize' = i /\ input' = input
      BY <1>3, <1>6
    <3> QED BY <1>2, <1>5, <2>1, <2>2, <3>1, <3>2 DEF SettledInv
  <2>4. StartInv' /\ InnerInv' /\ WrittenInv'
    BY <1>1, <1>3, <2>1 DEF StartInv, InnerInv, WrittenInv, LayoutInv, KeysInOrder
  <2> QED BY <1>1, <1>3, <1>4, <2>1, <2>3, <2>4 DEF LayoutInv, Places
<1>7. CASE w # v
  <2>1. inner' \in 1..3 /\ NextOffset(input, 0, i) + (inner' - 1) <= w
    BY <1>1, <1>3, <1>4, <1>7
  <2>2. place' = "inner"
    BY <1>3, <1>7, <2>1
  <2>3. InnerInv'
    <3>1. offsets' \in Seq(Nat) /\ indexOffset' \in Nat /\ total' \in Nat
      <4>1. i \in Nat
        BY <1>1
      <4> QED BY <1>1, <1>2, <4>1, PassTypes
    <3> QED BY <1>1, <1>3, <1>4, <1>5, <2>1, <3>1 DEF InnerInv
  <2>4. StartInv' /\ SettledInv' /\ WrittenInv'
    BY <1>1, <1>3, <2>2 DEF StartInv, SettledInv, WrittenInv, LayoutInv, KeysInOrder
  <2> QED BY <1>1, <1>3, <1>4, <2>1, <2>2, <2>3, <2>4 DEF LayoutInv, Places
<1> QED BY <1>6, <1>7

LEMMA OuterStep ==
  ASSUME LayoutInv, OuterPass
  PROVE  LayoutInv'
<1> DEFINE v == valOffset
           i == iSize
           j == iSize'
<1>1. /\ input \in Inputs /\ place = "outer" /\ v \in Nat /\ i \in 1..9
      /\ inner \in 0..4 /\ outer < i /\ outer \in Nat
      /\ input.kind # "leaf" /\ BelowAll
      /\ v = NextOffset(input, v, i) /\ offsets = Laid(input, v + i)
      /\ indexOffset = v + i + DataSize
      /\ total = BaseOf(input, v, i) + LengthBytes(BaseOf(input, v, i))
      /\ starts = <<>> /\ pos = 0
  BY DEF OuterPass, LayoutInv, SettledInv, WrittenInv, StartInv
<1>2. /\ UNCHANGED <<input, offsets, indexOffset, total, starts, pos>>
      /\ outer' = outer + 1 /\ j = encodedSize(indexOffset)
      /\ IF j = i \/ outer + 1 = 10
         THEN place' = "write" /\ UNCHANGED <<inner, valOffset>>
         ELSE place' = "inner" /\ inner' = 0 /\ valOffset' = 0
  BY DEF OuterPass, Settled
<1>3. DataSize \in Nat /\ DataSize' = DataSize
  BY <1>1, <1>2, InputParts DEF DataSize
<1>4. j \in 1..9 /\ i <= j
  <2>1. Fits(v, i)
    BY <1>1 DEF Fits
  <2> QED BY <1>1, <1>2, <1>3, <2>1, EncodedSizes DEF BelowAll
<1>5. CASE j = i
  <2>1. place' = "write" /\ UNCHANGED <<inner, valOffset>>
    BY <1>2, <1>5
  <2>2. SettledInv'
    BY <1>1, <1>2, <1>3, <1>5, <2>1 DEF SettledInv
  <2>3. StartInv' /\ InnerInv' /\ WrittenInv'
    BY <1>1, <1>2, <2>1 DEF StartInv, InnerInv, WrittenInv, LayoutInv, KeysInOrder
  <2> QED BY <1>1, <1>2, <1>5, <2>1, <2>2, <2>3 DEF LayoutInv, Places
<1>6. CASE j # i
  <2>1. /\ outer' < j /\ outer + 1 # 10
        /\ place' = "inner" /\ inner' = 0 /\ valOffset' = 0
    BY <1>1, <1>2, <1>4, <1>6
  <2>2. ASSUME NEW x \in Nat, Fits(x, j)
        PROVE  0 <= x /\ j <= encodedSize(x + j + DataSize)
    <3>1. NextOffset(input, x, i) <= NextOffset(input, x, j)
          /\ NextOffset(input, x, i) \in Nat /\ NextOffset(input, x, j) \in Nat
      <4>1. i \in Nat /\ j \in Nat /\ x <= x /\ i <= j /\ input \in Inputs
        BY <1>1, <1>4
      <4> HIDE DEF i, j
      <4> QED BY <4>1, NextMonotone
    <3>2. Fits(x, i)
      BY <2>2, <3>1 DEF Fits
    <3>3. v <= x
      BY <1>1, <3>2 DEF BelowAll
    <3>4. /\ v + i + DataSize \in Nat /\ x + j + DataSize \in Nat
          /\ v + i + DataSize <= x + j + DataSize
      <4> DEFINE d == DataSize
      <4>1. v \in Nat /\ x \in Nat /\ i \in Nat /\ j \in Nat /\ d \in Nat
            /\ v <= x /\ i <= j
        BY <1>1, <1>3, <1>4, <3>3
      <4> HIDE DEF d, v, i, j
      <4>2. v + i + d \in Nat /\ x + j + d \in Nat /\ v + i + d <= x + j + d
        BY <4>1
      <4> QED BY <4>2 DEF d, v, i, j
    <3>5. encodedSize(v + i + DataSize) <= encodedSize(x + j + DataSize)
      BY <3>4, EncodedSizes
    <3> QED BY <1>1, <1>2, <3>5
  <2>3. BelowAll'
    BY <1>2, <1>3, <2>1, <2>2 DEF BelowAll, Fits
  <2>4. NextOffset(input, 0, j) \in Nat
    <3>1. 0 \in Nat /\ j \in Nat
      BY <1>4
    <3> QED BY <1>1, <3>1, NextGrows
  <2>5. InnerInv'
    <3>1. offsets' \in Seq(Nat) /\ indexOffset' \in Nat /\ total' \in Nat
      <4>1. i \in Nat
        BY <1>1
      <4> QED BY <1>1, <1>2, <1>3, <4>1, PassTypes
    <3> QED BY <1>2, <1>4, <2>1, <2>3, <2>4, <3>1 DEF InnerInv
  <2>6. StartInv' /\ SettledInv' /\ WrittenInv'
    BY <1>1, <1>2, <2>1 DEF StartInv, SettledInv, WrittenInv, LayoutInv, KeysInOrder
  <2> QED BY <1>1, <1>2, <1>4, <2>1, <2>5, <2>6 DEF LayoutInv, Places
<1> QED BY <1>5, <1>6

LEMMA WriteStep ==
  ASSUME LayoutInv, Write
  PROVE  LayoutInv'
<1>1. /\ UNCHANGED <<input, outer, inner, iSize, valOffset, offsets, indexOffset,
                     total>>
      /\ place = "write" /\ place' = "written" /\ input \in Inputs
      /\ starts' = LaidOutFrom(DataAt)
      /\ pos' = DataAt + DataSize + input.csum +
                  (IF input.kind # "leaf" THEN IndexSize(offsets) ELSE 0)
  BY DEF Write, DataAt, LayoutInv
<1>2. starts' = Laid(input, DataAt)
  BY <1>1, AsOperators
<1>3. /\ DataAt' = DataAt /\ DataSize' = DataSize
      /\ IndexSize(offsets)' = IndexSize(offsets)
  BY <1>1 DEF DataAt, DataSize, IndexSize, Count
<1>4. WrittenInv'
  BY <1>1, <1>2, <1>3 DEF WrittenInv
<1>5. StartInv' /\ InnerInv'
  BY <1>1, <1>3 DEF StartInv, InnerInv, LayoutInv, KeysInOrder
<1>6. SettledInv'
  BY <1>1, <1>3 DEF SettledInv, LayoutInv
<1> QED BY <1>1, <1>4, <1>5, <1>6 DEF LayoutInv, Places

LEMMA LayoutStep ==
  ASSUME LayoutInv, Serialize
  PROVE  LayoutInv'
BY ValidateStep, InnerStep, OuterStep, WriteStep DEF Serialize

LEMMA LayoutKept ==
  ASSUME LayoutInv, UNCHANGED layoutVars
  PROVE  LayoutInv'
<1>1. UNCHANGED <<DataSize, DataAt, BelowAll, KeysInOrder, IndexSize(offsets)>>
  BY DEF layoutVars, DataSize, DataAt, BelowAll, Fits, KeysInOrder, IndexSize,
         Count
<1> QED BY <1>1 DEF layoutVars, LayoutInv, StartInv, Beginning, InnerInv,
                    SettledInv, WrittenInv

(* The header that is written is as long as the passes assumed.            *)
LEMMA HeaderFits ==
  ASSUME LayoutInv, place = "written"
  PROVE  /\ input.kind # "leaf" => DataAt = valOffset + iSize
         /\ DataAt \in Nat
         /\ pos = total
<1>1. /\ input \in Inputs /\ valOffset \in Nat /\ iSize \in Nat
      /\ AttrOverhead(input) \in Nat /\ input.csum \in Nat /\ DataSize \in Nat
      /\ pos = DataAt + DataSize + input.csum +
                 (IF input.kind # "leaf" THEN IndexSize(offsets) ELSE 0)
  BY InputParts DEF LayoutInv, WrittenInv, DataSize
<1>2. CASE input.kind # "leaf"
  <2> DEFINE b == BaseOf(input, valOffset, iSize)
             l == LengthBytes(b)
             n == IndexOf(input, valOffset + iSize)
  <2>1. /\ valOffset = AttrOverhead(input) + l
        /\ total = b + l /\ iSize = encodedSize(indexOffset)
        /\ offsets = Laid(input, valOffset + iSize)
    BY <1>2 DEF LayoutInv, SettledInv, NextOffset
  <2>2. b \in Nat /\ l \in 1..9 /\ encodedSize(b + l) = l
    BY <1>1, NextGrows, LengthFits
  <2>3. n \in Nat /\ IndexSize(offsets) = n
    BY <1>1, <2>1, IndexGrows, AsOperators
  <2>4. b = AttrOverhead(input) + (iSize + DataSize + n) + input.csum
    BY DEF BaseOf, PayloadOf, DataSize
  <2> HIDE DEF b, l, n
  <2>5. HeaderLength(input, total) = l + AttrOverhead(input)
    BY <2>1, <2>2 DEF HeaderLength
  <2>6. DataAt = valOffset + iSize
    BY <1>1, <1>2, <2>1, <2>2, <2>5 DEF DataAt
  <2>7. pos = total
    BY <1>1, <1>2, <2>1, <2>2, <2>3, <2>4, <2>6
  <2> QED BY <1>1, <2>6, <2>7
<1>3. CASE input.kind = "leaf"
  <2> DEFINE b == AttrOverhead(input) + DataSize + input.csum
             l == LengthBytes(b)
  <2>1. total = b + l
    BY <1>3 DEF LayoutInv, StartInv, computeLPLength
  <2>2. b \in Nat
    BY <1>1
  <2>3. l \in 1..9 /\ encodedSize(b + l) = l
    BY <2>2, LengthFits
  <2>4. DataAt = l + AttrOverhead(input)
    <3> HIDE DEF b, l
    <3>1. encodedSize(total) = l
      BY <2>1, <2>3
    <3>2. DataAt = HeaderLength(input, total) + 0
      BY <1>3 DEF DataAt
    <3> QED BY <1>1, <2>3, <3>1, <3>2 DEF HeaderLength
  <2> HIDE DEF l
  <2>5. pos = total
    BY <1>1, <1>3, <2>1, <2>3, <2>4
  <2> QED BY <1>1, <1>3, <2>3, <2>4, <2>5
<1> QED BY <1>2, <1>3

LEMMA OffsetsLead ==
  ASSUME LayoutInv, place = "written", input.kind # "leaf"
  PROVE  /\ offsets = starts
         /\ Len(offsets) = Len(input.sizes)
         /\ indexOffset = DataAt + DataSize
         /\ \A k \in 1 .. Len(input.sizes) :
              /\ offsets[k] = DataAt + Sums(input.sizes)[k - 1]
              /\ BoundaryAfter(k) = offsets[k] + input.sizes[k]
<1>1. /\ input \in Inputs /\ offsets = Laid(input, DataAt) /\ DataAt \in Nat
      /\ starts = Laid(input, DataAt) /\ indexOffset = DataAt + DataSize
  BY HeaderFits DEF LayoutInv, SettledInv, WrittenInv
<1>2. /\ Len(offsets) = Len(input.sizes) /\ Len(input.sizes) \in Nat
      /\ input.sizes \in Seq(Nat)
      /\ \A k \in 1 .. Len(input.sizes) :
            offsets[k] = DataAt + Sums(input.sizes)[k - 1]
  BY <1>1, LaidParts, InputParts
<1>3. ASSUME NEW k \in 1 .. Len(input.sizes)
      PROVE  BoundaryAfter(k) = offsets[k] + input.sizes[k]
  <2>1. /\ Sums(input.sizes)[k] = Sums(input.sizes)[k - 1] + input.sizes[k]
        /\ Sums(input.sizes)[k - 1] \in Nat /\ input.sizes[k] \in Nat
    BY <1>2, SumsOf
  <2>2. BoundaryAfter(k) = DataAt + Sums(input.sizes)[k]
    <3>1. CASE k < Len(offsets)
      <4>1. k + 1 \in 1 .. Len(input.sizes) /\ (k + 1) - 1 = k
        BY <1>2, <3>1
      <4>2. offsets[k + 1] = DataAt + Sums(input.sizes)[(k + 1) - 1]
        BY <1>2, <4>1
      <4> QED BY <3>1, <4>1, <4>2 DEF BoundaryAfter
    <3>2. CASE k = Len(offsets)
      BY <1>1, <1>2, <3>2 DEF BoundaryAfter, DataSize, Total
    <3> QED BY <1>2, <3>1, <3>2
  <2> QED BY <1>1, <1>2, <2>1, <2>2
<1> QED BY <1>1, <1>2, <1>3

(* Every key is read at its own place: no two elements begin at the same.  *)
LEMMA KeysRead ==
  ASSUME LayoutInv, place = "written", input.kind = "dict"
  PROVE  [k \in DOMAIN input.keys |-> keyAt(k)] = input.keys
<1> DEFINE n == Len(input.sizes)
<1>1. /\ input.sizes \in Seq(Nat) /\ input.keys \in Seq(Nat) /\ n \in Nat
      /\ n = 2 * Len(input.keys) /\ Len(input.keys) \in Nat
      /\ \A i \in 1..n : input.sizes[i] > 0
      /\ DOMAIN input.keys = 1 .. Len(input.keys)
  BY InputsAssumption DEF LayoutInv
<1>2. /\ offsets = starts /\ DataAt \in Nat
      /\ \A k \in 1..n : starts[k] = DataAt + Sums(input.sizes)[k - 1]
  BY OffsetsLead, HeaderFits
<1>3. ASSUME NEW k \in DOMAIN input.keys
      PROVE  keyAt(k) = input.keys[k]
  <2> DEFINE isKeyAt(j) == starts[2 * j - 1] = offsets[2 * k - 1]
  <2>1. isKeyAt(k)
    BY <1>2
  <2>2. ASSUME NEW j \in DOMAIN input.keys, isKeyAt(j)
        PROVE  j = k
    <3> DEFINE a == 2 * j - 2
               b == 2 * k - 2
    <3>1. /\ a \in 0..n /\ b \in 0..n /\ a + 1 \in 1..n /\ b + 1 \in 1..n
          /\ a + 1 = 2 * j - 1 /\ b + 1 = 2 * k - 1
          /\ (a + 1) - 1 = a /\ (b + 1) - 1 = b /\ (a = b => j = k)
      <4> DEFINE m == Len(input.keys)
      <4>1. m \in Nat /\ n = 2 * m /\ j \in 1..m /\ k \in 1..m
        BY <1>1
      <4> HIDE DEF m, n
      <4> QED BY <4>1
    <3> HIDE DEF a, b
    <3>2. Sums(input.sizes)[a] \in Nat /\ Sums(input.sizes)[b] \in Nat
      BY <1>1, <3>1, SumsOf
    <3>3. DataAt + Sums(input.sizes)[a] = DataAt + Sums(input.sizes)[b]
      <4>1. starts[a + 1] = DataAt + Sums(input.sizes)[(a + 1) - 1]
        BY <1>2, <3>1
      <4>2. starts[b + 1] = DataAt + Sums(input.sizes)[(b + 1) - 1]
        BY <1>2, <3>1
      <4>3. starts[a + 1] = starts[b + 1]
        BY <1>2, <2>2, <3>1
      <4> QED BY <3>1, <4>1, <4>2, <4>3
    <3>4. Sums(input.sizes)[a] = Sums(input.sizes)[b]
      BY <1>2, <3>2, <3>3
    <3>5. ~ (a < b) /\ ~ (b < a)
      <4>1. a < b => Sums(input.sizes)[a] < Sums(input.sizes)[b]
        BY <1>1, <3>1, SumsAscend
      <4>2. b < a => Sums(input.sizes)[b] < Sums(input.sizes)[a]
        BY <1>1, <3>1, SumsAscend
      <4> QED BY <3>2, <3>4, <4>1, <4>2
    <3> QED BY <3>1, <3>5
  <2>3. (CHOOSE j \in DOMAIN input.keys : isKeyAt(j)) = k
    <3> HIDE DEF isKeyAt
    <3> QED BY <2>1, <2>2
  <2> QED BY <2>1, <2>3 DEF keyAt
<1>4. input.keys = [k \in DOMAIN input.keys |-> input.keys[k]]
  <2>1. input.keys \in [1 .. Len(input.keys) -> Nat]
    BY <1>1, LenProperties
  <2> QED BY <2>1
<1> QED BY <1>3, <1>4

LEMMA KeysAscend ==
  ASSUME input \in Inputs, KeysInOrder,
         NEW i \in 1 .. Len(input.keys), NEW j \in 1 .. Len(input.keys), i < j
  PROVE  input.keys[i] < input.keys[j]
<1> DEFINE n == Len(input.keys)
           S == {m \in 0..n : i < m => input.keys[i] < input.keys[m]}
<1>1. n \in Nat /\ \A m \in 1..n : input.keys[m] \in Nat
  BY InputParts
<1>2. 0 \in S
  BY <1>1
<1>3. ASSUME NEW m \in 1..n, m - 1 \in S
      PROVE  m \in S
  <2>1. CASE i < m
    <3>1. m - 1 \in 1 .. n - 1 /\ (m - 1) + 1 = m /\ m - 1 \in 1..n
      BY <1>1, <2>1
    <3>2. input.keys[m - 1] < input.keys[(m - 1) + 1]
      BY <3>1 DEF KeysInOrder
    <3>3. CASE i < m - 1
      <4>1. input.keys[i] < input.keys[m - 1]
        BY <1>3, <3>3
      <4>2. /\ input.keys[i] \in Nat /\ input.keys[m - 1] \in Nat
            /\ input.keys[m] \in Nat /\ input.keys[m - 1] < input.keys[m]
        BY <1>1, <3>1, <3>2
      <4>3. input.keys[i] < input.keys[m]
        BY <4>1, <4>2
      <4> QED BY <1>1, <4>3
    <3>4. CASE i = m - 1
      BY <1>1, <3>1, <3>2, <3>4
    <3> QED BY <1>1, <2>1, <3>3, <3>4
  <2>2. CASE ~ (i < m)
    BY <1>1, <2>2
  <2> QED BY <2>1, <2>2
<1>4. \A m \in 0..n : m \in S
  <2> HIDE DEF S
  <2> QED BY <1>1, <1>2, <1>3, UpTo
<1> QED BY <1>1, <1>4

-----------------------------------------------------------------------------
(* The search.                                                             *)

LEMMA MidBetween ==
  \A a, b \in Nat : a < b => /\ a + (b - a) \div 2 \in a .. b - 1
                            /\ a + (b - a) \div 2 \in Nat
OBVIOUS

LEMMA FindStep ==
  ASSUME Inv, findKey
  PROVE  SearchInv'
<1>1. /\ place = "written" /\ input.kind = "dict" /\ UNCHANGED layoutVars
      /\ \E key \in Keys : wanted' = key
      /\ stored' = [k \in DOMAIN input.keys |-> keyAt(k)]
      /\ lo' = 0 /\ hi' = Len(stored') /\ answer' = Searching
  BY DEF findKey, StartSearch
<1>2. stored' = input.keys
  BY <1>1, KeysRead DEF Inv
<1>3. Len(stored') \in Nat
  BY <1>2, InputParts DEF Inv, LayoutInv
<1> QED BY <1>1, <1>2, <1>3, KeysAssumption
        DEF SearchInv, Searching, NotFound, layoutVars

LEMMA ProbeStep ==
  ASSUME Inv, Probe, UNCHANGED layoutVars
  PROVE  SearchInv'
<1> DEFINE n == Len(stored)
           m == Mid
<1>1. /\ stored = input.keys /\ place = "written" /\ input.kind = "dict"
      /\ wanted \in Nat /\ n \in Nat /\ lo \in 0..n /\ hi \in 0..n /\ lo < hi
      /\ answer = Searching /\ input \in Inputs /\ KeysInOrder
      /\ \A j \in 1..lo : stored[j] < wanted
      /\ \A j \in hi + 1 .. n : stored[j] > wanted
      /\ \A j \in 1..n : stored[j] \in Nat
  BY InputParts DEF Inv, LayoutInv, StartInv, SearchInv, Probe, Searching
<1>2. m \in lo .. hi - 1 /\ m \in Nat /\ m + 1 \in 1..n /\ m \in 0 .. n - 1
  BY <1>1, MidBetween DEF Mid
<1>3. \A i, j \in 1..n : i < j => stored[i] < stored[j]
  BY <1>1, KeysAscend
<1>4. UNCHANGED <<stored, wanted, place, input>>
  BY DEF Probe, layoutVars
<1> HIDE DEF m
<1>5. CASE KeyNo(Mid) = wanted /\ answer' = Mid /\ UNCHANGED <<lo, hi>>
  <2>1. stored[m + 1] = wanted /\ answer' = m
    BY <1>5 DEF KeyNo, m
  <2> QED BY <1>1, <1>2, <1>4, <1>5, <2>1 DEF SearchInv, Searching, NotFound
<1>6. CASE KeyNo(Mid) < wanted /\ lo' = AfterMid /\ UNCHANGED <<hi, answer>>
  <2>1. stored[m + 1] < wanted /\ lo' = m + 1
    BY <1>6 DEF KeyNo, AfterMid, m
  <2>2. \A j \in 1..lo' : stored[j] < wanted
    <3> SUFFICES ASSUME NEW j \in 1..lo' PROVE stored[j] < wanted
      OBVIOUS
    <3>1. j \in 1..n /\ (j = m + 1 \/ j < m + 1)
      BY <1>1, <1>2, <2>1
    <3> QED BY <1>1, <1>2, <1>3, <2>1, <3>1
  <2>3. lo' \in 0..n /\ lo' <= hi
    BY <1>1, <1>2, <2>1
  <2> QED BY <1>1, <1>4, <1>6, <2>2, <2>3 DEF SearchInv, Searching, NotFound
<1>7. CASE KeyNo(Mid) > wanted /\ hi' = UpToMid /\ UNCHANGED <<lo, answer>>
  <2>1. stored[m + 1] > wanted /\ hi' = m
    BY <1>7 DEF KeyNo, UpToMid, m
  <2>2. \A j \in hi' + 1 .. n : stored[j] > wanted
    <3> SUFFICES ASSUME NEW j \in hi' + 1 .. n PROVE stored[j] > wanted
      OBVIOUS
    <3>1. j \in 1..n /\ (j = m + 1 \/ m + 1 < j)
      BY <1>1, <1>2, <2>1
    <3> QED BY <1>1, <1>2, <1>3, <2>1, <3>1
  <2>3. hi' \in 0..n /\ lo <= hi'
    BY <1>1, <1>2, <2>1
  <2> QED BY <1>1, <1>4, <1>7, <2>2, <2>3 DEF SearchInv, Searching, NotFound
<1> QED BY <1>5, <1>6, <1>7 DEF Probe

LEMMA NoMoreStep ==
  ASSUME Inv, NoMore, UNCHANGED layoutVars
  PROVE  SearchInv'
<1>1. /\ UNCHANGED <<stored, wanted, lo, hi, place, input>>
      /\ answer = Searching /\ answer' = NotFound /\ lo >= hi
  BY DEF NoMore, layoutVars
<1>2. Len(stored) \in Nat /\ \A j \in 1 .. Len(stored) : stored[j] \in Nat
  BY <1>1, InputParts DEF Inv, LayoutInv, SearchInv
<1>3. \A j \in 1 .. Len(stored) : stored[j] # wanted
  BY <1>1, <1>2 DEF Inv, SearchInv
<1> QED BY <1>1, <1>3 DEF Inv, SearchInv, Searching, NotFound

-----------------------------------------------------------------------------
(* The theorems.                                                           *)

LEMMA InvInit == ReadInit => Inv
<1> SUFFICES ASSUME ReadInit PROVE Inv
  OBVIOUS
<1>1. LayoutInv
  BY LayoutInit DEF ReadInit
<1>2. SearchInv
  BY DEF ReadInit, SearchInv, Searching, NotFound
<1> QED BY <1>1, <1>2 DEF Inv

LEMMA InvStep == Inv /\ [Next]_vars => Inv'
<1> SUFFICES ASSUME Inv, [Next]_vars PROVE Inv'
  OBVIOUS
<1>1. CASE Serialize /\ UNCHANGED searchVars
  <2>1. LayoutInv'
    BY <1>1, LayoutStep DEF Inv
  <2>2. place # "written"
    BY <1>1 DEF Serialize, Validate, InnerPass, OuterPass, Write
  <2>3. stored = <<>> /\ answer # Searching
    BY <2>2 DEF Inv, SearchInv
  <2>4. SearchInv'
    BY <1>1, <2>3 DEF Inv, SearchInv, searchVars
  <2> QED BY <2>1, <2>4 DEF Inv
<1>2. CASE findKey
  BY <1>2, FindStep, LayoutKept DEF Inv, findKey
<1>3. CASE Search /\ UNCHANGED layoutVars
  BY <1>3, ProbeStep, NoMoreStep, LayoutKept DEF Inv, Search
<1>4. CASE UNCHANGED vars
  <2>1. LayoutInv'
    BY <1>4, LayoutKept DEF Inv, vars
  <2>2. SearchInv'
    BY <1>4 DEF Inv, SearchInv, vars, searchVars, layoutVars
  <2> QED BY <2>1, <2>2 DEF Inv
<1> QED BY <1>1, <1>2, <1>3, <1>4 DEF Next, Step

LEMMA InvHolds == Spec => []Inv
BY InvInit, InvStep, PTL DEF Spec

(* Both loops of the serializer settle, well before their passes are used  *)
(* up: the inner one in four, the outer one in nine.                       *)
THEOREM LoopsAlwaysSettle == Spec => []LoopsSettle
<1>1. Inv => LoopsSettle
  <2> SUFFICES ASSUME Inv PROVE LoopsSettle
    OBVIOUS
  <2>1. CASE input.kind = "leaf" \/ place \in {"validate", "refused"}
    BY <2>1 DEF Inv, LayoutInv, StartInv, Beginning, LoopsSettle
  <2>2. CASE input.kind # "leaf" /\ place = "inner"
    BY <2>2 DEF Inv, LayoutInv, InnerInv, LoopsSettle
  <2>3. CASE input.kind # "leaf" /\ place \in {"outer", "write", "written"}
    BY <2>3 DEF Inv, LayoutInv, SettledInv, LoopsSettle
  <2> QED BY <2>1, <2>2, <2>3 DEF Inv, LayoutInv, Places
<1> QED BY <1>1, InvHolds, PTL

(* "std.debug.assert(pos == total)" never fails, and every offset in the   *)
(* index is the place at which its element was written.                    *)
THEOREM IndexLeadsToElements == Spec => []WrittenAsLaidOut
<1>1. Inv => WrittenAsLaidOut
  BY HeaderFits, OffsetsLead DEF Inv, WrittenAsLaidOut
<1> QED BY <1>1, InvHolds, PTL

(* What the readers slice out of a container is, to the byte, what the     *)
(* serializer put there.                                                   *)
THEOREM ReadersFindWhatWasWritten == Spec => []ReadAsWritten
<1>1. Inv => ReadAsWritten
  <2> SUFFICES ASSUME Inv, place = "written" PROVE ReadAsWritten
    BY DEF ReadAsWritten
  <2>1. input \in Inputs /\ LayoutInv /\ Len(input.sizes) \in Nat
    BY InputParts DEF Inv, LayoutInv
  <2>2. ASSUME input.kind # "leaf", NEW i \in 1 .. Len(input.sizes)
        PROVE  Bytes(offsets[i], BoundaryAfter(i))
                 = Bytes(starts[i], starts[i] + input.sizes[i])
    BY <2>1, <2>2, OffsetsLead
  <2>3. CASE input.kind = "array"
    BY <2>1, <2>2, <2>3, InputParts DEF ReadAsWritten, elementBytesAt
  <2>4. CASE input.kind = "dict"
    <3>1. \A k \in DOMAIN input.keys : 2 * k \in 1 .. Len(input.sizes)
      <4> DEFINE m == Len(input.keys)
                 n == Len(input.sizes)
      <4>1. DOMAIN input.keys = 1..m /\ m \in Nat /\ n = 2 * m
        BY <2>1, <2>4, InputsAssumption
      <4> HIDE DEF m, n
      <4>2. \A k \in 1..m : 2 * k \in 1..n
        BY <4>1
      <4> QED BY <4>1, <4>2 DEF n
    <3> QED BY <2>2, <2>4, <3>1 DEF ReadAsWritten, valueAt
  <2>5. CASE input.kind = "leaf"
    <3>1. /\ AttrOverhead(input) \in Nat /\ DataSize \in Nat /\ input.csum \in Nat
          /\ input.sizes \in Seq(Nat) /\ Len(input.sizes) = 1
      BY <2>1, InputParts, InputsAssumption, <2>5 DEF DataSize
    <3>2. /\ DataAt \in Nat /\ pos = total /\ starts = Laid(input, DataAt)
          /\ DataAt = HeaderLength(input, total) + 0
          /\ pos = DataAt + DataSize + input.csum + 0
      BY <2>1, <2>5, HeaderFits DEF DataAt, LayoutInv, WrittenInv
    <3>3. starts[1] = DataAt /\ DataSize = input.sizes[1]
      <4>0. DOMAIN input.sizes = 1..1
        BY <3>1
      <4>1. 1 \in DOMAIN input.sizes /\ input.sizes[1] \in Nat
        BY <3>1, <4>0
      <4>2. starts[1] = DataAt + Sums(input.sizes)[1 - 1]
        BY <3>2, <4>1 DEF Laid
      <4>3. /\ Sums(input.sizes)[0] = 0
            /\ Sums(input.sizes)[1] = Sums(input.sizes)[1 - 1] + input.sizes[1]
        BY <3>1, <4>1, SumsOf
      <4>4. DataSize = Sums(input.sizes)[1]
        BY <3>1 DEF DataSize, Total
      <4>5. Sums(input.sizes)[1 - 1] = 0
        BY <4>3
      <4> QED BY <3>2, <4>1, <4>2, <4>3, <4>4, <4>5
    <3> DEFINE d == DataAt
               h == HeaderLength(input, total)
               z == DataSize
               c == input.csum
               first == starts[1]
               size == input.sizes[1]
    <3>4. h \in Nat
      <4>1. encodedSize(total) \in Nat
        <5>1. total \in Nat
          BY <3>1, <3>2
        <5> QED BY <5>1, EncodedSizes
      <4> QED BY <3>1, <4>1 DEF HeaderLength
    <3>5. /\ d \in Nat /\ z \in Nat /\ c \in Nat /\ total = d + z + c + 0
          /\ d = h + 0 /\ first = d /\ size = z
      BY <3>1, <3>2, <3>3
    <3> HIDE DEF d, h, z, c, first, size
    <3>6. h = first /\ total - c = first + size
      BY <3>4, <3>5
    <3>7. payloadSlice = Bytes(h, total - c)
      BY DEF payloadSlice, h, c
    <3>8. payloadSlice = Bytes(starts[1], starts[1] + input.sizes[1])
      BY <3>6, <3>7 DEF first, size
    <3> QED BY <2>5, <3>8 DEF ReadAsWritten
  <2> QED BY <2>1, <2>3, <2>4, <2>5, InputParts DEF Kinds
<1> QED BY <1>1, InvHolds, PTL

(* The binary search answers with a pair that has the key, and says that   *)
(* none has it only when none has.                                         *)
THEOREM SearchIsAlwaysRight == Spec => []SearchIsRight
<1>1. Inv => SearchIsRight
  <2> SUFFICES ASSUME Inv PROVE SearchIsRight
    OBVIOUS
  <2>1. stored # <<>> => stored = input.keys
    BY DEF Inv, SearchInv
  <2>2. answer >= 0 => stored # <<>> /\ stored[answer + 1] = wanted
    BY DEF Inv, SearchInv, Searching, NotFound
  <2>3. input.keys \in Seq(Nat)
    BY InputParts DEF Inv, LayoutInv
  <2>4. DOMAIN input.keys = 1 .. Len(input.keys)
    BY <2>3
  <2> QED BY <2>1, <2>2, <2>4 DEF Inv, SearchInv, SearchIsRight
<1> QED BY <1>1, InvHolds, PTL

(* Types: no place, size or bound leaves the natural numbers, and an       *)
(* answer is the number of a pair.                                         *)
THEOREM TypeCorrect == Spec => []TypeOK
<1>1. Inv => TypeOK
  <2> SUFFICES ASSUME Inv PROVE TypeOK
    OBVIOUS
  <2>1. /\ input \in Inputs /\ place \in Places /\ DataSize \in Nat
        /\ input.kind \in Kinds /\ valOffset \in Nat /\ iSize \in Nat
        /\ AttrOverhead(input) \in Nat /\ input.csum \in Nat
    BY InputParts DEF Inv, LayoutInv, DataSize
  <2>2. /\ outer \in 0..10 /\ inner \in 0..10 /\ iSize \in 0..9
        /\ offsets \in Seq(Nat) /\ indexOffset \in Nat /\ total \in Nat
    <3>1. CASE input.kind = "leaf"
      <4>1. /\ total = computeLPLength(input, DataSize) /\ outer = 0 /\ inner = 0
            /\ iSize = 0 /\ offsets = <<>> /\ indexOffset = 0
        BY <3>1 DEF Inv, LayoutInv, StartInv
      <4>2. AttrOverhead(input) + DataSize + input.csum \in Nat
        BY <2>1
      <4>3. LengthBytes(AttrOverhead(input) + DataSize + input.csum) \in 1..9
        BY <4>2, LengthFits
      <4>4. total \in Nat
        BY <4>1, <4>2, <4>3 DEF computeLPLength
      <4> QED BY <4>1, <4>4
    <3>2. CASE place \in {"validate", "refused"}
      <4>1. Beginning
        BY <3>2 DEF Inv, LayoutInv, StartInv
      <4> QED BY <4>1 DEF Beginning
    <3>3. CASE place = "inner"
      BY <3>3 DEF Inv, LayoutInv, InnerInv
    <3>4. CASE input.kind # "leaf" /\ place \in {"outer", "write", "written"}
      <4>1. /\ offsets = Laid(input, valOffset + iSize)
            /\ indexOffset = valOffset + iSize + DataSize
            /\ total = BaseOf(input, valOffset, iSize)
                         + LengthBytes(BaseOf(input, valOffset, iSize))
            /\ outer <= iSize /\ outer \in Nat /\ iSize \in 1..9 /\ inner \in 0..4
        BY <2>1, <3>4 DEF Inv, LayoutInv, SettledInv
      <4>2. /\ offsets \in Seq(Nat) /\ total \in Nat
        BY <2>1, <4>1, PassTypes
      <4> QED BY <2>1, <4>1, <4>2
    <3> QED BY <2>1, <3>1, <3>2, <3>3, <3>4 DEF Places
  <2>3. starts \in Seq(Nat) /\ pos \in Nat
    <3>1. CASE place # "written"
      BY <3>1 DEF Inv, LayoutInv, WrittenInv
    <3>2. CASE place = "written"
      <4>1. DataAt \in Nat /\ pos = total /\ starts = Laid(input, DataAt)
        BY <3>2, HeaderFits DEF Inv, LayoutInv, WrittenInv
      <4>2. starts \in Seq(Nat)
        BY <2>1, <4>1, LaidParts
      <4> QED BY <2>2, <4>1, <4>2
    <3> QED BY <3>1, <3>2
  <2> QED BY <2>1, <2>2, <2>3 DEF Inv, SearchInv, TypeOK, Places
<1> QED BY <1>1, InvHolds, PTL
=============================================================================
