------------------------- MODULE ArchiveReader_proofs -------------------------
(***************************************************************************)
(* Proofs about reading an archive back after at most one flipped bit, for *)
(* every set of archives: any number of entries, of any path and content,  *)
(* with either compression.                                                *)
(*                                                                         *)
(* The invariant forgets which bit flipped.  One container differs from    *)
(* what was written, either in one attribute of its header, by a flip of   *)
(* its sigil or of its value, or in anything but its header: the index,    *)
(* the length and the payload may be whatever they like.  That is enough,  *)
(* because the sigils of an accepted header ascend and a container with a  *)
(* compression has a checksum: no single flip hides the attribute that     *)
(* announces a checksum, or announces a compression where there is none.   *)
(***************************************************************************)
EXTENDS ArchiveReader, FiniteSetTheorems, SequenceTheorems, TLAPS

(* Headers, attribute by attribute: the type, ... and the value last.      *)
Attrs == Nat \X Nat
Plain(t) == << <<1, t>>, <<127, 0>> >>
Summed(t, s) == << <<1, t>>, <<18, s>>, <<127, 0>> >>
Packed(t, s) == << <<1, t>>, <<16, 4>>, <<17, 64>>, <<18, s>>, <<127, 0>> >>

(* The elements of a concatenation.                                        *)
LEMMA Concatenated ==
  ASSUME NEW S, NEW s \in Seq(S), NEW t \in Seq(S)
  PROVE  /\ s \o t \in Seq(S) /\ Len(s \o t) = Len(s) + Len(t)
         /\ \A i \in 1 .. Len(s) : (s \o t)[i] = s[i]
         /\ \A i \in 1 .. Len(t) : (s \o t)[Len(s) + i] = t[i]
<1>1. Len(s) \in Nat /\ Len(t) \in Nat
  BY LenProperties
<1>2. /\ s \o t \in Seq(S) /\ Len(s \o t) = Len(s) + Len(t)
      /\ \A i \in 1 .. Len(s) + Len(t) : (s \o t)[i] =
                     IF i <= Len(s) THEN s[i] ELSE t[i - Len(s)]
  BY ConcatProperties
<1>3. ASSUME NEW i \in 1 .. Len(s)
      PROVE  (s \o t)[i] = s[i]
  <2>1. i \in 1 .. Len(s) + Len(t) /\ i <= Len(s)
    BY <1>1
  <2> QED BY <1>2, <2>1
<1>4. ASSUME NEW i \in 1 .. Len(t)
      PROVE  (s \o t)[Len(s) + i] = t[i]
  <2>1. Len(s) + i \in 1 .. Len(s) + Len(t) /\ ~(Len(s) + i <= Len(s)) /\ Len(s) + i - Len(s) = i
    BY <1>1
  <2> QED BY <1>2, <2>1
<1> QED BY <1>2, <1>3, <1>4

(* The three forms of Header, attribute by attribute: without a checksum,  *)
(* ...                                                                     *)
LEMMA PlainHeader ==
  ASSUME NEW t \in Nat
  PROVE  Header(t, None, None) = Plain(t)
<1> DEFINE a == << <<1, t>> >>
           z == << <<127, 0>> >>
<1>1. a \in Seq(Attrs) /\ z \in Seq(Attrs) /\ Len(a) = 1 /\ Len(z) = 1
      /\ a[1] = <<1, t>> /\ z[1] = <<127, 0>>
  BY DEF Attrs
<1>2. Header(t, None, None) = ((a \o <<>>) \o <<>>) \o z
  BY DEF Header, None, TypeSigil, ValSigil
<1> HIDE DEF a, z
<1>3. Header(t, None, None) = a \o z
  BY <1>1, <1>2, ConcatEmptySeq
<1>4. Plain(t) \in Seq(Attrs) /\ Len(Plain(t)) = 2
      /\ Plain(t)[1] = <<1, t>> /\ Plain(t)[2] = <<127, 0>>
  BY DEF Plain, Attrs
<1>5. /\ a \o z \in Seq(Attrs) /\ Len(a \o z) = 2
      /\ (a \o z)[1] = <<1, t>> /\ (a \o z)[2] = <<127, 0>>
  BY <1>1, Concatenated
<1>6. \A i \in 1 .. Len(a \o z) : (a \o z)[i] = Plain(t)[i]
  <2>1. \A i \in 1..2 : i = 1 \/ i = 2
    OBVIOUS
  <2> QED BY <1>4, <1>5, <2>1, Zenon
<1>7. a \o z = Plain(t)
  BY <1>4, <1>5, <1>6, SeqEqual
<1> QED BY <1>3, <1>7

(* ... with one, ...                                                       *)
LEMMA SummedHeader ==
  ASSUME NEW t \in Nat, NEW s \in Nat, s # 0
  PROVE  Header(t, None, s) = Summed(t, s)
<1> DEFINE a == << <<1, t>> >>
           c == << <<18, s>> >>
           z == << <<127, 0>> >>
<1>1. /\ a \in Seq(Attrs) /\ c \in Seq(Attrs) /\ z \in Seq(Attrs)
      /\ Len(a) = 1 /\ Len(c) = 1 /\ Len(z) = 1
      /\ a[1] = <<1, t>> /\ c[1] = <<18, s>> /\ z[1] = <<127, 0>>
  BY DEF Attrs
<1>2. Header(t, None, s) = ((a \o <<>>) \o c) \o z
  BY DEF Header, None, TypeSigil, CsumSigil, ValSigil
<1> HIDE DEF a, c, z
<1>3. Header(t, None, s) = (a \o c) \o z
  BY <1>1, <1>2, ConcatEmptySeq
<1>4. /\ Summed(t, s) \in Seq(Attrs) /\ Len(Summed(t, s)) = 3
      /\ Summed(t, s)[1] = <<1, t>> /\ Summed(t, s)[2] = <<18, s>>
      /\ Summed(t, s)[3] = <<127, 0>>
  BY DEF Summed, Attrs
<1>5. /\ a \o c \in Seq(Attrs) /\ Len(a \o c) = 2
      /\ (a \o c)[1] = <<1, t>> /\ (a \o c)[2] = <<18, s>>
  BY <1>1, Concatenated
<1> DEFINE b == a \o c
<1> HIDE DEF b
<1>6. /\ b \o z \in Seq(Attrs) /\ Len(b \o z) = 3
      /\ (b \o z)[1] = <<1, t>> /\ (b \o z)[2] = <<18, s>> /\ (b \o z)[3] = <<127, 0>>
  BY <1>1, <1>5, Concatenated DEF b
<1>7. \A i \in 1 .. Len(b \o z) : (b \o z)[i] = Summed(t, s)[i]
  <2>1. \A i \in 1..3 : i = 1 \/ i = 2 \/ i = 3
    OBVIOUS
  <2> QED BY <1>4, <1>6, <2>1, Zenon
<1>8. b \o z = Summed(t, s)
  BY <1>4, <1>6, <1>7, SeqEqual
<1> QED BY <1>3, <1>8 DEF b

(* ... and with a compression and a checksum.                              *)
LEMMA PackedHeader ==
  ASSUME NEW t \in Nat, NEW s \in Nat, s # 0
  PROVE  Header(t, Zstd, s) = Packed(t, s)
<1> DEFINE a == << <<1, t>> >>
           d == << <<16, 4>>, <<17, 64>> >>
           c == << <<18, s>> >>
           z == << <<127, 0>> >>
<1>1. /\ a \in Seq(Attrs) /\ d \in Seq(Attrs) /\ c \in Seq(Attrs) /\ z \in Seq(Attrs)
      /\ Len(a) = 1 /\ Len(d) = 2 /\ Len(c) = 1 /\ Len(z) = 1
      /\ a[1] = <<1, t>> /\ d[1] = <<16, 4>> /\ d[2] = <<17, 64>>
      /\ c[1] = <<18, s>> /\ z[1] = <<127, 0>>
  BY DEF Attrs
<1>2. Header(t, Zstd, s) = ((a \o d) \o c) \o z
  BY DEF Header, None, Zstd, TypeSigil, CompSigil, DecompLenSigil, DecompressedLength,
         CsumSigil, ValSigil
<1> HIDE DEF a, d, c, z
<1>3. /\ Packed(t, s) \in Seq(Attrs) /\ Len(Packed(t, s)) = 5
      /\ Packed(t, s)[1] = <<1, t>> /\ Packed(t, s)[2] = <<16, 4>>
      /\ Packed(t, s)[3] = <<17, 64>> /\ Packed(t, s)[4] = <<18, s>>
      /\ Packed(t, s)[5] = <<127, 0>>
  BY DEF Packed, Attrs
<1> DEFINE b == a \o d
           e == b \o c
<1>4. /\ b \in Seq(Attrs) /\ Len(b) = 3
      /\ b[1] = <<1, t>> /\ b[2] = <<16, 4>> /\ b[3] = <<17, 64>>
  <2>0. /\ a \o d \in Seq(Attrs) /\ Len(a \o d) = Len(a) + Len(d)
        /\ \A i \in 1..Len(a) : (a \o d)[i] = a[i]
        /\ \A i \in 1..Len(d) : (a \o d)[Len(a) + i] = d[i]
    <3>1. a \in Seq(Attrs) /\ d \in Seq(Attrs)
      BY <1>1
    <3> QED BY <3>1, Concatenated
  <2>1. /\ a \o d \in Seq(Attrs) /\ Len(a \o d) = 3
        /\ \A i \in 1..1 : (a \o d)[i] = a[i]
        /\ \A i \in 1..2 : (a \o d)[1 + i] = d[i]
    BY <1>1, <2>0
  <2>2. (a \o d)[1] = a[1] /\ (a \o d)[1 + 1] = d[1] /\ (a \o d)[1 + 2] = d[2]
    BY <2>1
  <2> QED BY <1>1, <2>1, <2>2
<1> HIDE DEF b
<1>5. /\ e \in Seq(Attrs) /\ Len(e) = 4
      /\ e[1] = <<1, t>> /\ e[2] = <<16, 4>> /\ e[3] = <<17, 64>> /\ e[4] = <<18, s>>
  <2>0. /\ b \o c \in Seq(Attrs) /\ Len(b \o c) = Len(b) + Len(c)
        /\ \A i \in 1..Len(b) : (b \o c)[i] = b[i]
        /\ \A i \in 1..Len(c) : (b \o c)[Len(b) + i] = c[i]
    <3>1. b \in Seq(Attrs) /\ c \in Seq(Attrs)
      BY <1>1, <1>4
    <3> QED BY <3>1, Concatenated
  <2>1. /\ b \o c \in Seq(Attrs) /\ Len(b \o c) = 4
        /\ \A i \in 1..3 : (b \o c)[i] = b[i]
        /\ \A i \in 1..1 : (b \o c)[3 + i] = c[i]
    <3>1. Len(b) = 3 /\ Len(c) = 1
      BY <1>1, <1>4
    <3> QED BY <2>0, <3>1
  <2>2. /\ (b \o c)[1] = b[1] /\ (b \o c)[2] = b[2] /\ (b \o c)[3] = b[3]
        /\ (b \o c)[3 + 1] = c[1]
    BY <2>1
  <2> QED BY <1>1, <1>4, <2>1, <2>2
<1> HIDE DEF e
<1>6. /\ e \o z \in Seq(Attrs) /\ Len(e \o z) = 5
      /\ (e \o z)[1] = <<1, t>> /\ (e \o z)[2] = <<16, 4>> /\ (e \o z)[3] = <<17, 64>>
      /\ (e \o z)[4] = <<18, s>> /\ (e \o z)[5] = <<127, 0>>
  <2>0. /\ e \o z \in Seq(Attrs) /\ Len(e \o z) = Len(e) + Len(z)
        /\ \A i \in 1..Len(e) : (e \o z)[i] = e[i]
        /\ \A i \in 1..Len(z) : (e \o z)[Len(e) + i] = z[i]
    <3>1. e \in Seq(Attrs) /\ z \in Seq(Attrs)
      BY <1>1, <1>5
    <3> QED BY <3>1, Concatenated
  <2>1. /\ e \o z \in Seq(Attrs) /\ Len(e \o z) = 5
        /\ \A i \in 1..4 : (e \o z)[i] = e[i]
        /\ \A i \in 1..1 : (e \o z)[4 + i] = z[i]
    <3>1. Len(e) = 4 /\ Len(z) = 1
      BY <1>1, <1>5
    <3> QED BY <2>0, <3>1
  <2>2. /\ (e \o z)[1] = e[1] /\ (e \o z)[2] = e[2] /\ (e \o z)[3] = e[3]
        /\ (e \o z)[4] = e[4] /\ (e \o z)[4 + 1] = z[1]
    BY <2>1
  <2> QED BY <1>1, <1>5, <2>1, <2>2
<1>7. \A i \in 1 .. Len(e \o z) : (e \o z)[i] = Packed(t, s)[i]
  <2>1. \A i \in 1..5 : i = 1 \/ i = 2 \/ i = 3 \/ i = 4 \/ i = 5
    OBVIOUS
  <2> QED BY <1>3, <1>6, <2>1, Zenon
<1>8. e \o z = Packed(t, s)
  BY <1>3, <1>6, <1>7, SeqEqual
<1> QED BY <1>2, <1>8 DEF b, e

(* Names of containers: the name of an entry joined with the name of a     *)
(* part of it, ...                                                         *)
LEMMA JoinedNames ==
  ASSUME NEW i \in Nat, NEW k \in Nat, NEW l \in Nat
  PROVE  /\ <<2, i>> \o <<>> = <<2, i>> /\ <<2, i>> \o <<k>> = <<2, i, k>>
         /\ <<2, i>> \o <<k, l>> = <<2, i, k, l>>
<1> DEFINE p == <<2, i>>
           q == <<k>>
           r == <<k, l>>
           u == <<2, i, k>>
           v == <<2, i, k, l>>
<1>1. /\ p \in Seq(Nat) /\ q \in Seq(Nat) /\ r \in Seq(Nat)
      /\ u \in Seq(Nat) /\ v \in Seq(Nat)
      /\ Len(p) = 2 /\ Len(q) = 1 /\ Len(r) = 2 /\ Len(u) = 3 /\ Len(v) = 4
      /\ p[1] = 2 /\ p[2] = i /\ q[1] = k /\ r[1] = k /\ r[2] = l
      /\ u[1] = 2 /\ u[2] = i /\ u[3] = k
      /\ v[1] = 2 /\ v[2] = i /\ v[3] = k /\ v[4] = l
  OBVIOUS
<1> HIDE DEF p, q, r, u, v
<1>2. p \o <<>> = p
  BY <1>1, ConcatEmptySeq
<1>3. p \o q = u
  <2>0. /\ p \o q \in Seq(Nat) /\ Len(p \o q) = Len(p) + Len(q)
        /\ \A j \in 1..Len(p) : (p \o q)[j] = p[j]
        /\ \A j \in 1..Len(q) : (p \o q)[Len(p) + j] = q[j]
    <3>1. p \in Seq(Nat) /\ q \in Seq(Nat)
      BY <1>1
    <3> QED BY <3>1, Concatenated
  <2>1. /\ p \o q \in Seq(Nat) /\ Len(p \o q) = 3
        /\ (p \o q)[1] = 2 /\ (p \o q)[2] = i /\ (p \o q)[3] = k
    <3>1. Len(p) = 2 /\ Len(q) = 1
      BY <1>1
    <3>2. Len(p \o q) = 3 /\ (p \o q)[1] = p[1] /\ (p \o q)[2] = p[2] /\ (p \o q)[2 + 1] = q[1]
      BY <2>0, <3>1
    <3> QED BY <1>1, <2>0, <3>2
  <2>2. \A j \in 1..3 : j = 1 \/ j = 2 \/ j = 3
    OBVIOUS
  <2>3. \A j \in 1 .. Len(p \o q) : (p \o q)[j] = u[j]
    BY <1>1, <2>1, <2>2, Zenon
  <2> QED BY <1>1, <2>1, <2>3, SeqEqual
<1>4. p \o r = v
  <2>1. /\ p \o r \in Seq(Nat) /\ Len(p \o r) = Len(p) + Len(r)
        /\ \A j \in 1..Len(p) : (p \o r)[j] = p[j]
        /\ \A j \in 1..Len(r) : (p \o r)[Len(p) + j] = r[j]
    <3>1. p \in Seq(Nat) /\ r \in Seq(Nat)
      BY <1>1
    <3> QED BY <3>1, Concatenated
  <2>2. /\ Len(p \o r) = 4
        /\ (p \o r)[1] = 2 /\ (p \o r)[2] = i
        /\ (p \o r)[2 + 1] = k /\ (p \o r)[2 + 2] = l
    BY <1>1, <2>1
  <2>3. \A j \in 1..4 : j = 1 \/ j = 2 \/ j = 3 \/ j = 4
    OBVIOUS
  <2>4. \A j \in 1 .. Len(p \o r) : (p \o r)[j] = v[j]
    BY <1>1, <2>2, <2>3
  <2> QED BY <1>1, <2>1, <2>2, <2>4, SeqEqual
<1> QED BY <1>2, <1>3, <1>4 DEF p, q, r, u, v

(* ... and the part that Serialized cuts off again.                        *)
LEMMA NameEnds ==
  ASSUME NEW i \in Nat, NEW k \in Nat, NEW l \in Nat
  PROVE  /\ SubSeq(<<2, i>>, 3, Len(<<2, i>>)) = <<>>
         /\ SubSeq(<<2, i, k>>, 3, Len(<<2, i, k>>)) = <<k>>
         /\ SubSeq(<<2, i, k, l>>, 3, Len(<<2, i, k, l>>)) = <<k, l>>
<1>1. SubSeq(<<2, i>>, 3, 2) = <<>>
  BY SubSeqEmpty
<1>2. SubSeq(<<2, i, k>>, 3, 3) = <<k>>
  <2> DEFINE u == <<2, i, k>>
             q == <<k>>
  <2>1. \A j \in 3..3 : u[j] \in Nat
    OBVIOUS
  <2>2. u[3] = k /\ q \in Seq(Nat) /\ Len(q) = 1 /\ q[1] = k
    OBVIOUS
  <2> HIDE DEF u, q
  <2>3. /\ SubSeq(u, 3, 3) \in Seq(Nat) /\ Len(SubSeq(u, 3, 3)) = 1
        /\ SubSeq(u, 3, 3)[1] = u[3]
    BY <2>1, SubSeqProperties
  <2>4. \A j \in 1 .. Len(SubSeq(u, 3, 3)) : SubSeq(u, 3, 3)[j] = q[j]
    BY <2>2, <2>3
  <2>5. SubSeq(u, 3, 3) = q
    BY <2>2, <2>3, <2>4, SeqEqual
  <2> QED BY <2>5 DEF u, q
<1>3. SubSeq(<<2, i, k, l>>, 3, 4) = <<k, l>>
  <2> DEFINE v == <<2, i, k, l>>
             r == <<k, l>>
  <2>1. \A j \in 3..4 : v[j] \in Nat
    OBVIOUS
  <2>2. v[3] = k /\ v[4] = l /\ r \in Seq(Nat) /\ Len(r) = 2 /\ r[1] = k /\ r[2] = l
    OBVIOUS
  <2> HIDE DEF v, r
  <2>3. /\ SubSeq(v, 3, 4) \in Seq(Nat) /\ Len(SubSeq(v, 3, 4)) = 2
        /\ SubSeq(v, 3, 4)[1] = v[3] /\ SubSeq(v, 3, 4)[2] = v[4]
    BY <2>1, SubSeqProperties
  <2>4. \A j \in 1 .. Len(SubSeq(v, 3, 4)) : SubSeq(v, 3, 4)[j] = r[j]
    BY <2>2, <2>3
  <2>5. SubSeq(v, 3, 4) = r
    BY <2>2, <2>3, <2>4, SeqEqual
  <2> QED BY <2>5 DEF v, r
<1> QED BY <1>1, <1>2, <1>3

(* The containers of a FILE are itself, its metadata, its data and the     *)
(* four elements of its metadata; those of a DIR itself and its four       *)
(* elements.                                                               *)
LEMMA EntryNamesAre ==
  ASSUME NEW e, NEW i \in Nat
  PROVE  /\ IsFile(e) => EntryNames(e, i) = {<<2, i>>, <<2, i, 1>>, <<2, i, 2>>}
                                            \cup {<<2, i, 1, k>> : k \in 1..4}
         /\ ~IsFile(e) => EntryNames(e, i) = {<<2, i>>} \cup {<<2, i, k>> : k \in 1..4}
<1>1. <<2, i>> \o <<>> = <<2, i>>
  BY JoinedNames
<1>2. \A k \in Nat : <<2, i>> \o <<k>> = <<2, i, k>>
  BY JoinedNames
<1>3. \A k \in Nat : <<2, i>> \o <<1, k>> = <<2, i, 1, k>>
  BY JoinedNames
<1>4. 1 \in Nat /\ 2 \in Nat /\ \A k \in 1..4 : k \in Nat
  OBVIOUS
<1>5. CASE IsFile(e)
  <2>1. EntryNames(e, i) = {<<2, i>> \o q : q \in FileNames}
    BY <1>5 DEF EntryNames
  <2>2. ASSUME NEW n \in EntryNames(e, i)
        PROVE  n \in {<<2, i>>, <<2, i, 1>>, <<2, i, 2>>} \cup {<<2, i, 1, k>> : k \in 1..4}
    <3>1. PICK q \in FileNames : n = <<2, i>> \o q
      BY <2>1, <2>2
    <3>2. CASE q = <<>>
      BY <1>1, <3>1, <3>2, Zenon
    <3>3. CASE q = <<1>>
      BY <1>2, <1>4, <3>1, <3>3, Zenon
    <3>4. CASE q = <<2>>
      BY <1>2, <1>4, <3>1, <3>4, Zenon
    <3>5. CASE q \in {<<1, k>> : k \in 1..4}
      BY <1>3, <1>4, <3>1, <3>5, Zenon
    <3> QED BY <3>1, <3>2, <3>3, <3>4, <3>5, Zenon DEF FileNames
  <2>3. ASSUME NEW n \in {<<2, i>>, <<2, i, 1>>, <<2, i, 2>>} \cup {<<2, i, 1, k>> : k \in 1..4}
        PROVE  n \in EntryNames(e, i)
    <3>1. <<>> \in FileNames /\ <<1>> \in FileNames /\ <<2>> \in FileNames
          /\ \A k \in 1..4 : <<1, k>> \in FileNames
      BY Zenon DEF FileNames
    <3>2. /\ <<2, i>> \o <<>> \in EntryNames(e, i)
          /\ <<2, i>> \o <<1>> \in EntryNames(e, i)
          /\ <<2, i>> \o <<2>> \in EntryNames(e, i)
          /\ \A k \in 1..4 : <<2, i>> \o <<1, k>> \in EntryNames(e, i)
      BY <2>1, <3>1, Zenon
    <3>3. /\ <<2, i>> \in EntryNames(e, i) /\ <<2, i, 1>> \in EntryNames(e, i)
          /\ <<2, i, 2>> \in EntryNames(e, i)
          /\ \A k \in 1..4 : <<2, i, 1, k>> \in EntryNames(e, i)
      BY <1>1, <1>2, <1>3, <1>4, <3>2, Zenon
    <3> QED BY <3>3, <2>3, Zenon
  <2> QED BY <1>5, <2>2, <2>3, Zenon
<1>6. CASE ~IsFile(e)
  <2>1. EntryNames(e, i) = {<<2, i>> \o q : q \in DirNames}
    BY <1>6 DEF EntryNames
  <2>2. ASSUME NEW n \in EntryNames(e, i)
        PROVE  n \in {<<2, i>>} \cup {<<2, i, k>> : k \in 1..4}
    <3>1. PICK q \in DirNames : n = <<2, i>> \o q
      BY <2>1, <2>2
    <3>2. CASE q = <<>>
      BY <1>1, <3>1, <3>2, Zenon
    <3>3. CASE q \in {<<k>> : k \in 1..4}
      BY <1>2, <1>4, <3>1, <3>3, Zenon
    <3> QED BY <3>1, <3>2, <3>3, Zenon DEF DirNames
  <2>3. ASSUME NEW n \in {<<2, i>>} \cup {<<2, i, k>> : k \in 1..4}
        PROVE  n \in EntryNames(e, i)
    <3>1. <<>> \in DirNames /\ \A k \in 1..4 : <<k>> \in DirNames
      BY Zenon DEF DirNames
    <3>2. /\ <<2, i>> \o <<>> \in EntryNames(e, i)
          /\ \A k \in 1..4 : <<2, i>> \o <<k>> \in EntryNames(e, i)
      BY <2>1, <3>1, Zenon
    <3>3. <<2, i>> \in EntryNames(e, i) /\ \A k \in 1..4 : <<2, i, k>> \in EntryNames(e, i)
      BY <1>1, <1>2, <1>4, <3>2, Zenon
    <3> QED BY <3>3, <2>3, Zenon
  <2> QED BY <1>6, <2>2, <2>3, Zenon
<1> QED BY <1>5, <1>6

(* Where everything is in an archive as it was written.                    *)
InFile(f, comp) ==
  IF FileContainer(f, comp).data.comp = "zstd"
  THEN Leaf(DataType, Zstd, Xxhash64, <<"zstd", f.body>>)
  ELSE Leaf(DataType, None, Xxhash64, <<f.body>>)
FileLaidOut(f, comp, i, nodes) ==
  /\ nodes[<<2, i>>] = Indexed(FileType, Xxhash64, 2)
  /\ nodes[<<2, i, 1>>] = Indexed(DictType, None, 4)
  /\ nodes[<<2, i, 2>>] = InFile(f, comp)
  /\ nodes[<<2, i, 1, 1>>] = Text(<<"pa">>) /\ nodes[<<2, i, 1, 2>>] = Text(f.path)
  /\ nodes[<<2, i, 1, 3>>] = Text(<<"un">>) /\ nodes[<<2, i, 1, 4>>] = Text(<<"owner">>)
DirLaidOut(d, i, nodes) ==
  /\ nodes[<<2, i>>] = Indexed(DirType, Xxhash64, 4)
  /\ nodes[<<2, i, 1>>] = Text(<<"pa">>) /\ nodes[<<2, i, 2>>] = Text(d.path)
  /\ nodes[<<2, i, 3>>] = Text(<<"xh">>)
  /\ nodes[<<2, i, 4>>] = Leaf(DataType, None, None, <<"hash">>)

(* What ArchivesAssumption says of the entries of an archive.              *)
LEMMA EntryCountType ==
  ASSUME NEW a \in Archives
  PROVE  /\ Len(a.entries) \in Nat /\ DOMAIN a.entries = 1 .. Len(a.entries)
         /\ a.comp \in CompIds
         /\ \A i \in DOMAIN a.entries : i \in Nat /\ i > 0 /\ IsEntry(a.entries[i])
<1>1. a.entries \in Seq(ToSet(a.entries)) /\ a.comp \in CompIds
      /\ \A i \in DOMAIN a.entries : IsEntry(a.entries[i])
  BY ArchivesAssumption
<1>2. Len(a.entries) \in Nat /\ DOMAIN a.entries = 1 .. Len(a.entries)
  BY <1>1, LenProperties
<1> QED BY <1>1, <1>2

(* No part of an entry has the name of one of the three outer containers.  *)
LEMMA DistinctNames ==
  ASSUME NEW i \in Nat, NEW k \in Nat, NEW l \in Nat
  PROVE  /\ Root # <<1>> /\ Root # Body /\ Body # <<1>>
         /\ <<2, i>> \notin {Root, <<1>>, Body} /\ <<2, i, k>> \notin {Root, <<1>>, Body}
         /\ <<2, i, k, l>> \notin {Root, <<1>>, Body}
  BY DEF Root, Body

(* createArchive writes the outer array, the magic and the body as         *)
(* Serialized lays them out, ...                                           *)
LEMMA OuterLayout ==
  ASSUME NEW a \in Archives
  PROVE  /\ DOMAIN Serialized(a) = Names(a.entries)
         /\ Serialized(a)[Root] = Indexed(ArrayType, Blake3_128, 2)
         /\ Serialized(a)[<<1>>] = Leaf(DataType, None, None, <<Magic(a.entries)>>)
         /\ Serialized(a)[Body] = Indexed(ArrayType, None, Len(a.entries))
<1>1. Root \in Names(a.entries) /\ <<1>> \in Names(a.entries) /\ Body \in Names(a.entries)
  BY Zenon DEF Names
<1>2. Root # <<1>> /\ Root # Body /\ Body # <<1>>
  BY DistinctNames
<1> QED BY <1>1, <1>2, Zenon DEF Serialized

(* ... and each FILE and DIR.                                              *)
LEMMA EntryLayout ==
  ASSUME NEW a \in Archives, NEW i \in DOMAIN a.entries
  PROVE  /\ IsFile(a.entries[i]) =>
              FileLaidOut(a.entries[i], a.comp, i, Serialized(a))
         /\ ~IsFile(a.entries[i]) => DirLaidOut(a.entries[i], i, Serialized(a))
<1> DEFINE e == a.entries[i]
           entry(n, q) == IF IsFile(a.entries[n[2]]) THEN FileNode(a.entries[n[2]], a.comp, q)
                                                     ELSE DirNode(a.entries[n[2]], q)
<1>1. i \in Nat
  BY EntryCountType
<1>2. \A n \in EntryNames(e, i) : n \in Names(a.entries)
  BY Zenon DEF Names
<1>3. \A n \in Names(a.entries) :
        n \notin {Root, <<1>>, Body} =>
          Serialized(a)[n] = entry(n, SubSeq(n, 3, Len(n)))
  BY Zenon DEF Serialized
<1>4. /\ <<2, i>> \in EntryNames(e, i) =>
           Serialized(a)[<<2, i>>] = entry(<<2, i>>, <<>>)
      /\ \A k \in Nat : <<2, i, k>> \in EntryNames(e, i) =>
           Serialized(a)[<<2, i, k>>] = entry(<<2, i, k>>, <<k>>)
      /\ \A k, l \in Nat : <<2, i, k, l>> \in EntryNames(e, i) =>
           Serialized(a)[<<2, i, k, l>>] = entry(<<2, i, k, l>>, <<k, l>>)
  <2> HIDE DEF entry, e
  <2>1. \A k, l \in Nat :
          /\ <<2, i>> \notin {Root, <<1>>, Body} /\ <<2, i, k>> \notin {Root, <<1>>, Body}
          /\ <<2, i, k, l>> \notin {Root, <<1>>, Body}
          /\ SubSeq(<<2, i>>, 3, Len(<<2, i>>)) = <<>>
          /\ SubSeq(<<2, i, k>>, 3, Len(<<2, i, k>>)) = <<k>>
          /\ SubSeq(<<2, i, k, l>>, 3, Len(<<2, i, k, l>>)) = <<k, l>>
    BY <1>1, DistinctNames, NameEnds
  <2>2. ASSUME NEW k \in Nat, NEW l \in Nat
        PROVE  /\ <<2, i>> \in EntryNames(e, i) =>
                    Serialized(a)[<<2, i>>] = entry(<<2, i>>, <<>>)
               /\ <<2, i, k>> \in EntryNames(e, i) =>
                    Serialized(a)[<<2, i, k>>] = entry(<<2, i, k>>, <<k>>)
               /\ <<2, i, k, l>> \in EntryNames(e, i) =>
                    Serialized(a)[<<2, i, k, l>>] = entry(<<2, i, k, l>>, <<k, l>>)
    BY <1>2, <1>3, <2>1, Zenon
  <2>3. 0 \in Nat
    OBVIOUS
  <2> QED BY <2>2, <2>3, Zenon
<1>5. \A k, l : <<2, i>>[2] = i /\ <<2, i, k>>[2] = i /\ <<2, i, k, l>>[2] = i
  OBVIOUS
<1>6. CASE IsFile(e)
  <2>1. /\ <<2, i>> \in EntryNames(e, i) /\ <<2, i, 1>> \in EntryNames(e, i)
        /\ <<2, i, 2>> \in EntryNames(e, i)
        /\ \A k \in 1..4 : <<2, i, 1, k>> \in EntryNames(e, i)
    BY <1>1, <1>6, EntryNamesAre, Zenon
  <2>2. \A n, q : n[2] = i => entry(n, q) = FileNode(e, a.comp, q)
    BY <1>6
  <2>3. 1 \in Nat /\ 2 \in Nat /\ \A k \in 1..4 : k \in Nat
    OBVIOUS
  <2> HIDE DEF entry, e
  <2>4. /\ Serialized(a)[<<2, i>>] = FileNode(e, a.comp, <<>>)
        /\ Serialized(a)[<<2, i, 1>>] = FileNode(e, a.comp, <<1>>)
        /\ Serialized(a)[<<2, i, 2>>] = FileNode(e, a.comp, <<2>>)
        /\ \A k \in 1..4 : Serialized(a)[<<2, i, 1, k>>] = FileNode(e, a.comp, <<1, k>>)
    <3>1. Serialized(a)[<<2, i>>] = FileNode(e, a.comp, <<>>)
      BY <1>4, <1>5, <2>1, <2>2, Zenon
    <3>2. Serialized(a)[<<2, i, 1>>] = FileNode(e, a.comp, <<1>>)
      BY <1>4, <1>5, <2>1, <2>2, <2>3, Zenon
    <3>3. Serialized(a)[<<2, i, 2>>] = FileNode(e, a.comp, <<2>>)
      BY <1>4, <1>5, <2>1, <2>2, <2>3, Zenon
    <3>4. ASSUME NEW k \in 1..4
          PROVE  Serialized(a)[<<2, i, 1, k>>] = FileNode(e, a.comp, <<1, k>>)
      <4>1. Serialized(a)[<<2, i, 1, k>>] = entry(<<2, i, 1, k>>, <<1, k>>)
        BY <1>4, <2>1, <2>3, Zenon
      <4> QED BY <1>5, <2>2, <4>1, Zenon
    <3> QED BY <3>1, <3>2, <3>3, <3>4, Zenon
  <2>5. FileContainer(e, a.comp).data.body = e.body
    BY DEF FileContainer
  <2>6. <<>> # <<1>> /\ <<>> # <<2>> /\ <<1>> # <<2>>
        /\ \A k : <<1, k>> # <<>> /\ <<1, k>> # <<1>> /\ <<1, k>> # <<2>> /\ <<1, k>>[2] = k
    OBVIOUS
  <2>7. /\ FileNode(e, a.comp, <<>>) = Indexed(FileType, Xxhash64, 2)
        /\ FileNode(e, a.comp, <<1>>) = Indexed(DictType, None, 4)
    BY <2>6, Zenon DEF FileNode
  <2>8. FileNode(e, a.comp, <<2>>) = InFile(e, a.comp)
    BY <2>5, <2>6, Zenon DEF FileNode, InFile
  <2> DEFINE pairs == Pairs(<<"pa">>, Text(e.path), <<"un">>, Text(<<"owner">>))
  <2>9. \A k : FileNode(e, a.comp, <<1, k>>) = pairs[k]
    BY <2>6, Zenon DEF FileNode
  <2>10. /\ pairs[1] = Text(<<"pa">>) /\ pairs[2] = Text(e.path)
         /\ pairs[3] = Text(<<"un">>) /\ pairs[4] = Text(<<"owner">>)
    BY DEF Pairs
  <2>11. 1 \in 1..4 /\ 2 \in 1..4 /\ 3 \in 1..4 /\ 4 \in 1..4
    OBVIOUS
  <2> HIDE DEF pairs
  <2>12. FileLaidOut(e, a.comp, i, Serialized(a))
    BY <2>4, <2>7, <2>8, <2>9, <2>10, <2>11, Zenon DEF FileLaidOut
  <2> QED BY <1>6, <2>12 DEF e
<1>7. CASE ~IsFile(e)
  <2>1. /\ <<2, i>> \in EntryNames(e, i)
        /\ \A k \in 1..4 : <<2, i, k>> \in EntryNames(e, i)
    BY <1>1, <1>7, EntryNamesAre, Zenon
  <2>2. \A n, q : n[2] = i => entry(n, q) = DirNode(e, q)
    BY <1>7
  <2>3. \A k \in 1..4 : k \in Nat
    OBVIOUS
  <2> HIDE DEF entry, e
  <2>4. /\ Serialized(a)[<<2, i>>] = DirNode(e, <<>>)
        /\ \A k \in 1..4 : Serialized(a)[<<2, i, k>>] = DirNode(e, <<k>>)
    BY <1>4, <1>5, <2>1, <2>2, <2>3, Zenon
  <2>6. \A k : <<k>> # <<>> /\ <<k>>[1] = k
    OBVIOUS
  <2>7. DirNode(e, <<>>) = Indexed(DirType, Xxhash64, 4)
    BY Zenon DEF DirNode
  <2> DEFINE pairs == Pairs(<<"pa">>, Text(e.path),
                            <<"xh">>, Leaf(DataType, None, None, <<"hash">>))
  <2>9. \A k : DirNode(e, <<k>>) = pairs[k]
    BY <2>6, Zenon DEF DirNode
  <2>10. /\ pairs[1] = Text(<<"pa">>) /\ pairs[2] = Text(e.path)
         /\ pairs[3] = Text(<<"xh">>) /\ pairs[4] = Leaf(DataType, None, None, <<"hash">>)
    BY DEF Pairs
  <2>11. 1 \in 1..4 /\ 2 \in 1..4 /\ 3 \in 1..4 /\ 4 \in 1..4
    OBVIOUS
  <2> HIDE DEF pairs
  <2>12. DirLaidOut(e, i, Serialized(a))
    BY <2>4, <2>7, <2>9, <2>10, <2>11, Zenon DEF DirLaidOut
  <2> QED BY <1>7, <2>12 DEF e
<1> QED BY <1>6, <1>7

-----------------------------------------------------------------------------
(* What one flipped bit leaves of the archive: one container differs, in   *)
(* its header's attributes alone or not in them at all.                    *)
IsNode(node) ==
  node = [attrs |-> node.attrs, length |-> node.length, index |-> node.index,
          end |-> node.end, payload |-> node.payload, sum |-> node.sum]
Shaped(node) ==
  /\ IsNode(node) /\ node.length = "own"
  /\ \E t \in 1..7, s \in {Xxhash64, Blake3_128} :
       node.attrs \in {Plain(t), Summed(t, s), Packed(t, s)}

Flips(v) == {FlipBit(v, b) : b \in 0..7}
HeaderFlipped(old, new) ==
  /\ new \in Seq(Int \X Int) /\ Len(new) = Len(old)
  /\ \E k \in 1 .. Len(old) :
       /\ \A j \in 1 .. Len(old) : j # k => new[j] = old[j]
       /\ \/ new[k][1] \in {0} \cup Flips(old[k][1]) /\ new[k][2] = old[k][2]
          \/ new[k][1] = old[k][1] /\ new[k][2] \in Flips(old[k][2])
Differs(old, new) ==
  \/ HeaderFlipped(old.attrs, new.attrs) /\ new = [old EXCEPT !.attrs = new.attrs]
  \/ new.attrs = old.attrs

OneFlip ==
  /\ DOMAIN stored = DOMAIN written
  /\ \/ stored = written
     \/ \E n \in DOMAIN written :
          /\ \A m \in DOMAIN written : m # n => stored[m] = written[m]
          /\ Differs(written[n], stored[n])
Archived ==
  /\ archive \in Archives
  /\ written = Serialized(archive)
  /\ stored = [n \in DOMAIN stored |-> stored[n]]

-----------------------------------------------------------------------------
(* Every container as it is written has one of the three forms of header:  *)
(* a leaf, ...                                                             *)
LEMMA LeafShaped ==
  ASSUME NEW t \in 1..7, NEW s \in {Xxhash64, Blake3_128}, NEW payload
  PROVE  /\ Shaped(Leaf(t, None, None, payload)) /\ Shaped(Leaf(t, None, s, payload))
         /\ Shaped(Leaf(t, Zstd, s, payload))
<1>1. t \in Nat /\ s \in Nat /\ s # 0
  BY DEF Xxhash64, Blake3_128
<1>2. /\ Header(t, None, None) = Plain(t) /\ Header(t, None, s) = Summed(t, s)
      /\ Header(t, Zstd, s) = Packed(t, s)
  BY <1>1, PlainHeader, SummedHeader, PackedHeader
<1>3. /\ Leaf(t, None, None, payload).attrs = Plain(t)
      /\ Leaf(t, None, s, payload).attrs = Summed(t, s)
      /\ Leaf(t, Zstd, s, payload).attrs = Packed(t, s)
      /\ Leaf(t, None, None, payload).length = "own"
      /\ Leaf(t, None, s, payload).length = "own"
      /\ Leaf(t, Zstd, s, payload).length = "own"
  BY <1>2 DEF Leaf
<1>4. \A comp, csum : IsNode(Leaf(t, comp, csum, payload))
  BY DEF IsNode, Leaf
<1> QED BY <1>3, <1>4, Zenon DEF Shaped

(* ... an array or a dict, ...                                             *)
LEMMA IndexedShaped ==
  ASSUME NEW t \in 1..7, NEW s \in {Xxhash64, Blake3_128}, NEW n
  PROVE  Shaped(Indexed(t, None, n)) /\ Shaped(Indexed(t, s, n))
<1>1. t \in Nat /\ s \in Nat /\ s # 0
  BY DEF Xxhash64, Blake3_128
<1>2. Header(t, None, None) = Plain(t) /\ Header(t, None, s) = Summed(t, s)
  BY <1>1, PlainHeader, SummedHeader
<1>3. /\ Indexed(t, None, n).attrs = Plain(t) /\ Indexed(t, s, n).attrs = Summed(t, s)
      /\ Indexed(t, None, n).length = "own" /\ Indexed(t, s, n).length = "own"
  BY <1>2 DEF Indexed
<1>4. \A csum : IsNode(Indexed(t, csum, n))
  BY DEF IsNode, Indexed
<1> QED BY <1>3, <1>4, Zenon DEF Shaped

(* ... for whatever is not an outer container is part of an entry, ...     *)
LEMMA AllNames ==
  ASSUME NEW a \in Archives, NEW n \in Names(a.entries)
  PROVE  \/ n \in {Root, <<1>>, Body}
         \/ \E i \in DOMAIN a.entries :
              IF IsFile(a.entries[i])
              THEN n \in {<<2, i>>, <<2, i, 1>>, <<2, i, 2>>} \cup {<<2, i, 1, k>> : k \in 1..4}
              ELSE n \in {<<2, i>>} \cup {<<2, i, k>> : k \in 1..4}
<1>1. CASE n \in {Root, <<1>>, Body}
  BY <1>1
<1>2. CASE n \in UNION {EntryNames(a.entries[i], i) : i \in DOMAIN a.entries}
  <2>1. PICK i \in DOMAIN a.entries : n \in EntryNames(a.entries[i], i)
    BY <1>2
  <2>2. i \in Nat
    BY EntryCountType
  <2> QED BY <2>1, <2>2, EntryNamesAre, Zenon
<1> QED BY <1>1, <1>2 DEF Names

(* ... hence every container of an archive.                                *)
LEMMA WrittenShaped ==
  ASSUME NEW a \in Archives, NEW n \in Names(a.entries)
  PROVE  Shaped(Serialized(a)[n])
<1> DEFINE S == Serialized(a)
<1>1. /\ ArrayType \in 1..7 /\ DictType \in 1..7 /\ Utf8Type \in 1..7 /\ DataType \in 1..7
      /\ FileType \in 1..7 /\ DirType \in 1..7
      /\ Xxhash64 \in {Xxhash64, Blake3_128} /\ Blake3_128 \in {Xxhash64, Blake3_128}
  BY DEF ArrayType, DictType, Utf8Type, DataType, FileType, DirType
<1>2. CASE n \in {Root, <<1>>, Body}
  <2>1. /\ S[Root] = Indexed(ArrayType, Blake3_128, 2)
        /\ S[<<1>>] = Leaf(DataType, None, None, <<Magic(a.entries)>>)
        /\ S[Body] = Indexed(ArrayType, None, Len(a.entries))
    BY OuterLayout
  <2> HIDE DEF S
  <2>2. Shaped(S[Root]) /\ Shaped(S[<<1>>]) /\ Shaped(S[Body])
    BY <1>1, <2>1, LeafShaped, IndexedShaped, Zenon
  <2> QED BY <1>2, <2>2, Zenon DEF S
<1>3. ASSUME NEW i \in DOMAIN a.entries, IsFile(a.entries[i]),
             n \in {<<2, i>>, <<2, i, 1>>, <<2, i, 2>>} \cup {<<2, i, 1, k>> : k \in 1..4}
      PROVE  Shaped(S[n])
  <2>1. FileLaidOut(a.entries[i], a.comp, i, S)
    BY <1>3, EntryLayout
  <2> HIDE DEF S
  <2>2. \A t : Shaped(Text(t))
    BY <1>1, LeafShaped, Zenon DEF Text
  <2>3. Shaped(S[<<2, i>>]) /\ Shaped(S[<<2, i, 1>>])
    BY <1>1, <2>1, IndexedShaped, Zenon DEF FileLaidOut
  <2>4. Shaped(S[<<2, i, 2>>])
    BY <1>1, <2>1, LeafShaped, Zenon DEF FileLaidOut, InFile
  <2>5. /\ Shaped(S[<<2, i, 1, 1>>]) /\ Shaped(S[<<2, i, 1, 2>>])
        /\ Shaped(S[<<2, i, 1, 3>>]) /\ Shaped(S[<<2, i, 1, 4>>])
    BY <2>1, <2>2, Zenon DEF FileLaidOut
  <2>6. \A k \in 1..4 : k = 1 \/ k = 2 \/ k = 3 \/ k = 4
    OBVIOUS
  <2> QED BY <1>3, <2>3, <2>4, <2>5, <2>6, Zenon
<1>4. ASSUME NEW i \in DOMAIN a.entries, ~IsFile(a.entries[i]),
             n \in {<<2, i>>} \cup {<<2, i, k>> : k \in 1..4}
      PROVE  Shaped(S[n])
  <2>1. DirLaidOut(a.entries[i], i, S)
    BY <1>4, EntryLayout
  <2> HIDE DEF S
  <2>2. \A t : Shaped(Text(t))
    BY <1>1, LeafShaped, Zenon DEF Text
  <2>3. Shaped(S[<<2, i>>]) /\ Shaped(S[<<2, i, 4>>])
    BY <1>1, <2>1, IndexedShaped, LeafShaped, Zenon DEF DirLaidOut
  <2>5. Shaped(S[<<2, i, 1>>]) /\ Shaped(S[<<2, i, 2>>]) /\ Shaped(S[<<2, i, 3>>])
    BY <2>1, <2>2, Zenon DEF DirLaidOut
  <2>6. \A k \in 1..4 : k = 1 \/ k = 2 \/ k = 3 \/ k = 4
    OBVIOUS
  <2> QED BY <1>4, <2>3, <2>5, <2>6, Zenon
<1> QED BY <1>2, <1>3, <1>4, AllNames, Zenon DEF S

-----------------------------------------------------------------------------
(* An attribute whose sigil occurs once has the value that follows it      *)
(* there, ...                                                              *)
LEMMA AttrFound ==
  ASSUME NEW n, NEW sigil, NEW k \in HeaderPlaces(n),
         \A j \in HeaderPlaces(n) : SigilAt(n, j) = sigil <=> j = k
  PROVE  AttrOf(n, sigil) = stored[n].attrs[k][2]
<1>1. (CHOOSE j \in HeaderPlaces(n) : SigilAt(n, j) = sigil) = k
  OBVIOUS
<1> QED BY <1>1, Zenon DEF AttrOf

(* ... and one whose sigil does not occur is not there.                    *)
LEMMA AttrMissing ==
  ASSUME NEW n, NEW sigil, \A j \in HeaderPlaces(n) : SigilAt(n, j) # sigil
  PROVE  AttrOf(n, sigil) = None
BY DEF AttrOf

(* What a flipped bit can make of the sigil of a checksum, its top bit     *)
(* aside.                                                                  *)
LEMMA CsumSigilFlipped ==
  ASSUME NEW s \in {0} \cup Flips(18)
  PROVE  s % 128 \in {0, 2, 16, 18, 19, 22, 26, 50, 82}
<1>1. \A b \in 0..7 : b = 0 \/ b = 1 \/ b = 2 \/ b = 3 \/ b = 4 \/ b = 5 \/ b = 6 \/ b = 7
  OBVIOUS
<1>2. /\ FlipBit(18, 0) = 19 /\ FlipBit(18, 1) = 16 /\ FlipBit(18, 2) = 22
      /\ FlipBit(18, 3) = 26 /\ FlipBit(18, 4) = 2 /\ FlipBit(18, 5) = 50
      /\ FlipBit(18, 6) = 82 /\ FlipBit(18, 7) = 146
  BY DEF FlipBit
<1>3. s \in {0, 19, 16, 22, 26, 2, 50, 82, 146}
  <2>1. CASE s = 0
    BY <2>1
  <2>2. CASE s \in Flips(18)
    <3>1. PICK b \in 0..7 : s = FlipBit(18, b)
      BY <2>2, Zenon DEF Flips
    <3>2. s \in {FlipBit(18, 0), FlipBit(18, 1), FlipBit(18, 2), FlipBit(18, 3),
                 FlipBit(18, 4), FlipBit(18, 5), FlipBit(18, 6), FlipBit(18, 7)}
      BY <1>1, <3>1, Zenon
    <3> QED BY <1>2, <3>2
  <2> QED BY <2>1, <2>2
<1> QED BY <1>3

(* What a header that parseLPHeader accepts looks like: the sigils known,  *)
(* ascending, the type first, VAL last, a DECOMP_LEN beside a COMP.        *)
LEMMA ParsedSigils ==
  ASSUME NEW n, parseLPHeader(n)
  PROVE  /\ SigilAt(n, 1) = 1 /\ SigilAt(n, Len(stored[n].attrs)) = 127
         /\ \A k \in HeaderPlaces(n) : SigilAt(n, k) \in {1, 16, 17, 18, 20, 127}
         /\ \A k \in 2 .. Len(stored[n].attrs) : SigilAt(n, k - 1) < SigilAt(n, k)
         /\ \A k \in HeaderPlaces(n) :
              SigilAt(n, k) = 18 => stored[n].attrs[k][2] \in 1..3
         /\ AttrOf(n, 16) # None => AttrOf(n, 17) # None
<1>1. \A k \in HeaderPlaces(n) :
        /\ SigilAt(n, k) \in Sigils \ {EncSigil, SigSigil}
        /\ stored[n].attrs[k][2] \in ValidValues(SigilAt(n, k))
  BY DEF parseLPHeader
<1>2. Sigils \ {EncSigil, SigSigil} = {1, 16, 17, 18, 20, 127}
  BY DEF Sigils, TypeSigil, CompSigil, DecompLenSigil, CsumSigil, EncSigil, SegSigil,
         SigSigil, ValSigil
<1>3. ValidValues(18) = 1..3
  BY DEF ValidValues, TypeSigil, CompSigil, CsumSigil
<1>4. SigilAt(n, 1) = 1 /\ SigilAt(n, Len(stored[n].attrs)) = 127 /\ Ascending(n)
      /\ DecompLenGiven(n)
  BY DEF parseLPHeader, TypeSigil, ValSigil
<1>5. \A k \in 2 .. Len(stored[n].attrs) : SigilAt(n, k - 1) < SigilAt(n, k)
  BY <1>4 DEF Ascending
<1>6. AttrOf(n, 16) # None => AttrOf(n, 17) # None
  BY <1>4 DEF DecompLenGiven, CompSigil, DecompLenSigil
<1> QED BY <1>1, <1>2, <1>3, <1>4, <1>5, <1>6, Zenon

(* A header as it was written announces what it was written with: type and *)
(* checksum, ...                                                           *)
LEMMA SummedKept ==
  ASSUME NEW n, NEW t \in 1..7, NEW s \in {2, 3}, stored[n].attrs = Summed(t, s)
  PROVE  Type(n) = t /\ Csum(n) = s /\ AttrOf(n, CompSigil) = None
<1>1. /\ HeaderPlaces(n) = 1..3 /\ SigilAt(n, 1) = 1 /\ SigilAt(n, 2) = 18
      /\ SigilAt(n, 3) = 127
      /\ stored[n].attrs[1][2] = t /\ stored[n].attrs[2][2] = s
  BY DEF HeaderPlaces, SigilAt, Summed
<1>2. \A k \in 1..3 : k = 1 \/ k = 2 \/ k = 3
  OBVIOUS
<1>3. AttrOf(n, 1) = t
  <2>1. \A j \in HeaderPlaces(n) : SigilAt(n, j) = 1 <=> j = 1
    BY <1>1, <1>2
  <2> QED BY <1>1, <2>1, AttrFound
<1>4. AttrOf(n, 18) = s
  <2>1. \A j \in HeaderPlaces(n) : SigilAt(n, j) = 18 <=> j = 2
    BY <1>1, <1>2
  <2> QED BY <1>1, <2>1, AttrFound
<1>5. AttrOf(n, 16) = None
  <2>1. \A j \in HeaderPlaces(n) : SigilAt(n, j) # 16
    BY <1>1, <1>2
  <2> QED BY <2>1, AttrMissing
<1> QED BY <1>3, <1>4, <1>5 DEF Type, Csum, TypeSigil, CsumSigil, CompSigil

(* ... type alone, ...                                                     *)
LEMMA PlainKept ==
  ASSUME NEW n, NEW t \in 1..7, stored[n].attrs = Plain(t)
  PROVE  Type(n) = t /\ Csum(n) = None /\ AttrOf(n, CompSigil) = None
<1>1. /\ HeaderPlaces(n) = 1..2 /\ SigilAt(n, 1) = 1 /\ SigilAt(n, 2) = 127
      /\ stored[n].attrs[1][2] = t
  BY DEF HeaderPlaces, SigilAt, Plain
<1>2. \A k \in 1..2 : k = 1 \/ k = 2
  OBVIOUS
<1>3. AttrOf(n, 1) = t
  <2>1. \A j \in HeaderPlaces(n) : SigilAt(n, j) = 1 <=> j = 1
    BY <1>1, <1>2
  <2> QED BY <1>1, <2>1, AttrFound
<1>4. \A j \in HeaderPlaces(n) : SigilAt(n, j) # 16 /\ SigilAt(n, j) # 18
  BY <1>1, <1>2
<1>5. AttrOf(n, 16) = None /\ AttrOf(n, 18) = None
  BY <1>4, AttrMissing
<1> QED BY <1>3, <1>5 DEF Type, Csum, TypeSigil, CsumSigil, CompSigil

(* ... or type, compression and checksum.                                  *)
LEMMA PackedKept ==
  ASSUME NEW n, NEW t \in 1..7, NEW s \in {2, 3}, stored[n].attrs = Packed(t, s)
  PROVE  Type(n) = t /\ Csum(n) = s /\ AttrOf(n, CompSigil) = Zstd
         /\ AttrOf(n, DecompLenSigil) = 64
<1>1. /\ HeaderPlaces(n) = 1..5 /\ SigilAt(n, 1) = 1 /\ SigilAt(n, 2) = 16
      /\ SigilAt(n, 3) = 17 /\ SigilAt(n, 4) = 18 /\ SigilAt(n, 5) = 127
      /\ stored[n].attrs[1][2] = t /\ stored[n].attrs[2][2] = 4
      /\ stored[n].attrs[3][2] = 64 /\ stored[n].attrs[4][2] = s
  BY DEF HeaderPlaces, SigilAt, Packed
<1>2. \A k \in 1..5 : k = 1 \/ k = 2 \/ k = 3 \/ k = 4 \/ k = 5
  OBVIOUS
<1>3. AttrOf(n, 1) = t
  <2>1. \A j \in HeaderPlaces(n) : SigilAt(n, j) = 1 <=> j = 1
    BY <1>1, <1>2
  <2> QED BY <1>1, <2>1, AttrFound
<1>4. AttrOf(n, 18) = s
  <2>1. \A j \in HeaderPlaces(n) : SigilAt(n, j) = 18 <=> j = 4
    BY <1>1, <1>2
  <2> QED BY <1>1, <2>1, AttrFound
<1>5. AttrOf(n, 16) = 4
  <2>1. \A j \in HeaderPlaces(n) : SigilAt(n, j) = 16 <=> j = 2
    BY <1>1, <1>2
  <2> QED BY <1>1, <2>1, AttrFound
<1>6. AttrOf(n, 17) = 64
  <2>1. \A j \in HeaderPlaces(n) : SigilAt(n, j) = 17 <=> j = 3
    BY <1>1, <1>2
  <2> QED BY <1>1, <2>1, AttrFound
<1> QED BY <1>3, <1>4, <1>5, <1>6
        DEF Type, Csum, TypeSigil, CsumSigil, CompSigil, Zstd, DecompLenSigil

(* The same, with the attribute named.                                     *)
FlippedAt(old, new, k) ==
  /\ \A j \in 1 .. Len(old) : j # k => new[j] = old[j]
  /\ \/ new[k][1] \in {0} \cup Flips(old[k][1]) /\ new[k][2] = old[k][2]
     \/ new[k][1] = old[k][1] /\ new[k][2] \in Flips(old[k][2])

(* A flip hits one attribute of a header and keeps their number.           *)
LEMMA FlippedPlaces ==
  ASSUME NEW n, NEW old, HeaderFlipped(old, stored[n].attrs)
  PROVE  /\ Len(stored[n].attrs) = Len(old) /\ HeaderPlaces(n) = 1 .. Len(old)
         /\ \E k \in 1 .. Len(old) : FlippedAt(old, stored[n].attrs, k)
<1>1. stored[n].attrs \in Seq(Int \X Int) /\ Len(stored[n].attrs) = Len(old)
  BY DEF HeaderFlipped
<1>2. HeaderPlaces(n) = 1 .. Len(stored[n].attrs)
  BY <1>1, LenProperties DEF HeaderPlaces
<1> QED BY <1>1, <1>2, Zenon DEF HeaderFlipped, FlippedAt

(* The checksum of a header cannot be hidden by one flipped bit: an        *)
(* accepted header that was written with one still announces one, with a   *)
(* compression or ...                                                      *)
LEMMA SummedFlipped ==
  ASSUME NEW n, NEW t \in 1..7, NEW s \in {2, 3},
         HeaderFlipped(Summed(t, s), stored[n].attrs), parseLPHeader(n)
  PROVE  Csum(n) # None
<1> DEFINE attrs == stored[n].attrs
<1>1. /\ Len(Summed(t, s)) = 3 /\ Summed(t, s)[1] = <<1, t>>
      /\ Summed(t, s)[2] = <<18, s>> /\ Summed(t, s)[3] = <<127, 0>>
  BY DEF Summed
<1>2. PICK k \in 1..3 :
        /\ \A j \in 1..3 : j # k => attrs[j] = Summed(t, s)[j]
        /\ \/ attrs[k][1] \in {0} \cup Flips(Summed(t, s)[k][1])
              /\ attrs[k][2] = Summed(t, s)[k][2]
           \/ attrs[k][1] = Summed(t, s)[k][1] /\ attrs[k][2] \in Flips(Summed(t, s)[k][2])
  <2>1. \E k \in 1 .. Len(Summed(t, s)) : FlippedAt(Summed(t, s), attrs, k)
    BY FlippedPlaces, Zenon
  <2> QED BY <1>1, <2>1 DEF FlippedAt
<1>3. Len(attrs) = 3 /\ HeaderPlaces(n) = 1..3
  <2>1. Len(attrs) = Len(Summed(t, s)) /\ HeaderPlaces(n) = 1 .. Len(Summed(t, s))
    BY FlippedPlaces, Zenon
  <2> QED BY <1>1, <2>1
<1>4. SigilAt(n, 1) = 1 /\ SigilAt(n, 3) = 127
  <2>1. SigilAt(n, 1) = 1 /\ SigilAt(n, Len(attrs)) = 127
    BY ParsedSigils, Zenon
  <2> QED BY <1>3, <2>1
<1>5. \A j \in 1..3 : j = 1 \/ j = 2 \/ j = 3
  OBVIOUS
<1>6. SigilAt(n, 2) = 18 => attrs[2][2] # None
  <2>1. SigilAt(n, 2) = 18 => attrs[2][2] \in 1..3
    BY <1>3, ParsedSigils
  <2> QED BY <2>1 DEF None
<1>7. SigilAt(n, 2) = 18
  <2>1. CASE k = 2 /\ attrs[2][1] # 18
    <3>1. attrs[2][1] \in {0} \cup Flips(18) /\ attrs[2][2] = s
      BY <1>1, <1>2, <2>1
    <3>2. SigilAt(n, 2) \in {0, 2, 16, 18, 19, 22, 26, 50, 82}
      BY <3>1, CsumSigilFlipped DEF SigilAt
    <3>3. SigilAt(n, 2) \in {1, 16, 17, 18, 20, 127}
      BY <1>3, ParsedSigils
    <3>4. SigilAt(n, 2) # 16
      <4>1. SUFFICES ASSUME SigilAt(n, 2) = 16
                     PROVE  FALSE
        OBVIOUS
      <4>2. \A j \in HeaderPlaces(n) : SigilAt(n, j) = 16 <=> j = 2
        BY <1>3, <1>4, <1>5, <4>1
      <4>3. AttrOf(n, 16) = s
        BY <1>3, <3>1, <4>2, AttrFound
      <4>4. \A j \in HeaderPlaces(n) : SigilAt(n, j) # 17
        BY <1>3, <1>4, <1>5, <4>1
      <4>5. AttrOf(n, 17) = None
        BY <4>4, AttrMissing
      <4> QED BY <4>3, <4>5, ParsedSigils DEF None
    <3> QED BY <3>2, <3>3, <3>4
  <2>2. CASE k # 2 \/ attrs[2][1] = 18
    <3>1. attrs[2][1] = 18
      BY <1>1, <1>2, <2>2
    <3> QED BY <3>1 DEF SigilAt
  <2> QED BY <2>1, <2>2
<1>8. \A j \in HeaderPlaces(n) : SigilAt(n, j) = 18 <=> j = 2
  BY <1>3, <1>4, <1>5, <1>7
<1>9. AttrOf(n, 18) = attrs[2][2]
  BY <1>3, <1>8, AttrFound
<1> QED BY <1>6, <1>7, <1>9 DEF Csum, CsumSigil

(* ... without.                                                            *)
LEMMA PackedFlipped ==
  ASSUME NEW n, NEW t \in 1..7, NEW s \in {2, 3},
         HeaderFlipped(Packed(t, s), stored[n].attrs), parseLPHeader(n)
  PROVE  Csum(n) # None
<1> DEFINE attrs == stored[n].attrs
<1>1. /\ Len(Packed(t, s)) = 5 /\ Packed(t, s)[1] = <<1, t>>
      /\ Packed(t, s)[2] = <<16, 4>> /\ Packed(t, s)[3] = <<17, 64>>
      /\ Packed(t, s)[4] = <<18, s>> /\ Packed(t, s)[5] = <<127, 0>>
  BY DEF Packed
<1>2. PICK k \in 1..5 :
        /\ \A j \in 1..5 : j # k => attrs[j] = Packed(t, s)[j]
        /\ \/ attrs[k][1] \in {0} \cup Flips(Packed(t, s)[k][1])
              /\ attrs[k][2] = Packed(t, s)[k][2]
           \/ attrs[k][1] = Packed(t, s)[k][1] /\ attrs[k][2] \in Flips(Packed(t, s)[k][2])
  <2>1. \E k \in 1 .. Len(Packed(t, s)) : FlippedAt(Packed(t, s), attrs, k)
    BY FlippedPlaces, Zenon
  <2> QED BY <1>1, <2>1 DEF FlippedAt
<1>3. Len(attrs) = 5 /\ HeaderPlaces(n) = 1..5
  <2>1. Len(attrs) = Len(Packed(t, s)) /\ HeaderPlaces(n) = 1 .. Len(Packed(t, s))
    BY FlippedPlaces, Zenon
  <2> QED BY <1>1, <2>1
<1>4. SigilAt(n, 1) = 1 /\ SigilAt(n, 5) = 127
  <2>1. SigilAt(n, 1) = 1 /\ SigilAt(n, Len(attrs)) = 127
    BY ParsedSigils, Zenon
  <2> QED BY <1>3, <2>1
<1>5. \A j \in 1..5 : j = 1 \/ j = 2 \/ j = 3 \/ j = 4 \/ j = 5
  OBVIOUS
<1>6. SigilAt(n, 4) = 18 => attrs[4][2] # None
  <2>1. SigilAt(n, 4) = 18 => attrs[4][2] \in 1..3
    BY <1>3, ParsedSigils
  <2> QED BY <2>1 DEF None
<1>7. \A j \in 1..5 : SigilAt(n, j) \in {1, 16, 17, 18, 20, 127}
  BY <1>3, ParsedSigils
<1>8. /\ SigilAt(n, 1) < SigilAt(n, 2) /\ SigilAt(n, 2) < SigilAt(n, 3)
      /\ SigilAt(n, 3) < SigilAt(n, 4) /\ SigilAt(n, 4) < SigilAt(n, 5)
  <2>1. \A j \in 2..5 : SigilAt(n, j - 1) < SigilAt(n, j)
    BY <1>3, ParsedSigils
  <2>2. /\ SigilAt(n, 2 - 1) < SigilAt(n, 2) /\ SigilAt(n, 3 - 1) < SigilAt(n, 3)
        /\ SigilAt(n, 4 - 1) < SigilAt(n, 4) /\ SigilAt(n, 5 - 1) < SigilAt(n, 5)
    BY <2>1
  <2> QED BY <2>2
<1>9. SigilAt(n, 4) = 18
  <2>1. CASE k = 4 /\ attrs[4][1] # 18
    <3>1. attrs[4][1] \in {0} \cup Flips(18) /\ attrs[3][1] = 17
      BY <1>1, <1>2, <2>1
    <3>2. SigilAt(n, 4) \in {0, 2, 16, 18, 19, 22, 26, 50, 82}
      BY <3>1, CsumSigilFlipped DEF SigilAt
    <3>3. SigilAt(n, 3) = 17
      BY <3>1 DEF SigilAt
    <3> QED BY <1>7, <1>8, <3>2, <3>3
  <2>2. CASE k # 4 \/ attrs[4][1] = 18
    <3>1. attrs[4][1] = 18
      BY <1>1, <1>2, <2>2
    <3> QED BY <3>1 DEF SigilAt
  <2> QED BY <2>1, <2>2
<1>10. \A j \in HeaderPlaces(n) : SigilAt(n, j) = 18 <=> j = 4
  <2>1. SigilAt(n, 2) # 18 /\ SigilAt(n, 3) # 18
    <3>1. SigilAt(n, 2) \in Int /\ SigilAt(n, 3) \in Int
      BY <1>7
    <3> QED BY <1>8, <1>9, <3>1
  <2> QED BY <1>3, <1>4, <1>5, <1>9, <2>1
<1>11. AttrOf(n, 18) = attrs[4][2]
  BY <1>3, <1>10, AttrFound
<1> QED BY <1>6, <1>9, <1>11 DEF Csum, CsumSigil

(* Nor is one flipped bit enough to announce a compression or a checksum.  *)
LEMMA PlainFlipped ==
  ASSUME NEW n, NEW t \in 1..7, HeaderFlipped(Plain(t), stored[n].attrs), parseLPHeader(n)
  PROVE  AttrOf(n, CompSigil) = None /\ Csum(n) = None
<1>1. Len(Plain(t)) = 2
  BY DEF Plain
<1>2. Len(stored[n].attrs) = 2 /\ HeaderPlaces(n) = 1..2
  <2>1. /\ Len(stored[n].attrs) = Len(Plain(t)) /\ HeaderPlaces(n) = 1 .. Len(Plain(t))
    BY FlippedPlaces, Zenon
  <2> QED BY <1>1, <2>1
<1>3. SigilAt(n, 1) = 1 /\ SigilAt(n, 2) = 127
  <2>1. SigilAt(n, 1) = 1 /\ SigilAt(n, Len(stored[n].attrs)) = 127
    BY ParsedSigils, Zenon
  <2> QED BY <1>2, <2>1
<1>4. \A j \in 1..2 : j = 1 \/ j = 2
  OBVIOUS
<1>5. \A j \in HeaderPlaces(n) : SigilAt(n, j) # 16 /\ SigilAt(n, j) # 18
  BY <1>2, <1>3, <1>4
<1> QED BY <1>5, AttrMissing DEF CompSigil, Csum, CsumSigil

(* The type is what was written, or one bit away from it.                  *)
LEMMA TypeFlipped ==
  ASSUME NEW n, NEW t \in 1..7, NEW old, HeaderFlipped(old, stored[n].attrs),
         NEW N \in Nat, Len(old) = N, N > 0, old[1] = <<1, t>>, parseLPHeader(n)
  PROVE  Type(n) \in {t} \cup Flips(t)
<1> DEFINE attrs == stored[n].attrs
<1>1. PICK k \in 1..N :
        /\ \A j \in 1..N : j # k => attrs[j] = old[j]
        /\ \/ attrs[k][1] \in {0} \cup Flips(old[k][1]) /\ attrs[k][2] = old[k][2]
           \/ attrs[k][1] = old[k][1] /\ attrs[k][2] \in Flips(old[k][2])
  <2>1. \E k \in 1 .. Len(old) : FlippedAt(old, attrs, k)
    BY FlippedPlaces, Zenon
  <2> QED BY <2>1 DEF FlippedAt
<1>2. Len(attrs) = N /\ HeaderPlaces(n) = 1..N
  <2>1. Len(attrs) = Len(old) /\ HeaderPlaces(n) = 1 .. Len(old)
    BY FlippedPlaces, Zenon
  <2> QED BY <2>1
<1>3. SigilAt(n, 1) = 1
  BY ParsedSigils
<1>4. attrs[1][2] \in {t} \cup Flips(t)
  <2>1. <<1, t>>[2] = t
    OBVIOUS
  <2>2. CASE k = 1
    BY <1>1, <2>1, <2>2
  <2>3. CASE k # 1
    <3>1. attrs[1] = <<1, t>>
      BY <1>1, <2>3
    <3> QED BY <2>1, <3>1
  <2> QED BY <2>2, <2>3
<1>5. \A j \in 2..N : SigilAt(n, j) > 1
  <2>1. \A j \in 1..N : SigilAt(n, j) \in {1, 16, 17, 18, 20, 127}
    BY <1>2, ParsedSigils
  <2>2. \A j \in 2..N : SigilAt(n, j - 1) < SigilAt(n, j)
    BY <1>2, ParsedSigils
  <2> SUFFICES ASSUME NEW j \in 2..N
               PROVE  SigilAt(n, j) > 1
    OBVIOUS
  <2>3. j \in 1..N /\ j - 1 \in 1..N
    OBVIOUS
  <2>4. SigilAt(n, j) \in {1, 16, 17, 18, 20, 127}
        /\ SigilAt(n, j - 1) \in {1, 16, 17, 18, 20, 127}
    BY <2>1, <2>3
  <2>5. SigilAt(n, j - 1) < SigilAt(n, j)
    BY <2>2
  <2> QED BY <2>4, <2>5
<1>6. \A j \in HeaderPlaces(n) : SigilAt(n, j) = 1 <=> j = 1
  <2> SUFFICES ASSUME NEW j \in 1..N
               PROVE  SigilAt(n, j) = 1 <=> j = 1
    BY <1>2
  <2>1. j = 1 \/ j \in 2..N
    OBVIOUS
  <2> QED BY <1>3, <1>5, <2>1
<1>7. 1 \in HeaderPlaces(n)
  BY <1>2
<1>8. AttrOf(n, 1) = attrs[1][2]
  BY <1>6, <1>7, AttrFound
<1> QED BY <1>4, <1>8 DEF Type, TypeSigil

(* A byte with one bit flipped is a number.                                *)
LEMMA FlipsAreIntegers ==
  ASSUME NEW v \in Int, NEW b \in 0..7
  PROVE  FlipBit(v, b) \in Int
<1>1. 2^b \in Int
  <2>1. \A c \in 0..7 : c = 0 \/ c = 1 \/ c = 2 \/ c = 3 \/ c = 4 \/ c = 5 \/ c = 6 \/ c = 7
    OBVIOUS
  <2>2. 2^0 = 1 /\ 2^1 = 2 /\ 2^2 = 4 /\ 2^3 = 8 /\ 2^4 = 16 /\ 2^5 = 32 /\ 2^6 = 64 /\ 2^7 = 128
    OBVIOUS
  <2>3. 2^b \in {1, 2, 4, 8, 16, 32, 64, 128}
    BY <2>1, <2>2, Zenon
  <2> QED BY <2>3
<1>2. v + 2^b \in Int /\ v - 2^b \in Int
  BY <1>1
<1> QED BY <1>2, Zenon DEF FlipBit

(* FlippedAttrs hits one attribute.                                        *)
LEMMA FlippedHeader ==
  ASSUME NEW attrs \in Seq(Int \X Int), NEW new \in FlippedAttrs(attrs)
  PROVE  HeaderFlipped(attrs, new)
<1>1. Len(attrs) \in Nat /\ DOMAIN attrs = 1 .. Len(attrs)
  BY LenProperties
<1>2. PICK k \in DOMAIN attrs :
        \/ \E s \in {0} \cup Flips(attrs[k][1]) : new = [attrs EXCEPT ![k][1] = s]
        \/ \E b \in 0..7 : new = [attrs EXCEPT ![k][2] = FlipBit(attrs[k][2], b)]
  BY Zenon DEF FlippedAttrs, Flips
<1>3. k \in 1 .. Len(attrs) /\ attrs[k] \in Int \X Int
  BY <1>1, ElementOfSeq
<1>4. attrs[k][1] \in Int /\ attrs[k][2] \in Int /\ attrs[k] = <<attrs[k][1], attrs[k][2]>>
  BY <1>3
<1>5. PICK s, v :
        /\ new = [attrs EXCEPT ![k] = <<s, v>>] /\ s \in Int /\ v \in Int
        /\ \/ s \in {0} \cup Flips(attrs[k][1]) /\ v = attrs[k][2]
           \/ s = attrs[k][1] /\ v \in Flips(attrs[k][2])
  <2>1. ASSUME NEW s \in {0} \cup Flips(attrs[k][1]), new = [attrs EXCEPT ![k][1] = s]
        PROVE  new = [attrs EXCEPT ![k] = <<s, attrs[k][2]>>] /\ s \in Int
    <3>1. [attrs[k] EXCEPT ![1] = s] = <<s, attrs[k][2]>>
      BY <1>4
    <3>2. s \in Int
      <4>1. CASE s = 0
        BY <4>1
      <4>2. CASE s \in Flips(attrs[k][1])
        <5>1. PICK b \in 0..7 : s = FlipBit(attrs[k][1], b)
          BY <4>2, Zenon DEF Flips
        <5> QED BY <1>4, <5>1, FlipsAreIntegers
      <4> QED BY <2>1, <4>1, <4>2
    <3>3. new = [attrs EXCEPT ![k] = [attrs[k] EXCEPT ![1] = s]]
      BY <2>1
    <3> QED BY <3>1, <3>2, <3>3
  <2>2. ASSUME NEW b \in 0..7, new = [attrs EXCEPT ![k][2] = FlipBit(attrs[k][2], b)]
        PROVE  /\ new = [attrs EXCEPT ![k] = <<attrs[k][1], FlipBit(attrs[k][2], b)>>]
               /\ FlipBit(attrs[k][2], b) \in Int /\ FlipBit(attrs[k][2], b) \in Flips(attrs[k][2])
    <3> DEFINE v == FlipBit(attrs[k][2], b)
    <3>2. v \in Int /\ v \in Flips(attrs[k][2])
      BY <1>4, FlipsAreIntegers DEF Flips
    <3> HIDE DEF v
    <3>1. [attrs[k] EXCEPT ![2] = v] = <<attrs[k][1], v>>
      BY <1>4, <3>2
    <3>3. new = [attrs EXCEPT ![k] = [attrs[k] EXCEPT ![2] = v]]
      BY <2>2 DEF v
    <3> QED BY <3>1, <3>2, <3>3 DEF v
  <2> QED BY <1>2, <1>4, <2>1, <2>2, Zenon
<1>6. <<s, v>> \in Int \X Int
  BY <1>5
<1>7. new \in Seq(Int \X Int) /\ Len(new) = Len(attrs)
  BY <1>3, <1>5, <1>6, ExceptSeq
<1>8. new[k] = <<s, v>> /\ \A j \in 1 .. Len(attrs) : j # k => new[j] = attrs[j]
  BY <1>1, <1>3, <1>5
<1>9. new[k][1] = s /\ new[k][2] = v
  BY <1>8
<1> QED BY <1>3, <1>5, <1>7, <1>8, <1>9, Zenon DEF HeaderFlipped

(* The attributes that are written are pairs of numbers.                   *)
LEMMA ShapedAttrs ==
  ASSUME NEW node, Shaped(node)
  PROVE  node.attrs \in Seq(Int \X Int)
<1>1. PICK t \in 1..7, s \in {Xxhash64, Blake3_128} :
        node.attrs \in {Plain(t), Summed(t, s), Packed(t, s)}
  BY DEF Shaped
<1>2. t \in Int /\ s \in Int
  BY DEF Xxhash64, Blake3_128
<1>3. /\ Plain(t) \in Seq(Int \X Int) /\ Summed(t, s) \in Seq(Int \X Int)
      /\ Packed(t, s) \in Seq(Int \X Int)
  BY <1>2 DEF Plain, Summed, Packed
<1> QED BY <1>1, <1>3

(* FlippedNodes hits the header alone or leaves it alone.                  *)
LEMMA FlippedDiffers ==
  ASSUME NEW n, Shaped(stored[n]), NEW node \in FlippedNodes(n)
  PROVE  Differs(stored[n], node)
<1> DEFINE old == stored[n]
<1>1. old = [attrs |-> old.attrs, length |-> old.length, index |-> old.index,
             end |-> old.end, payload |-> old.payload, sum |-> old.sum]
  BY DEF Shaped, IsNode
<1>2. \/ \E a \in FlippedAttrs(old.attrs) : node = [old EXCEPT !.attrs = a]
      \/ \E l : node = [old EXCEPT !.length = l]
      \/ node = [old EXCEPT !.payload = Damaged]
      \/ \E x : node = [old EXCEPT !.index = x]
      \/ node = [old EXCEPT !.end = 0]
      \/ \E x, y : node = [old EXCEPT !.end = x, !.index = y]
      \/ node = [old EXCEPT !.sum = "wrong"]
  <2> DEFINE A == {[old EXCEPT !.attrs = a] : a \in {b \in FlippedAttrs(old.attrs) :
                                                        b[Len(b)][2] = None}}
             L == {[old EXCEPT !.length = l] : l \in {"long", "tiny", "cut"}}
             I == {[old EXCEPT !.index = x] : x \in FlippedIndexes(n) \ {old.index}}
             E == UNION {{[old EXCEPT !.end = 10 * j, !.index = <<p>>] : p \in Offsets(n)}
                         : j \in DOMAIN old.index}
  <2>1. FlippedNodes(n) = A \cup L
          \cup (IF old.end = 0 THEN {[old EXCEPT !.payload = Damaged]}
                ELSE I \cup {[old EXCEPT !.end = 0]} \cup E)
          \cup (IF WrittenCsum(n) = None THEN {} ELSE {[old EXCEPT !.sum = "wrong"]})
    BY Zenon DEF FlippedNodes
  <2> HIDE DEF A, L, I, E
  <2>2. \/ node \in A \/ node \in L \/ node = [old EXCEPT !.payload = Damaged]
        \/ node \in I \/ node = [old EXCEPT !.end = 0] \/ node \in E
        \/ node = [old EXCEPT !.sum = "wrong"]
    BY <2>1, Zenon
  <2>3. node \in A => \E a \in FlippedAttrs(old.attrs) : node = [old EXCEPT !.attrs = a]
    BY Zenon DEF A
  <2>4. node \in L => \E l : node = [old EXCEPT !.length = l]
    BY Zenon DEF L
  <2>5. node \in I => \E x : node = [old EXCEPT !.index = x]
    BY Zenon DEF I
  <2>6. ASSUME node \in E
        PROVE  \E x, y : node = [old EXCEPT !.end = x, !.index = y]
    <3>1. PICK j \in DOMAIN old.index, p \in Offsets(n) :
            node = [old EXCEPT !.end = 10 * j, !.index = <<p>>]
      BY <2>6, Zenon DEF E
    <3> QED BY <3>1
  <2> HIDE DEF old
  <2> QED BY <2>2, <2>3, <2>4, <2>5, <2>6, Zenon
<1>3. ASSUME NEW a \in FlippedAttrs(old.attrs), node = [old EXCEPT !.attrs = a]
      PROVE  HeaderFlipped(old.attrs, node.attrs) /\ node = [old EXCEPT !.attrs = node.attrs]
  <2>1. node.attrs = a
    BY <1>1, <1>3
  <2>2. HeaderFlipped(old.attrs, a)
    BY ShapedAttrs, FlippedHeader
  <2> QED BY <1>3, <2>1, <2>2
<1> HIDE DEF old
<1>4. ASSUME \/ \E l : node = [old EXCEPT !.length = l]
             \/ node = [old EXCEPT !.payload = Damaged]
             \/ \E x : node = [old EXCEPT !.index = x]
             \/ node = [old EXCEPT !.end = 0]
             \/ \E x, y : node = [old EXCEPT !.end = x, !.index = y]
             \/ node = [old EXCEPT !.sum = "wrong"]
      PROVE  node.attrs = old.attrs
  <2>1. \A l : [old EXCEPT !.length = l].attrs = old.attrs
    BY <1>1
  <2>2. [old EXCEPT !.payload = Damaged].attrs = old.attrs
    BY <1>1
  <2>3. \A x : [old EXCEPT !.index = x].attrs = old.attrs
    BY <1>1
  <2>4. [old EXCEPT !.end = 0].attrs = old.attrs
    BY <1>1
  <2>5. \A x, y : [old EXCEPT !.end = x, !.index = y].attrs = old.attrs
    BY <1>1
  <2>6. [old EXCEPT !.sum = "wrong"].attrs = old.attrs
    BY <1>1
  <2>7. ASSUME \E l : node = [old EXCEPT !.length = l] PROVE node.attrs = old.attrs
    BY <2>1, <2>7
  <2>8. ASSUME \E x : node = [old EXCEPT !.index = x] PROVE node.attrs = old.attrs
    BY <2>3, <2>8
  <2>9. ASSUME \E x, y : node = [old EXCEPT !.end = x, !.index = y]
        PROVE  node.attrs = old.attrs
    <3>1. PICK x, y : node = [old EXCEPT !.end = x, !.index = y]
      BY <2>9
    <3> QED BY <2>5, <3>1
  <2> QED BY <1>4, <2>2, <2>4, <2>6, <2>7, <2>8, <2>9, Zenon
<1> QED BY <1>2, <1>3, <1>4, Zenon DEF Differs, old

(* The archive as it was written, with at most one flip.                   *)
AtMostOneFlip == Archived /\ OneFlip

(* The state has the containers that were written, no more and no fewer.   *)
LEMMA WrittenNames ==
  ASSUME AtMostOneFlip
  PROVE  /\ archive \in Archives /\ DOMAIN written = Names(archive.entries)
         /\ DOMAIN stored = DOMAIN written
         /\ \A n \in DOMAIN written : Shaped(written[n])
<1>1. archive \in Archives /\ written = Serialized(archive) /\ DOMAIN stored = DOMAIN written
  BY DEF AtMostOneFlip, Archived, OneFlip
<1>2. DOMAIN written = Names(archive.entries)
  BY <1>1, OuterLayout
<1> QED BY <1>1, <1>2, WrittenShaped, Zenon

(* Containers are named by sequences of numbers.                           *)
LEMMA NamesAreSequences ==
  ASSUME AtMostOneFlip, NEW n \in DOMAIN written
  PROVE  n \in Seq(Nat)
<1>1. n \in Names(archive.entries) /\ archive \in Archives
  BY WrittenNames
<1>2. Root \in Seq(Nat) /\ <<1>> \in Seq(Nat) /\ Body \in Seq(Nat)
  BY DEF Root, Body
<1>3. ASSUME NEW i \in DOMAIN archive.entries,
             IF IsFile(archive.entries[i])
             THEN n \in {<<2, i>>, <<2, i, 1>>, <<2, i, 2>>} \cup {<<2, i, 1, k>> : k \in 1..4}
             ELSE n \in {<<2, i>>} \cup {<<2, i, k>> : k \in 1..4}
      PROVE  n \in Seq(Nat)
  <2>1. i \in Nat
    BY <1>1, EntryCountType
  <2>2. /\ <<2, i>> \in Seq(Nat) /\ <<2, i, 1>> \in Seq(Nat) /\ <<2, i, 2>> \in Seq(Nat)
        /\ \A k \in 1..4 : <<2, i, 1, k>> \in Seq(Nat) /\ <<2, i, k>> \in Seq(Nat)
    BY <2>1
  <2> QED BY <1>3, <2>2, Zenon
<1> QED BY <1>1, <1>2, <1>3, AllNames, Zenon

(* The outer array contains every container, and each contains itself.     *)
LEMMA UnderRoot ==
  ASSUME AtMostOneFlip, NEW n \in DOMAIN written
  PROVE  n \in Under(Root) /\ n \in Under(n)
<1>1. n \in Seq(Nat) /\ Len(n) \in Nat /\ n \in DOMAIN stored
  BY NamesAreSequences, WrittenNames, LenProperties
<1>2. Root = <<>> /\ Len(Root) = 0
  BY DEF Root
<1>3. SubSeq(n, 1, 0) = <<>> /\ SubSeq(Root, 1, 0) = <<>>
  BY SubSeqEmpty
<1>4. IsPrefix(Root, n)
  BY <1>1, <1>2, <1>3 DEF IsPrefix
<1>5. IsPrefix(n, n)
  BY <1>1 DEF IsPrefix
<1> QED BY <1>1, <1>4, <1>5 DEF Under

(* The header of a container is as written or has one flip.                *)
LEMMA KeptOrFlipped ==
  ASSUME AtMostOneFlip, NEW n \in DOMAIN written
  PROVE  \/ stored[n].attrs = written[n].attrs
         \/ HeaderFlipped(written[n].attrs, stored[n].attrs)
BY Zenon DEF AtMostOneFlip, OneFlip, Differs

(* If every container is as written, the archive is.                       *)
LEMMA NotReplaced ==
  ASSUME AtMostOneFlip, \A n \in DOMAIN written : stored[n] = written[n]
  PROVE  stored = written
<1>1. DOMAIN stored = DOMAIN written /\ stored = [n \in DOMAIN stored |-> stored[n]]
  BY Zenon DEF AtMostOneFlip, Archived, OneFlip
<1>2. written = [n \in DOMAIN written |-> written[n]]
  <2>1. \A a : Serialized(a) = [n \in DOMAIN Serialized(a) |-> Serialized(a)[n]]
    BY DEF Serialized
  <2> QED BY <2>1, Zenon DEF AtMostOneFlip, Archived
<1> QED BY <1>1, <1>2

(* A container that was written with a checksum and whose header is        *)
(* accepted still announces one, ...                                       *)
LEMMA ChecksumAnnounced ==
  ASSUME AtMostOneFlip, NEW n \in DOMAIN written, parseLPHeader(n),
         NEW t \in 1..7, NEW s \in {2, 3}, written[n].attrs \in {Summed(t, s), Packed(t, s)}
  PROVE  Csum(n) # None
<1>1. s # None
  BY DEF None
<1>2. CASE stored[n].attrs = written[n].attrs
  BY <1>1, <1>2, SummedKept, PackedKept
<1>3. CASE HeaderFlipped(written[n].attrs, stored[n].attrs)
  BY <1>3, SummedFlipped, PackedFlipped
<1> QED BY <1>2, <1>3, KeptOrFlipped

(* ... and one that announces a compression was written with a checksum.   *)
LEMMA CompressedIsSummed ==
  ASSUME AtMostOneFlip, NEW n \in DOMAIN written, parseLPHeader(n),
         AttrOf(n, CompSigil) # None
  PROVE  \E t \in 1..7, s \in {2, 3} : written[n].attrs \in {Summed(t, s), Packed(t, s)}
<1>1. Xxhash64 = 2 /\ Blake3_128 = 3
  BY DEF Xxhash64, Blake3_128
<1>2. PICK t \in 1..7, s \in {2, 3} :
        written[n].attrs \in {Plain(t), Summed(t, s), Packed(t, s)}
  BY <1>1, WrittenNames DEF Shaped
<1>3. written[n].attrs # Plain(t)
  <2>1. SUFFICES ASSUME written[n].attrs = Plain(t)
                 PROVE  AttrOf(n, CompSigil) = None
    OBVIOUS
  <2>2. CASE stored[n].attrs = written[n].attrs
    BY <2>1, <2>2, PlainKept
  <2>3. CASE HeaderFlipped(written[n].attrs, stored[n].attrs)
    BY <2>1, <2>3, PlainFlipped
  <2> QED BY <2>2, <2>3, KeptOrFlipped
<1> QED BY <1>2, <1>3, Zenon

(* The checksum a container was written with.                              *)
LEMMA WrittenCsums ==
  ASSUME NEW n, NEW t, NEW s
  PROVE  /\ written[n].attrs = Plain(t) => WrittenCsum(n) = None
         /\ written[n].attrs = Summed(t, s) => WrittenCsum(n) = s
         /\ written[n].attrs = Packed(t, s) => WrittenCsum(n) = s
<1> DEFINE places == {k \in DOMAIN written[n].attrs : written[n].attrs[k][1] = 18}
<1>1. WrittenCsum(n) = IF places = {} THEN None
                       ELSE written[n].attrs[CHOOSE k \in places : TRUE][2]
  BY Zenon DEF WrittenCsum, CsumSigil
<1>3. ASSUME written[n].attrs = Summed(t, s)
      PROVE  WrittenCsum(n) = s
  <2>1. places = {2}
    <3>1. DOMAIN Summed(t, s) = 1..3 /\ Summed(t, s)[1][1] = 1 /\ Summed(t, s)[2][1] = 18
          /\ Summed(t, s)[3][1] = 127
      BY DEF Summed
    <3>2. \A k \in 1..3 : k = 1 \/ k = 2 \/ k = 3
      OBVIOUS
    <3> QED BY <1>3, <3>1, <3>2
  <2>2. Summed(t, s)[2][2] = s
    BY DEF Summed
  <2>3. (CHOOSE k \in {2} : TRUE) = 2
    OBVIOUS
  <2> QED BY <1>1, <1>3, <2>1, <2>2, <2>3
<1>4. ASSUME written[n].attrs = Packed(t, s)
      PROVE  WrittenCsum(n) = s
  <2>1. places = {4}
    <3>1. DOMAIN Packed(t, s) = 1..5 /\ Packed(t, s)[1][1] = 1 /\ Packed(t, s)[2][1] = 16
          /\ Packed(t, s)[3][1] = 17 /\ Packed(t, s)[4][1] = 18 /\ Packed(t, s)[5][1] = 127
      BY DEF Packed
    <3>2. \A k \in 1..5 : k = 1 \/ k = 2 \/ k = 3 \/ k = 4 \/ k = 5
      OBVIOUS
    <3> QED BY <1>4, <3>1, <3>2
  <2>2. Packed(t, s)[4][2] = s
    BY DEF Packed
  <2>3. (CHOOSE k \in {4} : TRUE) = 4
    OBVIOUS
  <2> QED BY <1>1, <1>4, <2>1, <2>2, <2>3
<1>5. written[n].attrs = Plain(t) => WrittenCsum(n) = None
  <2>1. SUFFICES ASSUME written[n].attrs = Plain(t) PROVE WrittenCsum(n) = None
    OBVIOUS
  <2>2. places = {}
    <3>1. DOMAIN Plain(t) = 1..2 /\ Plain(t)[1][1] = 1 /\ Plain(t)[2][1] = 127
      BY DEF Plain
    <3>2. \A k \in 1..2 : k = 1 \/ k = 2
      OBVIOUS
    <3> QED BY <2>1, <3>1, <3>2
  <2> QED BY <1>1, <2>2
<1> QED BY <1>3, <1>4, <1>5, Zenon

(* What the checksum of the outer array approves is what was written       *)
(* (blar_archive_verify).                                                  *)
LEMMA RootApproved ==
  ASSUME AtMostOneFlip, IsArray(Root), verifyChecksum(Root)
  PROVE  stored = written
<1>1. Root \in DOMAIN written /\ written[Root] = Indexed(ArrayType, Blake3_128, 2)
  <2>1. Root \in Names(archive.entries) /\ archive \in Archives /\ written = Serialized(archive)
    BY Zenon DEF AtMostOneFlip, Archived, Names
  <2> QED BY <2>1, OuterLayout, WrittenNames, Zenon
<1>2. written[Root].attrs = Summed(1, 3)
  <2>1. Header(1, None, 3) = Summed(1, 3)
    BY SummedHeader
  <2> QED BY <1>1, <2>1 DEF Indexed, ArrayType, Blake3_128
<1>3. Csum(Root) # None
  <2>1. parseLPHeader(Root) /\ 1 \in 1..7 /\ 3 \in {2, 3}
    BY DEF IsArray
  <2>2. written[Root].attrs \in {Summed(1, 3), Packed(1, 3)}
    BY <1>2
  <2> QED BY <1>1, <2>1, <2>2, ChecksumAnnounced, Zenon
<1>4. \A n \in DOMAIN written : stored[n] = written[n]
  BY <1>3, UnderRoot DEF verifyChecksum
<1> QED BY <1>4, NotReplaced

(* AtMostOneFlip is inductive: it holds of an archive just written, ...    *)
LEMMA FlipInit ==
  ASSUME Init
  PROVE  AtMostOneFlip
<1>1. archive \in Archives /\ written = Serialized(archive) /\ stored = written
  BY DEF Init
<1>2. stored = [n \in DOMAIN stored |-> stored[n]]
  <2>1. \A a : Serialized(a) = [n \in DOMAIN Serialized(a) |-> Serialized(a)[n]]
    BY DEF Serialized
  <2> QED BY <1>1, <2>1, Zenon
<1> QED BY <1>1, <1>2, Zenon DEF AtMostOneFlip, Archived, OneFlip

(* ... after a flip, of which there is at most one, ...                    *)
LEMMA FlipKeeps ==
  ASSUME AtMostOneFlip, BitFlip
  PROVE  AtMostOneFlip'
<1>1. stored = written /\ answer = NoAnswer /\ UNCHANGED <<archive, written, answer>>
  BY DEF BitFlip
<1>2. PICK n \in DOMAIN stored : \E node \in FlippedNodes(n) :
        stored' = [stored EXCEPT ![n] = node]
  BY DEF BitFlip
<1>3. PICK node \in FlippedNodes(n) : stored' = [stored EXCEPT ![n] = node]
  BY <1>2
<1>4. Differs(written[n], node)
  <2>1. Shaped(stored[n])
    BY <1>1, <1>3, WrittenNames
  <2> QED BY <1>1, <1>3, <2>1, FlippedDiffers
<1>5. /\ DOMAIN stored' = DOMAIN written /\ n \in DOMAIN written
      /\ stored' = [m \in DOMAIN stored' |-> stored'[m]]
      /\ stored'[n] = node
      /\ \A m \in DOMAIN written : m # n => stored'[m] = written[m]
  <2> DEFINE d == [stored EXCEPT ![n] = node]
  <2>1. /\ DOMAIN d = DOMAIN stored /\ d = [m \in DOMAIN d |-> d[m]] /\ d[n] = node
        /\ \A m \in DOMAIN stored : m # n => d[m] = stored[m]
    OBVIOUS
  <2> HIDE DEF d
  <2> QED BY <1>1, <1>3, <2>1 DEF d
<1>6. OneFlip'
  BY <1>1, <1>4, <1>5, Zenon DEF OneFlip, Differs, HeaderFlipped
<1>7. Archived'
  BY <1>1, <1>5, Zenon DEF Archived, AtMostOneFlip
<1> QED BY <1>6, <1>7 DEF AtMostOneFlip

(* ... and after a call.                                                   *)
LEMMA CallKeeps ==
  ASSUME AtMostOneFlip, UNCHANGED <<archive, written, stored>>
  PROVE  AtMostOneFlip'
BY Zenon DEF AtMostOneFlip, Archived, OneFlip

(* elementBytesAt returns a container of the archive whose header is       *)
(* accepted, or an error.                                                  *)
LEMMA ContainerFound ==
  ASSUME AtMostOneFlip, NEW n, NEW i, containerAt(n, i) # NoNode
  PROVE  /\ containerAt(n, i) \in DOMAIN written
         /\ parseLPHeader(containerAt(n, i))
<1>1. \A offset : NodeAt(n, offset) \in DOMAIN written \cup {NoNode}
  BY Zenon DEF NodeAt
<1>2. ~parseLPHeader(NoNode)
  BY DEF parseLPHeader
<1>3. \E offset : containerAt(n, i) = NodeAt(n, offset) /\ parseLPHeader(NodeAt(n, offset))
  BY Zenon DEF containerAt
<1> QED BY <1>1, <1>2, <1>3, Zenon

(* So does reading an element of a FILE.                                   *)
LEMMA PartFound ==
  ASSUME AtMostOneFlip, NEW n, NEW k, PartOf(n, k) # NoNode
  PROVE  PartOf(n, k) \in DOMAIN written /\ parseLPHeader(PartOf(n, k))
BY ContainerFound, Zenon DEF PartOf

(* A container that is as it was written has the payload that was written. *)
LEMMA ApprovedPayload ==
  ASSUME AtMostOneFlip, NEW n \in DOMAIN written, stored[n] = written[n]
  PROVE  payloadSlice(n) = written[n].payload
<1>1. Xxhash64 = 2 /\ Blake3_128 = 3 /\ Shaped(written[n])
  BY WrittenNames DEF Xxhash64, Blake3_128
<1>2. PICK t \in 1..7, s \in {2, 3} :
        written[n].attrs \in {Plain(t), Summed(t, s), Packed(t, s)}
  BY <1>1 DEF Shaped
<1>3. Csum(n) = WrittenCsum(n)
  BY <1>2, PlainKept, SummedKept, PackedKept, WrittenCsums
<1>4. stored[n].length = "own" /\ "own" # "cut"
  BY <1>1 DEF Shaped
<1> QED BY <1>3, <1>4 DEF payloadSlice

(* decompressContainer hands to the decoder nothing or what was written: a *)
(* container that announces a compression announces its checksum, and      *)
(* verifyChecksum vouches for it.                                          *)
LEMMA DecoderFed ==
  ASSUME AtMostOneFlip
  PROVE  DecoderSeesWrittenBytes
<1> SUFFICES ASSUME NEW n, n \in DOMAIN written, parseLPHeader(n),
                    AttrOf(n, CompSigil) # None
             PROVE  DecoderInput(n) \in {Failed, written[n].payload}
  BY PartFound, Zenon DEF DecoderSeesWrittenBytes
<1>1. Csum(n) # None
  BY CompressedIsSummed, ChecksumAnnounced
<1>2. CASE verifyChecksum(n)
  <2>1. stored[n] = written[n]
    BY <1>1, <1>2, UnderRoot DEF verifyChecksum
  <2> QED BY <2>1, ApprovedPayload, Zenon DEF DecoderInput
<1>3. CASE ~verifyChecksum(n)
  BY <1>3, Zenon DEF DecoderInput, Vouched
<1> QED BY <1>2, <1>3

(* Names of elements.                                                      *)
LEMMA Appended ==
  ASSUME NEW i \in Nat, NEW k \in Nat, NEW l \in Nat
  PROVE  /\ Append(<<>>, k) = <<k>> /\ Append(<<2>>, k) = <<2, k>>
         /\ Append(<<2, i>>, k) = <<2, i, k>> /\ Append(<<2, i, k>>, l) = <<2, i, k, l>>
<1>1. ASSUME NEW s \in Seq(Nat), NEW t \in Seq(Nat), NEW x \in Nat, Len(t) = Len(s) + 1,
             \A j \in 1 .. Len(s) : t[j] = s[j], t[Len(s) + 1] = x
      PROVE  Append(s, x) = t
  <2>1. /\ Append(s, x) \in Seq(Nat) /\ Len(Append(s, x)) = Len(s) + 1
        /\ \A j \in 1 .. Len(s) : Append(s, x)[j] = s[j]
        /\ Append(s, x)[Len(s) + 1] = x
    BY AppendProperties
  <2>2. Len(s) \in Nat
    BY LenProperties
  <2>3. \A j \in 1 .. Len(Append(s, x)) : Append(s, x)[j] = t[j]
    <3>1. \A j \in 1 .. Len(s) + 1 : j \in 1 .. Len(s) \/ j = Len(s) + 1
      BY <2>2
    <3> QED BY <1>1, <2>1, <3>1
  <2>4. Len(Append(s, x)) = Len(t)
    BY <1>1, <2>1
  <2> QED BY <2>1, <2>3, <2>4, SeqEqual
<1>2. Append(<<>>, k) = <<k>>
  <2> DEFINE s == <<>>
             t == <<k>>
  <2>1. /\ s \in Seq(Nat) /\ t \in Seq(Nat) /\ Len(t) = Len(s) + 1
        /\ \A j \in 1 .. Len(s) : t[j] = s[j]
        /\ t[Len(s) + 1] = k
    OBVIOUS
  <2> HIDE DEF s, t
  <2>2. Append(s, k) = t
    BY <1>1, <2>1
  <2> QED BY <2>2 DEF s, t
<1>3. Append(<<2>>, k) = <<2, k>>
  <2> DEFINE s == <<2>>
             t == <<2, k>>
  <2>1. /\ s \in Seq(Nat) /\ t \in Seq(Nat) /\ Len(t) = Len(s) + 1
        /\ \A j \in 1 .. Len(s) : t[j] = s[j]
        /\ t[Len(s) + 1] = k
    OBVIOUS
  <2> HIDE DEF s, t
  <2>2. Append(s, k) = t
    BY <1>1, <2>1
  <2> QED BY <2>2 DEF s, t
<1>4. Append(<<2, i>>, k) = <<2, i, k>>
  <2> DEFINE s == <<2, i>>
             t == <<2, i, k>>
  <2>1. /\ s \in Seq(Nat) /\ t \in Seq(Nat) /\ Len(t) = Len(s) + 1
        /\ \A j \in 1 .. Len(s) : t[j] = s[j]
        /\ t[Len(s) + 1] = k
    <3>1. \A j \in 1..2 : j = 1 \/ j = 2
      OBVIOUS
    <3> QED BY <3>1
  <2> HIDE DEF s, t
  <2>2. Append(s, k) = t
    BY <1>1, <2>1
  <2> QED BY <2>2 DEF s, t
<1>5. Append(<<2, i, k>>, l) = <<2, i, k, l>>
  <2> DEFINE s == <<2, i, k>>
             t == <<2, i, k, l>>
  <2>1. /\ s \in Seq(Nat) /\ t \in Seq(Nat) /\ Len(t) = Len(s) + 1
        /\ \A j \in 1 .. Len(s) : t[j] = s[j]
        /\ t[Len(s) + 1] = l
    <3>1. \A j \in 1..3 : j = 1 \/ j = 2 \/ j = 3
      OBVIOUS
    <3> QED BY <3>1
  <2> HIDE DEF s, t
  <2>2. Append(s, l) = t
    BY <1>1, <2>1
  <2> QED BY <2>2 DEF s, t
<1> QED BY <1>2, <1>3, <1>4, <1>5

(* parseLPHeader accepts a header as it was written.                       *)
LEMMA HeaderParses ==
  ASSUME NEW n, n # NoNode, NEW t \in 1..7, NEW s \in {2, 3}, stored[n].length = "own",
         stored[n].attrs \in {Plain(t), Summed(t, s), Packed(t, s)}
  PROVE  parseLPHeader(n) /\ Type(n) = t
<1>1. Sigils \ {EncSigil, SigSigil} = {1, 16, 17, 18, 20, 127}
  BY DEF Sigils, TypeSigil, CompSigil, DecompLenSigil, CsumSigil, EncSigil, SegSigil,
         SigSigil, ValSigil
<1>2. /\ t \in ValidValues(1) /\ 4 \in ValidValues(16) /\ 64 \in ValidValues(17)
      /\ s \in ValidValues(18) /\ 0 \in ValidValues(127)
  BY DEF ValidValues, TypeSigil, CompSigil, CsumSigil
<1>3. Type(n) = t
  BY PlainKept, SummedKept, PackedKept
<1>4. DecompLenGiven(n)
  <2>1. CASE stored[n].attrs \in {Plain(t), Summed(t, s)}
    BY <2>1, PlainKept, SummedKept DEF DecompLenGiven
  <2>2. CASE stored[n].attrs = Packed(t, s)
    <3>1. AttrOf(n, DecompLenSigil) = 64
      BY <2>2, PackedKept
    <3> QED BY <3>1 DEF DecompLenGiven, None
  <2> QED BY <2>1, <2>2
<1> DEFINE Well == /\ \A k \in HeaderPlaces(n) :
                        /\ SigilAt(n, k) \in {1, 16, 17, 18, 20, 127}
                        /\ stored[n].attrs[k][2] \in ValidValues(SigilAt(n, k))
                   /\ SigilAt(n, 1) = 1 /\ SigilAt(n, Len(stored[n].attrs)) = 127
                   /\ \A k \in 2 .. Len(stored[n].attrs) :
                        SigilAt(n, k - 1) < SigilAt(n, k)
<1>5. ASSUME stored[n].attrs = Plain(t)
      PROVE  Well
  <2>1. /\ HeaderPlaces(n) = 1..2 /\ Len(stored[n].attrs) = 2
        /\ SigilAt(n, 1) = 1 /\ SigilAt(n, 2) = 127
        /\ stored[n].attrs[1][2] = t /\ stored[n].attrs[2][2] = 0
    BY <1>5 DEF HeaderPlaces, SigilAt, Plain
  <2>2. \A k \in 1..2 : k = 1 \/ k = 2
    OBVIOUS
  <2>3. \A k \in 2..2 : k = 2
    OBVIOUS
  <2>4. \A k \in HeaderPlaces(n) : /\ SigilAt(n, k) \in {1, 16, 17, 18, 20, 127}
                                   /\ stored[n].attrs[k][2] \in ValidValues(SigilAt(n, k))
    BY <1>2, <2>1, <2>2
  <2>5. \A k \in 2 .. Len(stored[n].attrs) : SigilAt(n, k - 1) < SigilAt(n, k)
    <3>1. SigilAt(n, 2 - 1) < SigilAt(n, 2)
      BY <2>1
    <3> QED BY <2>1, <2>3, <3>1
  <2> QED BY <2>1, <2>4, <2>5
<1>6. ASSUME stored[n].attrs = Summed(t, s)
      PROVE  Well
  <2>1. /\ HeaderPlaces(n) = 1..3 /\ Len(stored[n].attrs) = 3
        /\ SigilAt(n, 1) = 1 /\ SigilAt(n, 2) = 18 /\ SigilAt(n, 3) = 127
        /\ stored[n].attrs[1][2] = t /\ stored[n].attrs[2][2] = s
        /\ stored[n].attrs[3][2] = 0
    BY <1>6 DEF HeaderPlaces, SigilAt, Summed
  <2>2. \A k \in 1..3 : k = 1 \/ k = 2 \/ k = 3
    OBVIOUS
  <2>3. \A k \in 2..3 : k = 2 \/ k = 3
    OBVIOUS
  <2>4. \A k \in HeaderPlaces(n) : /\ SigilAt(n, k) \in {1, 16, 17, 18, 20, 127}
                                   /\ stored[n].attrs[k][2] \in ValidValues(SigilAt(n, k))
    BY <1>2, <2>1, <2>2
  <2>5. \A k \in 2 .. Len(stored[n].attrs) : SigilAt(n, k - 1) < SigilAt(n, k)
    <3>1. SigilAt(n, 2 - 1) < SigilAt(n, 2) /\ SigilAt(n, 3 - 1) < SigilAt(n, 3)
      BY <2>1
    <3> QED BY <2>1, <2>3, <3>1
  <2> QED BY <2>1, <2>4, <2>5
<1>7. ASSUME stored[n].attrs = Packed(t, s)
      PROVE  Well
  <2>1. /\ HeaderPlaces(n) = 1..5 /\ Len(stored[n].attrs) = 5
        /\ SigilAt(n, 1) = 1 /\ SigilAt(n, 2) = 16 /\ SigilAt(n, 3) = 17
        /\ SigilAt(n, 4) = 18 /\ SigilAt(n, 5) = 127
        /\ stored[n].attrs[1][2] = t /\ stored[n].attrs[2][2] = 4
        /\ stored[n].attrs[3][2] = 64 /\ stored[n].attrs[4][2] = s
        /\ stored[n].attrs[5][2] = 0
    BY <1>7 DEF HeaderPlaces, SigilAt, Packed
  <2>2. \A k \in 1..5 : k = 1 \/ k = 2 \/ k = 3 \/ k = 4 \/ k = 5
    OBVIOUS
  <2>3. \A k \in 2..5 : k = 2 \/ k = 3 \/ k = 4 \/ k = 5
    OBVIOUS
  <2>4. \A k \in HeaderPlaces(n) : /\ SigilAt(n, k) \in {1, 16, 17, 18, 20, 127}
                                   /\ stored[n].attrs[k][2] \in ValidValues(SigilAt(n, k))
    BY <1>2, <2>1, <2>2
  <2>5. \A k \in 2 .. Len(stored[n].attrs) : SigilAt(n, k - 1) < SigilAt(n, k)
    <3>1. /\ SigilAt(n, 2 - 1) < SigilAt(n, 2) /\ SigilAt(n, 3 - 1) < SigilAt(n, 3)
          /\ SigilAt(n, 4 - 1) < SigilAt(n, 4) /\ SigilAt(n, 5 - 1) < SigilAt(n, 5)
      BY <2>1
    <3> QED BY <2>1, <2>3, <3>1
  <2> QED BY <2>1, <2>4, <2>5
<1>8. Well
  BY <1>5, <1>6, <1>7
<1>9. parseLPHeader(n)
  BY <1>1, <1>4, <1>8, Zenon DEF parseLPHeader, Ascending, TypeSigil, ValSigil
<1> QED BY <1>3, <1>9

(* A container as Leaf makes it.                                           *)
ReadsAsLeaf(n, t, comp, payload) ==
  /\ parseLPHeader(n) /\ Type(n) = t /\ AttrOf(n, CompSigil) = comp
  /\ payloadSlice(n) = payload /\ readLeaf(n, t) = payload

(* A leaf as it was written is read back, ...                              *)
LEMMA LeafRead ==
  ASSUME NEW n, n # NoNode, NEW t \in 1..7, NEW comp, NEW csum,
         <<comp, csum>> \in {<<None, None>>, <<None, Xxhash64>>, <<Zstd, Xxhash64>>},
         NEW payload, stored[n] = Leaf(t, comp, csum, payload), written[n] = stored[n]
  PROVE  ReadsAsLeaf(n, t, comp, payload)
<1>1. Xxhash64 = 2 /\ None = 0
  BY DEF Xxhash64, None
<1>2. /\ stored[n].length = "own" /\ stored[n].payload = payload
      /\ stored[n].attrs = Header(t, comp, csum) /\ written[n].attrs = stored[n].attrs
  BY DEF Leaf
<1>3. /\ Header(t, None, None) = Plain(t) /\ Header(t, None, 2) = Summed(t, 2)
      /\ Header(t, Zstd, 2) = Packed(t, 2)
  <2>1. t \in Nat /\ 2 \in Nat /\ 2 # 0
    OBVIOUS
  <2> QED BY <2>1, PlainHeader, SummedHeader, PackedHeader
<1>4. \/ comp = None /\ stored[n].attrs \in {Plain(t), Summed(t, 2)}
      \/ comp = Zstd /\ stored[n].attrs = Packed(t, 2)
  BY <1>1, <1>2, <1>3
<1>5. parseLPHeader(n) /\ Type(n) = t
  <2>1. 2 \in {2, 3}
    OBVIOUS
  <2> QED BY <1>2, <1>4, <2>1, HeaderParses
<1>6. AttrOf(n, CompSigil) = comp /\ Csum(n) = WrittenCsum(n)
  <2>1. 2 \in {2, 3}
    OBVIOUS
  <2> QED BY <1>2, <1>4, <2>1, PlainKept, SummedKept, PackedKept, WrittenCsums
<1>7. payloadSlice(n) = payload
  <2>1. "own" # "cut"
    OBVIOUS
  <2> QED BY <1>2, <1>6, <2>1, Zenon DEF payloadSlice
<1> QED BY <1>5, <1>6, <1>7, Zenon DEF ReadsAsLeaf, readLeaf

(* A container as Indexed makes it.                                        *)
ReadsAsIndexed(n, t, csum, N) ==
  /\ parseLPHeader(n) /\ Type(n) = t /\ Csum(n) = csum
  /\ IsArray(n) <=> t \in {ArrayType, FileType}
  /\ IsDict(n) <=> t \in {DictType, MapType, DirType}
  /\ Len(stored[n].index) = N
  /\ \A m : \A i \in 1..N :
       (m \in DOMAIN written /\ m = Append(n, i) /\ parseLPHeader(m)) =>
         containerAt(n, i) = m
  /\ \A m : \A k \in Nat :
       (/\ k > 0 /\ 2 * k - 1 <= N /\ m \in DOMAIN written
        /\ m = Append(n, 2 * k - 1) /\ parseLPHeader(m)) =>
         keyAt(n, k) = m

(* ... and in an array or a dict as it was written every element and key   *)
(* is found.                                                               *)
LEMMA IndexedRead ==
  ASSUME NEW n, n # NoNode, NEW t \in 1..7, NEW csum \in {None, Xxhash64, Blake3_128},
         NEW N \in Nat, stored[n] = Indexed(t, csum, N)
  PROVE  ReadsAsIndexed(n, t, csum, N)
<1>1. Xxhash64 = 2 /\ Blake3_128 = 3 /\ None = 0
  BY DEF Xxhash64, Blake3_128, None
<1>2. /\ stored[n].length = "own" /\ stored[n].end = 10 * (N + 1)
      /\ stored[n].index = [k \in 1..N |-> 10 * k]
      /\ stored[n].attrs = Header(t, None, csum)
  BY DEF Indexed
<1>3. Header(t, None, None) = Plain(t) /\ Header(t, None, 2) = Summed(t, 2)
      /\ Header(t, None, 3) = Summed(t, 3)
  <2>1. t \in Nat /\ 2 \in Nat /\ 2 # 0 /\ 3 \in Nat /\ 3 # 0
    OBVIOUS
  <2> QED BY <2>1, PlainHeader, SummedHeader
<1>4. \/ csum = None /\ stored[n].attrs = Plain(t)
      \/ csum \in {2, 3} /\ stored[n].attrs = Summed(t, csum)
  BY <1>1, <1>2, <1>3
<1>5. parseLPHeader(n) /\ Type(n) = t
  <2>1. 2 \in {2, 3} /\ 3 \in {2, 3}
    OBVIOUS
  <2> QED BY <1>2, <1>4, <2>1, HeaderParses
<1>6. Csum(n) = csum
  BY <1>4, PlainKept, SummedKept
<1>7. stored[n].end > 0
  BY <1>2
<1>8. Len(stored[n].index) = N /\ DOMAIN stored[n].index = 1..N
      /\ \A k \in 1..N : stored[n].index[k] = 10 * k
  BY <1>2
<1>9. ASSUME NEW k \in 1..N, NEW m, m \in DOMAIN written, m = Append(n, k)
      PROVE  NodeAt(n, 10 * k) = m
  <2>1. (10 * k) \div 10 = k /\ (10 * k) % 10 = 0 /\ 10 * k > 0
    OBVIOUS
  <2> QED BY <1>9, <2>1, Zenon DEF NodeAt
<1>10. ASSUME NEW i \in 1..N, NEW m, m \in DOMAIN written, m = Append(n, i), parseLPHeader(m)
       PROVE  containerAt(n, i) = m
  <2> DEFINE from == stored[n].index[i]
             to == IF i < Len(stored[n].index) THEN stored[n].index[i + 1]
                                               ELSE stored[n].end
  <2>1. from = 10 * i /\ to = 10 * i + 10
    <3>1. CASE i < N
      <4>1. i + 1 \in 1..N
        BY <3>1
      <4> QED BY <1>8, <3>1, <4>1
    <3>2. CASE i = N
      BY <1>2, <1>8, <3>2
    <3> QED BY <3>1, <3>2
  <2>2. from < to /\ EndOf(from) <= to
    <3>1. (10 * i) % 10 = 0
      OBVIOUS
    <3>2. EndOf(from) = 10 * i + 10
      BY <2>1, <3>1 DEF EndOf
    <3> QED BY <2>1, <3>2
  <2>3. NodeAt(n, from) = m
    BY <1>9, <1>10, <2>1
  <2>4. i \in DOMAIN stored[n].index
    BY <1>8
  <2> QED BY <1>10, <2>2, <2>3, <2>4, Zenon DEF containerAt
<1>11. ASSUME NEW k \in Nat, NEW m, k > 0, 2 * k - 1 <= N, m \in DOMAIN written,
              m = Append(n, 2 * k - 1), parseLPHeader(m)
       PROVE  keyAt(n, k) = m
  <2>1. 2 * k - 1 \in 1..N
    BY <1>11
  <2>2. NodeAt(n, stored[n].index[2 * k - 1]) = m
    BY <1>8, <1>9, <1>11, <2>1
  <2> QED BY <1>11, <2>2, Zenon DEF keyAt
<1>12. /\ IsArray(n) <=> t \in {ArrayType, FileType}
       /\ IsDict(n) <=> t \in {DictType, MapType, DirType}
  BY <1>2, <1>5, <1>7, Zenon DEF IsArray, IsDict
<1> QED BY <1>5, <1>6, <1>8, <1>10, <1>11, <1>12, Zenon DEF ReadsAsIndexed

(* findKey finds the first of two keys: it looks at the second first, then *)
(* at the first.                                                           *)
LEMMA FirstKeyFound ==
  ASSUME NEW n, NEW key, Len(stored[n].index) = 4,
         keyAt(n, 1) # NoNode, keyAt(n, 2) # NoNode,
         NEW r1 \in Nat, NEW r2 \in Nat, r1 < r2, KeyRank(key) = r1,
         KeyRank(payloadSlice(keyAt(n, 1))) = r1,
         KeyRank(payloadSlice(keyAt(n, 2))) = r2
  PROVE  findKey(n, key) = 1
<1> DEFINE B == (1..3) \X (1..3)
           Is(search) == search = [r \in B |-> Probe(n, key, search, r[1], r[2])]
           w == [r \in B |-> IF r[1] = 1 /\ r[2] # 1 THEN 1 ELSE 0]
<1>1. \A search, lo, hi : lo >= hi => Probe(n, key, search, lo, hi) = 0
  BY Zenon DEF Probe
<1>2. \A search : Probe(n, key, search, 1, 2) = 1
  <2>1. 1 + (2 - 1) \div 2 = 1 /\ ~(1 >= 2)
    OBVIOUS
  <2> QED BY <2>1, Zenon DEF Probe
<1>3. \A search : Probe(n, key, search, 1, 3) = search[<<1, 2>>]
  <2>1. 1 + (3 - 1) \div 2 = 2 /\ ~(1 >= 3) /\ r2 # r1 /\ ~(r2 < r1)
    OBVIOUS
  <2> QED BY <2>1, Zenon DEF Probe
<1>4. \A search : Probe(n, key, search, 2, 3) = search[<<2, 2>>]
  <2>1. 2 + (3 - 2) \div 2 = 2 /\ ~(2 >= 3) /\ r2 # r1 /\ ~(r2 < r1)
    OBVIOUS
  <2> QED BY <2>1, Zenon DEF Probe
<1>5. Is(w)
  <2>1. ASSUME NEW r \in B
        PROVE  w[r] = Probe(n, key, w, r[1], r[2])
    <3>1. /\ r[1] \in 1..3 /\ r[2] \in 1..3
          /\ w[r] = IF r[1] = 1 /\ r[2] # 1 THEN 1 ELSE 0
      OBVIOUS
    <3>2. w[<<1, 2>>] = 1 /\ w[<<2, 2>>] = 0
      <4>1. <<1, 2>> \in B /\ <<2, 2>> \in B
        OBVIOUS
      <4> QED BY <4>1
    <3> HIDE DEF w
    <3>3. CASE r[1] >= r[2]
      BY <1>1, <3>1, <3>3
    <3>4. CASE r[1] = 1 /\ r[2] = 2
      BY <1>2, <3>1, <3>4
    <3>5. CASE r[1] = 1 /\ r[2] = 3
      BY <1>3, <3>1, <3>2, <3>5
    <3>6. CASE r[1] = 2 /\ r[2] = 3
      BY <1>4, <3>1, <3>2, <3>6
    <3> QED BY <3>1, <3>3, <3>4, <3>5, <3>6
  <2>2. DOMAIN w = B /\ w = [r \in B |-> w[r]]
    OBVIOUS
  <2> HIDE DEF w
  <2>3. [r \in B |-> w[r]] = [r \in B |-> Probe(n, key, w, r[1], r[2])]
    BY <2>1, Zenon
  <2> QED BY <2>2, <2>3, Zenon
<1> DEFINE found == CHOOSE search : Is(search)
<1>6. Is(found)
  <2> HIDE DEF Is
  <2> QED BY <1>5, Zenon
<1>7. findKey(n, key) = found[<<1, 3>>]
  <2>1. 4 \div 2 + 1 = 3
    OBVIOUS
  <2> DEFINE L == Len(stored[n].index) \div 2
  <2>2. findKey(n, key) =
          (CHOOSE search : search = [r \in (1 .. L + 1) \X (1 .. L + 1) |->
                                       Probe(n, key, search, r[1], r[2])])[<<1, L + 1>>]
    BY DEF findKey
  <2>3. L + 1 = 3
    BY <2>1
  <2> HIDE DEF L
  <2> QED BY <2>2, <2>3, Zenon
<1> HIDE DEF found
<1>8. <<1, 3>> \in B /\ <<1, 2>> \in B /\ <<1, 3>>[1] = 1 /\ <<1, 3>>[2] = 3
      /\ <<1, 2>>[1] = 1 /\ <<1, 2>>[2] = 2
  OBVIOUS
<1>9. \A r \in B : found[r] = Probe(n, key, found, r[1], r[2])
  BY <1>6, Zenon
<1>10. found[<<1, 3>>] = Probe(n, key, found, 1, 3) /\ found[<<1, 2>>] = Probe(n, key, found, 1, 2)
  <2> HIDE DEF B, Is
  <2> QED BY <1>8, <1>9, Zenon
<1> QED BY <1>2, <1>3, <1>7, <1>10

-----------------------------------------------------------------------------
(* An entry none of whose containers was hit.                              *)
Kept(j) == \A m \in Under(<<2, j>>) : stored[m] = written[m]

(* IsPrefix is an order on the names of containers: a prefix agrees with   *)
(* the sequence, ...                                                       *)
LEMMA PrefixAgrees ==
  ASSUME NEW u \in Seq(Nat), NEW v \in Seq(Nat), IsPrefix(u, v), NEW i \in 1 .. Len(u)
  PROVE  u[i] = v[i]
<1>1. Len(u) \in Nat /\ Len(v) \in Nat /\ Len(u) <= Len(v)
      /\ SubSeq(u, 1, Len(u)) = SubSeq(v, 1, Len(u))
  BY LenProperties DEF IsPrefix
<1>2. (\A k \in 1 .. Len(u) : u[k] \in Nat) /\ (\A k \in 1 .. Len(u) : v[k] \in Nat)
  <2>1. \A k \in 1 .. Len(v) : v[k] \in Nat
    BY ElementOfSeq
  <2>2. \A k \in 1 .. Len(u) : u[k] \in Nat
    BY ElementOfSeq
  <2> QED BY <1>1, <2>1, <2>2
<1>3. \A k \in 1 .. Len(SubSeq(u, 1, Len(u))) : SubSeq(u, 1, Len(u))[k] = u[1 + k - 1]
  BY <1>1, <1>2, SubSeqProperties
<1>4. \A k \in 1 .. Len(SubSeq(v, 1, Len(u))) : SubSeq(v, 1, Len(u))[k] = v[1 + k - 1]
  BY <1>1, <1>2, SubSeqProperties
<1>5. Len(SubSeq(u, 1, Len(u))) = Len(u)
  BY <1>1, <1>2, SubSeqProperties
<1>6. SubSeq(u, 1, Len(u))[i] = u[i] /\ SubSeq(v, 1, Len(u))[i] = v[i]
  BY <1>1, <1>3, <1>4, <1>5
<1> QED BY <1>1, <1>6

(* ... a prefix of a prefix is one, ...                                    *)
LEMMA PrefixTransitive ==
  ASSUME NEW r \in Seq(Nat), NEW s \in Seq(Nat), NEW t \in Seq(Nat),
         IsPrefix(r, s), IsPrefix(s, t)
  PROVE  IsPrefix(r, t)
<1>1. Len(r) \in Nat /\ Len(s) \in Nat /\ Len(t) \in Nat /\ Len(r) <= Len(s) /\ Len(s) <= Len(t)
  BY LenProperties DEF IsPrefix
<1>3. \A i \in 1 .. Len(r) : r[i] = t[i]
  BY <1>1, PrefixAgrees
<1>4. SubSeq(r, 1, Len(r)) = SubSeq(t, 1, Len(r))
  <2>1. (\A k \in 1 .. Len(r) : r[k] \in Nat) /\ (\A k \in 1 .. Len(r) : t[k] \in Nat)
    <3>1. \A k \in 1 .. Len(t) : t[k] \in Nat
      BY ElementOfSeq
    <3>2. \A k \in 1 .. Len(r) : r[k] \in Nat
      BY ElementOfSeq
    <3> QED BY <1>1, <3>1, <3>2
  <2>2. /\ SubSeq(r, 1, Len(r)) \in Seq(Nat) /\ Len(SubSeq(r, 1, Len(r))) = Len(r)
        /\ \A k \in 1 .. Len(SubSeq(r, 1, Len(r))) : SubSeq(r, 1, Len(r))[k] = r[1 + k - 1]
    BY <1>1, <2>1, SubSeqProperties
  <2>3. /\ SubSeq(t, 1, Len(r)) \in Seq(Nat) /\ Len(SubSeq(t, 1, Len(r))) = Len(r)
        /\ \A k \in 1 .. Len(SubSeq(t, 1, Len(r))) : SubSeq(t, 1, Len(r))[k] = t[1 + k - 1]
    BY <1>1, <2>1, SubSeqProperties
  <2>4. \A k \in 1 .. Len(SubSeq(r, 1, Len(r))) : SubSeq(r, 1, Len(r))[k] = SubSeq(t, 1, Len(r))[k]
    BY <1>1, <1>3, <2>2, <2>3
  <2>5. Len(SubSeq(r, 1, Len(r))) = Len(SubSeq(t, 1, Len(r)))
    BY <2>2, <2>3
  <2> QED BY <2>2, <2>3, <2>4, <2>5, SeqEqual
<1> QED BY <1>1, <1>4 DEF IsPrefix

(* ... and the parts of an entry are under it.                             *)
LEMMA PartsUnder ==
  ASSUME NEW i \in Nat, NEW k \in Nat, NEW l \in Nat
  PROVE  /\ IsPrefix(<<2, i>>, <<2, i>>) /\ IsPrefix(<<2, i>>, <<2, i, k>>)
         /\ IsPrefix(<<2, i>>, <<2, i, k, l>>)
<1> DEFINE p == <<2, i>>
           u == <<2, i, k>>
           v == <<2, i, k, l>>
<1>1. /\ p \in Seq(Nat) /\ u \in Seq(Nat) /\ v \in Seq(Nat) /\ Len(p) = 2 /\ Len(u) = 3 /\ Len(v) = 4
      /\ p[1] = 2 /\ p[2] = i /\ u[1] = 2 /\ u[2] = i /\ v[1] = 2 /\ v[2] = i
  OBVIOUS
<1> HIDE DEF p, u, v
<1>2. ASSUME NEW w \in Seq(Nat), Len(w) \in 2..4, w[1] = 2, w[2] = i
      PROVE  IsPrefix(p, w)
  <2>1. \A j \in 1..2 : j = 1 \/ j = 2
    OBVIOUS
  <2>2. (\A j \in 1..2 : p[j] \in Nat) /\ (\A j \in 1..2 : w[j] \in Nat)
    BY <1>1, <1>2, <2>1
  <2>3. /\ SubSeq(p, 1, 2) \in Seq(Nat) /\ Len(SubSeq(p, 1, 2)) = 2
        /\ SubSeq(p, 1, 2)[1] = p[1] /\ SubSeq(p, 1, 2)[2] = p[2]
    BY <2>2, SubSeqProperties
  <2>4. /\ SubSeq(w, 1, 2) \in Seq(Nat) /\ Len(SubSeq(w, 1, 2)) = 2
        /\ SubSeq(w, 1, 2)[1] = w[1] /\ SubSeq(w, 1, 2)[2] = w[2]
    BY <2>2, SubSeqProperties
  <2>5. \A j \in 1 .. Len(SubSeq(p, 1, 2)) : SubSeq(p, 1, 2)[j] = SubSeq(w, 1, 2)[j]
    BY <1>1, <1>2, <2>1, <2>3, <2>4
  <2>6. SubSeq(p, 1, 2) = SubSeq(w, 1, 2)
    BY <2>3, <2>4, <2>5, SeqEqual
  <2>7. Len(p) <= Len(w)
    BY <1>1, <1>2
  <2> QED BY <1>1, <2>6, <2>7 DEF IsPrefix
<1>3. 2 \in 2..4 /\ 3 \in 2..4 /\ 4 \in 2..4
  OBVIOUS
<1>4. IsPrefix(p, p) /\ IsPrefix(p, u) /\ IsPrefix(p, v)
  BY <1>1, <1>2, <1>3
<1> QED BY <1>4 DEF p, u, v

(* The containers of an entry are there, ...                               *)
LEMMA NamesOfEntry ==
  ASSUME AtMostOneFlip, NEW j \in DOMAIN archive.entries
  PROVE  /\ j \in Nat /\ <<2, j>> \in DOMAIN written
         /\ IsFile(archive.entries[j]) =>
              /\ <<2, j, 1>> \in DOMAIN written /\ <<2, j, 2>> \in DOMAIN written
              /\ \A k \in 1..4 : <<2, j, 1, k>> \in DOMAIN written
         /\ ~IsFile(archive.entries[j]) => \A k \in 1..4 : <<2, j, k>> \in DOMAIN written
<1>1. archive \in Archives /\ DOMAIN written = Names(archive.entries)
  BY WrittenNames
<1>2. j \in Nat
  BY <1>1, EntryCountType
<1>3. \A n \in EntryNames(archive.entries[j], j) : n \in DOMAIN written
  BY <1>1, Zenon DEF Names
<1> QED BY <1>2, <1>3, EntryNamesAre, Zenon

(* ... and none is the error value.                                        *)
LEMMA NoNodeDistinct ==
  ASSUME NEW j, NEW k, NEW l
  PROVE  /\ <<2>> # NoNode /\ <<>> # NoNode /\ <<1>> # NoNode
         /\ <<2, j>> # NoNode /\ <<2, j, k>> # NoNode /\ <<2, j, k, l>> # NoNode
BY DEF NoNode

(* An entry none of whose containers was hit is laid out as it was         *)
(* written, ...                                                            *)
LEMMA KeptContainers ==
  ASSUME AtMostOneFlip, NEW j \in DOMAIN archive.entries, Kept(j)
  PROVE  /\ stored[<<2, j>>] = written[<<2, j>>]
         /\ IsFile(archive.entries[j]) =>
              /\ stored[<<2, j, 1>>] = written[<<2, j, 1>>]
              /\ stored[<<2, j, 2>>] = written[<<2, j, 2>>]
              /\ \A k \in 1..4 : stored[<<2, j, 1, k>>] = written[<<2, j, 1, k>>]
              /\ FileLaidOut(archive.entries[j], archive.comp, j, stored)
         /\ ~IsFile(archive.entries[j]) =>
              /\ \A k \in 1..4 : stored[<<2, j, k>>] = written[<<2, j, k>>]
              /\ DirLaidOut(archive.entries[j], j, stored)
<1>1. archive \in Archives /\ written = Serialized(archive) /\ DOMAIN stored = DOMAIN written
  BY Zenon DEF AtMostOneFlip, Archived, OneFlip
<1>2. j \in Nat
  BY NamesOfEntry
<1>3. \A m \in DOMAIN written : IsPrefix(<<2, j>>, m) => stored[m] = written[m]
  BY <1>1, Zenon DEF Kept, Under
<1>4. /\ IsPrefix(<<2, j>>, <<2, j>>)
      /\ \A k \in Nat : IsPrefix(<<2, j>>, <<2, j, k>>)
      /\ \A k, l \in Nat : IsPrefix(<<2, j>>, <<2, j, k, l>>)
  BY <1>2, PartsUnder
<1>5. 1 \in Nat /\ 2 \in Nat /\ \A k \in 1..4 : k \in Nat
  OBVIOUS
<1>6. stored[<<2, j>>] = written[<<2, j>>]
  BY <1>3, <1>4, NamesOfEntry, Zenon
<1>7. 1 \in 1..4 /\ 2 \in 1..4 /\ 3 \in 1..4 /\ 4 \in 1..4
  OBVIOUS
<1>8. ASSUME IsFile(archive.entries[j])
      PROVE  /\ stored[<<2, j, 1>>] = written[<<2, j, 1>>]
             /\ stored[<<2, j, 2>>] = written[<<2, j, 2>>]
             /\ \A k \in 1..4 : stored[<<2, j, 1, k>>] = written[<<2, j, 1, k>>]
             /\ FileLaidOut(archive.entries[j], archive.comp, j, stored)
  <2>1. /\ stored[<<2, j, 1>>] = written[<<2, j, 1>>]
        /\ stored[<<2, j, 2>>] = written[<<2, j, 2>>]
        /\ \A k \in 1..4 : stored[<<2, j, 1, k>>] = written[<<2, j, 1, k>>]
    BY <1>3, <1>4, <1>5, <1>8, NamesOfEntry, Zenon
  <2>2. FileLaidOut(archive.entries[j], archive.comp, j, written)
    BY <1>1, <1>8, EntryLayout
  <2>3. /\ stored[<<2, j, 1, 1>>] = written[<<2, j, 1, 1>>]
        /\ stored[<<2, j, 1, 2>>] = written[<<2, j, 1, 2>>]
        /\ stored[<<2, j, 1, 3>>] = written[<<2, j, 1, 3>>]
        /\ stored[<<2, j, 1, 4>>] = written[<<2, j, 1, 4>>]
    BY <1>7, <2>1, Zenon
  <2>4. FileLaidOut(archive.entries[j], archive.comp, j, stored)
    BY <1>6, <2>1, <2>2, <2>3, Zenon DEF FileLaidOut
  <2> QED BY <2>1, <2>4
<1>9. ASSUME ~IsFile(archive.entries[j])
      PROVE  /\ \A k \in 1..4 : stored[<<2, j, k>>] = written[<<2, j, k>>]
             /\ DirLaidOut(archive.entries[j], j, stored)
  <2>1. \A k \in 1..4 : stored[<<2, j, k>>] = written[<<2, j, k>>]
    BY <1>3, <1>4, <1>5, <1>9, NamesOfEntry, Zenon
  <2>2. DirLaidOut(archive.entries[j], j, written)
    BY <1>1, <1>9, EntryLayout
  <2>3. /\ stored[<<2, j, 1>>] = written[<<2, j, 1>>] /\ stored[<<2, j, 2>>] = written[<<2, j, 2>>]
        /\ stored[<<2, j, 3>>] = written[<<2, j, 3>>] /\ stored[<<2, j, 4>>] = written[<<2, j, 4>>]
    BY <1>7, <2>1, Zenon
  <2>4. DirLaidOut(archive.entries[j], j, stored)
    BY <1>6, <2>2, <2>3, Zenon DEF DirLaidOut
  <2> QED BY <2>1, <2>4
<1> QED BY <1>6, <1>8, <1>9

(* ... and its checksums are right.                                        *)
LEMMA KeptVerifies ==
  ASSUME AtMostOneFlip, NEW j \in DOMAIN archive.entries, Kept(j)
  PROVE  /\ verifyChecksum(<<2, j>>)
         /\ IsFile(archive.entries[j]) => verifyChecksum(<<2, j, 2>>)
<1>1. verifyChecksum(<<2, j>>)
  BY Zenon DEF verifyChecksum, Kept
<1>2. ASSUME IsFile(archive.entries[j])
      PROVE  verifyChecksum(<<2, j, 2>>)
  <2>0. j \in Nat
    BY NamesOfEntry
  <2>1. j \in Nat /\ 2 \in Nat /\ <<2, j>> \in Seq(Nat) /\ <<2, j, 2>> \in Seq(Nat)
    BY <2>0
  <2>2. IsPrefix(<<2, j>>, <<2, j, 2>>)
    BY <2>1, PartsUnder
  <2>3. ASSUME NEW m \in Under(<<2, j, 2>>)
        PROVE  stored[m] = written[m]
    <3>1. m \in DOMAIN stored /\ IsPrefix(<<2, j, 2>>, m)
      BY Zenon DEF Under
    <3>2. m \in Seq(Nat)
      BY <3>1, NamesAreSequences, WrittenNames
    <3>3. IsPrefix(<<2, j>>, m)
      BY <2>1, <2>2, <3>1, <3>2, PrefixTransitive
    <3> QED BY <3>1, <3>3, Zenon DEF Kept, Under
  <2> QED BY <2>3 DEF verifyChecksum
<1> QED BY <1>1, <1>2

(* The texts in the metadata and in a DIR are read back.                   *)
LEMMA TextRead ==
  ASSUME NEW n, n # NoNode, NEW t, stored[n] = Text(t), written[n] = stored[n]
  PROVE  parseLPHeader(n) /\ payloadSlice(n) = t /\ readLeaf(n, Utf8Type) = t
<1>1. Utf8Type \in 1..7
  BY DEF Utf8Type
<1>2. stored[n] = Leaf(Utf8Type, None, None, t)
  BY DEF Text
<1>3. ReadsAsLeaf(n, Utf8Type, None, t)
  BY <1>1, <1>2, LeafRead
<1> QED BY <1>3 DEF ReadsAsLeaf

(* The keys are in the order in which they are written.                    *)
LEMMA Ranks ==
  KeyRank(<<"pa">>) = 1 /\ KeyRank(<<"un">>) = 2 /\ KeyRank(<<"xh">>) = 3
<1>1. /\ <<"un">> # <<"pa">> /\ <<"xh">> # <<"pa">> /\ <<"xh">> # <<"un">>
  OBVIOUS
<1> QED BY <1>1 DEF KeyRank

(* readEntryPath: a dict as it was written gives the value of its key      *)
(* "pa".                                                                   *)
LEMMA PathKeyFound ==
  ASSUME NEW n, n # NoNode, NEW t \in {DictType, DirType}, NEW csum \in {None, Xxhash64},
         stored[n] = Indexed(t, csum, 4),
         NEW k1, k1 = Append(n, 1), k1 \in DOMAIN written, k1 # NoNode,
         stored[k1] = Text(<<"pa">>), written[k1] = stored[k1],
         NEW k2, k2 = Append(n, 3), k2 \in DOMAIN written, k2 # NoNode,
         NEW other \in {"un", "xh"}, stored[k2] = Text(<<other>>), written[k2] = stored[k2],
         NEW v, v = Append(n, 2), v \in DOMAIN written, v # NoNode,
         NEW path, stored[v] = Text(path), written[v] = stored[v]
  PROVE  /\ parseLPHeader(n) /\ Type(n) = t /\ IsDict(n) /\ ~IsArray(n)
         /\ readLeaf(ValueOf(n, <<"pa">>), Utf8Type) = path
<1>1. t \in 1..7 /\ csum \in {None, Xxhash64, Blake3_128} /\ 4 \in Nat
      /\ t \in {DictType, MapType, DirType} /\ t \notin {ArrayType, FileType}
  BY DEF DictType, MapType, DirType, ArrayType, FileType
<1>2. /\ parseLPHeader(k1) /\ payloadSlice(k1) = <<"pa">>
      /\ parseLPHeader(k2) /\ payloadSlice(k2) = <<other>>
      /\ parseLPHeader(v) /\ readLeaf(v, Utf8Type) = path
  BY TextRead
<1>3. ReadsAsIndexed(n, t, csum, 4)
  BY <1>1, IndexedRead
<1>4. parseLPHeader(n) /\ Type(n) = t /\ IsDict(n) /\ ~IsArray(n) /\ Len(stored[n].index) = 4
  BY <1>1, <1>3, Zenon DEF ReadsAsIndexed
<1>6. containerAt(n, 2) = v
  <2>1. 2 \in 1..4
    OBVIOUS
  <2> QED BY <1>2, <1>3, <2>1, Zenon DEF ReadsAsIndexed
<1>7. keyAt(n, 1) = k1 /\ keyAt(n, 2) = k2
  <2>1. 1 \in Nat /\ 2 \in Nat /\ 1 > 0 /\ 2 > 0 /\ 2 * 1 - 1 = 1 /\ 2 * 2 - 1 = 3
        /\ 2 * 1 - 1 <= 4 /\ 2 * 2 - 1 <= 4
    OBVIOUS
  <2> QED BY <1>2, <1>3, <2>1, Zenon DEF ReadsAsIndexed
<1>8. KeyRank(<<other>>) \in Nat /\ 1 < KeyRank(<<other>>) /\ 1 \in Nat
  BY Ranks
<1>9. findKey(n, <<"pa">>) = 1
  <2> DEFINE r2 == KeyRank(<<other>>)
  <2>1. /\ KeyRank(<<"pa">>) = 1 /\ KeyRank(payloadSlice(keyAt(n, 1))) = 1
        /\ KeyRank(payloadSlice(keyAt(n, 2))) = r2
    BY <1>2, <1>7, Ranks
  <2>2. keyAt(n, 1) # NoNode /\ keyAt(n, 2) # NoNode
    BY <1>7
  <2>3. r2 \in Nat /\ 1 < r2 /\ 1 \in Nat
    BY <1>8
  <2> HIDE DEF r2
  <2> QED BY <1>4, <2>1, <2>2, <2>3, FirstKeyFound
<1>10. ValueOf(n, <<"pa">>) = v
  BY <1>4, <1>6, <1>9 DEF ValueOf
<1> QED BY <1>2, <1>4, <1>10

(* What reading the containers of an entry gives.                          *)
FileReads(j, f) ==
  /\ parseLPHeader(<<2, j>>) /\ Type(<<2, j>>) = FileType /\ IsArray(<<2, j>>)
  /\ PartOf(<<2, j>>, 1) = <<2, j, 1>> /\ PartOf(<<2, j>>, 2) = <<2, j, 2>>
  /\ readLeaf(ValueOf(<<2, j, 1>>, <<"pa">>), Utf8Type) = f.path
  /\ readLeaf(<<2, j, 2>>, DataType) = StoredContentOf(f)
  /\ IF AttrOf(<<2, j, 2>>, CompSigil) # None
     THEN Decoded(DecoderInput(<<2, j, 2>>)) = ContentOf(f)
     ELSE StoredContentOf(f) = ContentOf(f)
DirReads(j, d) ==
  /\ parseLPHeader(<<2, j>>) /\ Type(<<2, j>>) = DirType /\ IsDict(<<2, j>>)
  /\ ~IsArray(<<2, j>>)
  /\ readLeaf(ValueOf(<<2, j>>, <<"pa">>), Utf8Type) = d.path

(* Reading a FILE none of whose containers was hit, ...                    *)
LEMMA FileIsRead ==
  ASSUME AtMostOneFlip, NEW j \in DOMAIN archive.entries, Kept(j), IsFile(archive.entries[j])
  PROVE  FileReads(j, archive.entries[j])
<1> DEFINE f == archive.entries[j]
           e == <<2, j>>
           m == <<2, j, 1>>
           d == <<2, j, 2>>
<1>1. /\ j \in Nat /\ e \in DOMAIN written /\ m \in DOMAIN written /\ d \in DOMAIN written
      /\ \A k \in 1..4 : <<2, j, 1, k>> \in DOMAIN written
  BY NamesOfEntry, Zenon
<1>2. /\ stored[e] = written[e] /\ stored[m] = written[m] /\ stored[d] = written[d]
      /\ \A k \in 1..4 : stored[<<2, j, 1, k>>] = written[<<2, j, 1, k>>]
      /\ FileLaidOut(f, archive.comp, j, stored)
  BY KeptContainers, Zenon
<1>3. /\ stored[e] = Indexed(FileType, Xxhash64, 2)
      /\ stored[m] = Indexed(DictType, None, 4)
      /\ stored[d] = InFile(f, archive.comp)
      /\ stored[<<2, j, 1, 1>>] = Text(<<"pa">>) /\ stored[<<2, j, 1, 2>>] = Text(f.path)
      /\ stored[<<2, j, 1, 3>>] = Text(<<"un">>)
  BY <1>2, Zenon DEF FileLaidOut
<1>4. e # NoNode /\ m # NoNode /\ d # NoNode
      /\ \A k : <<2, j, 1, k>> # NoNode
  BY NoNodeDistinct, Zenon
<1>5. /\ Append(e, 1) = m /\ Append(e, 2) = d
      /\ Append(m, 1) = <<2, j, 1, 1>> /\ Append(m, 2) = <<2, j, 1, 2>>
      /\ Append(m, 3) = <<2, j, 1, 3>>
  <2>1. 1 \in Nat /\ 2 \in Nat /\ 3 \in Nat
    OBVIOUS
  <2> QED BY <1>1, <2>1, Appended, Zenon
<1> HIDE DEF e, m, d, f
<1>6. readLeaf(ValueOf(m, <<"pa">>), Utf8Type) = f.path /\ parseLPHeader(m)
  <2> DEFINE k1 == <<2, j, 1, 1>>
             k2 == <<2, j, 1, 3>>
             v == <<2, j, 1, 2>>
             path == f.path
  <2>1. 1 \in 1..4 /\ 2 \in 1..4 /\ 3 \in 1..4
    OBVIOUS
  <2>2. /\ k1 = Append(m, 1) /\ k1 \in DOMAIN written /\ k1 # NoNode
        /\ stored[k1] = Text(<<"pa">>) /\ written[k1] = stored[k1]
        /\ k2 = Append(m, 3) /\ k2 \in DOMAIN written /\ k2 # NoNode
        /\ stored[k2] = Text(<<"un">>) /\ written[k2] = stored[k2]
        /\ v = Append(m, 2) /\ v \in DOMAIN written /\ v # NoNode
        /\ stored[v] = Text(path) /\ written[v] = stored[v]
    BY <1>1, <1>2, <1>3, <1>4, <1>5, <2>1, Zenon
  <2>3. DictType \in {DictType, DirType} /\ None \in {None, Xxhash64} /\ "un" \in {"un", "xh"}
    OBVIOUS
  <2> HIDE DEF k1, k2, v, path
  <2>4. /\ parseLPHeader(m) /\ Type(m) = DictType /\ IsDict(m) /\ ~IsArray(m)
        /\ readLeaf(ValueOf(m, <<"pa">>), Utf8Type) = path
    BY <1>3, <1>4, <2>2, <2>3, PathKeyFound
  <2> QED BY <2>4 DEF path
<1>7. /\ parseLPHeader(d) /\ readLeaf(d, DataType) = StoredContentOf(f)
      /\ IF AttrOf(d, CompSigil) # None
         THEN Decoded(DecoderInput(d)) = ContentOf(f)
         ELSE StoredContentOf(f) = ContentOf(f)
  <2>1. DataType \in 1..7 /\ Zstd # None
    BY DEF DataType, Zstd, None
  <2>2. CASE FileContainer(f, archive.comp).data.comp = "zstd"
    <3> DEFINE payload == <<"zstd", f.body>>
    <3>1. stored[d] = Leaf(DataType, Zstd, Xxhash64, payload)
      BY <1>3, <2>2, Zenon DEF InFile
    <3>2. StoredContentOf(f) = payload
      BY <2>2, Zenon DEF StoredContentOf
    <3>3. Decoded(payload) = ContentOf(f)
      BY DEF Decoded, ContentOf
    <3> HIDE DEF payload
    <3>4. ReadsAsLeaf(d, DataType, Zstd, payload)
      <4>1. <<Zstd, Xxhash64>> \in {<<None, None>>, <<None, Xxhash64>>, <<Zstd, Xxhash64>>}
        OBVIOUS
      <4>2. written[d] = stored[d] /\ d # NoNode /\ DataType \in 1..7
        BY <1>2, <1>4, <2>1
      <4> QED BY <3>1, <4>1, <4>2, LeafRead
    <3>5. verifyChecksum(d)
      BY KeptVerifies, Zenon DEF d, f
    <3>6. DecoderInput(d) = payload
      BY <3>4, <3>5, Zenon DEF DecoderInput, Vouched, ReadsAsLeaf
    <3> QED BY <2>1, <3>2, <3>3, <3>4, <3>6 DEF ReadsAsLeaf
  <2>3. CASE FileContainer(f, archive.comp).data.comp # "zstd"
    <3> DEFINE payload == <<f.body>>
    <3>1. stored[d] = Leaf(DataType, None, Xxhash64, payload)
      BY <1>3, <2>3, Zenon DEF InFile
    <3>2. StoredContentOf(f) = payload /\ ContentOf(f) = payload
      BY <2>3, Zenon DEF StoredContentOf, ContentOf
    <3> HIDE DEF payload
    <3>4. ReadsAsLeaf(d, DataType, None, payload)
      <4>1. <<None, Xxhash64>> \in {<<None, None>>, <<None, Xxhash64>>, <<Zstd, Xxhash64>>}
        OBVIOUS
      <4>2. written[d] = stored[d] /\ d # NoNode /\ DataType \in 1..7
        BY <1>2, <1>4, <2>1
      <4> QED BY <3>1, <4>1, <4>2, LeafRead
    <3> QED BY <3>2, <3>4 DEF ReadsAsLeaf
  <2> QED BY <2>2, <2>3
<1>8. ReadsAsIndexed(e, FileType, Xxhash64, 2)
  <2>1. FileType \in 1..7 /\ Xxhash64 \in {None, Xxhash64, Blake3_128} /\ 2 \in Nat
    BY DEF FileType
  <2> QED BY <1>3, <1>4, <2>1, IndexedRead
<1>9. /\ parseLPHeader(e) /\ Type(e) = FileType /\ IsArray(e)
      /\ containerAt(e, 1) = m /\ containerAt(e, 2) = d
  <2>1. 1 \in 1..2 /\ 2 \in 1..2 /\ FileType \in {ArrayType, FileType}
    OBVIOUS
  <2> QED BY <1>1, <1>5, <1>6, <1>7, <1>8, <2>1, Zenon DEF ReadsAsIndexed
<1>10. PartOf(e, 1) = m /\ PartOf(e, 2) = d
  BY <1>9, Zenon DEF PartOf
<1> QED BY <1>6, <1>7, <1>9, <1>10, Zenon DEF FileReads, e, m, d, f

(* ... and a DIR.                                                          *)
LEMMA DirIsRead ==
  ASSUME AtMostOneFlip, NEW j \in DOMAIN archive.entries, Kept(j), ~IsFile(archive.entries[j])
  PROVE  DirReads(j, archive.entries[j])
<1> DEFINE e == <<2, j>>
           k1 == <<2, j, 1>>
           k2 == <<2, j, 3>>
           v == <<2, j, 2>>
           path == archive.entries[j].path
<1>1. /\ j \in Nat /\ e \in DOMAIN written
      /\ \A k \in 1..4 : <<2, j, k>> \in DOMAIN written
  BY NamesOfEntry, Zenon
<1>2. /\ stored[e] = written[e]
      /\ \A k \in 1..4 : stored[<<2, j, k>>] = written[<<2, j, k>>]
      /\ DirLaidOut(archive.entries[j], j, stored)
  BY KeptContainers, Zenon
<1>3. /\ stored[e] = Indexed(DirType, Xxhash64, 4)
      /\ stored[k1] = Text(<<"pa">>) /\ stored[v] = Text(path)
      /\ stored[k2] = Text(<<"xh">>)
  BY <1>2, Zenon DEF DirLaidOut
<1>4. e # NoNode /\ \A k : <<2, j, k>> # NoNode
  BY NoNodeDistinct, Zenon
<1>5. /\ Append(e, 1) = k1 /\ Append(e, 2) = v /\ Append(e, 3) = k2
  <2>1. 1 \in Nat /\ 2 \in Nat /\ 3 \in Nat
    OBVIOUS
  <2> QED BY <1>1, <2>1, Appended, Zenon
<1>6. /\ k1 = Append(e, 1) /\ k1 \in DOMAIN written /\ k1 # NoNode
      /\ written[k1] = stored[k1]
      /\ k2 = Append(e, 3) /\ k2 \in DOMAIN written /\ k2 # NoNode
      /\ written[k2] = stored[k2]
      /\ v = Append(e, 2) /\ v \in DOMAIN written /\ v # NoNode
      /\ written[v] = stored[v]
  <2>1. 1 \in 1..4 /\ 2 \in 1..4 /\ 3 \in 1..4
    OBVIOUS
  <2> QED BY <1>1, <1>2, <1>4, <1>5, <2>1, Zenon
<1>7. DirType \in {DictType, DirType} /\ Xxhash64 \in {None, Xxhash64} /\ "xh" \in {"un", "xh"}
  OBVIOUS
<1> HIDE DEF e, k1, k2, v, path
<1>8. /\ parseLPHeader(e) /\ Type(e) = DirType /\ IsDict(e) /\ ~IsArray(e)
      /\ readLeaf(ValueOf(e, <<"pa">>), Utf8Type) = path
  BY <1>3, <1>4, <1>6, <1>7, PathKeyFound
<1> QED BY <1>8, Zenon DEF DirReads, e, path

-----------------------------------------------------------------------------
(* The answers at an index that leads to such an entry.                    *)
Served(i, e) ==
  /\ verifyFileAt(i)
  /\ entryPathAt(i) = e.path
  /\ entryTypeAt(i) = IF IsFile(e) THEN FileType ELSE DirType
  /\ fileContentAt(i) = IF IsFile(e) THEN StoredContentOf(e) ELSE Failed
  /\ fileContentDecompress(i) = IF IsFile(e) THEN ContentOf(e) ELSE Failed

(* Every call at an index that leads to an entry nobody damaged is         *)
(* answered as promised.                                                   *)
LEMMA EntryServed ==
  ASSUME AtMostOneFlip, NEW j \in DOMAIN archive.entries, Kept(j),
         NEW i, entryBufAt(i) = <<2, j>>
  PROVE  Served(i, archive.entries[j])
<1> DEFINE f == archive.entries[j]
           e == <<2, j>>
           d == <<2, j, 2>>
           m == <<2, j, 1>>
<1>1. entryBufAt(i) = e /\ e # NoNode /\ d # NoNode /\ m # NoNode
  BY NoNodeDistinct, Zenon
<1>2. FileType # DirType
  BY DEF FileType, DirType
<1>3. verifyChecksum(e) /\ (IsFile(f) => verifyChecksum(d))
  BY KeptVerifies, Zenon
<1>4. IsFile(f) => FileReads(j, f)
  BY FileIsRead
<1>5. ~IsFile(f) => DirReads(j, f)
  BY DirIsRead
<1>6. entryTypeAt(i) = Type(e)
  BY <1>1, Zenon DEF entryTypeAt
<1>7. CASE IsFile(f)
  <2>1. /\ parseLPHeader(e) /\ Type(e) = FileType /\ IsArray(e)
        /\ PartOf(e, 1) = m /\ PartOf(e, 2) = d
        /\ readLeaf(ValueOf(m, <<"pa">>), Utf8Type) = f.path
        /\ readLeaf(d, DataType) = StoredContentOf(f)
        /\ IF AttrOf(d, CompSigil) # None
           THEN Decoded(DecoderInput(d)) = ContentOf(f)
           ELSE StoredContentOf(f) = ContentOf(f)
    BY <1>4, <1>7, Zenon DEF FileReads
  <2> HIDE DEF e, d, m, f
  <2>2. verifyFileAt(i)
    BY <1>1, <1>2, <1>3, <1>6, <1>7, <2>1, Zenon DEF verifyFileAt
  <2>3. entryPathAt(i) = f.path
    BY <1>1, <1>6, <2>1, Zenon DEF entryPathAt
  <2>4. fileContentAt(i) = StoredContentOf(f)
    BY <1>1, <2>1, Zenon DEF fileContentAt
  <2>5. fileContentDecompress(i) = ContentOf(f)
    BY <1>1, <2>1, Zenon DEF fileContentDecompress
  <2> QED BY <1>6, <1>7, <2>1, <2>2, <2>3, <2>4, <2>5, Zenon DEF Served, f
<1>8. CASE ~IsFile(f)
  <2>1. /\ parseLPHeader(e) /\ Type(e) = DirType /\ IsDict(e) /\ ~IsArray(e)
        /\ readLeaf(ValueOf(e, <<"pa">>), Utf8Type) = f.path
    BY <1>5, <1>8, Zenon DEF DirReads
  <2> HIDE DEF e, d, m, f
  <2>2. verifyFileAt(i)
    BY <1>1, <1>3, <1>6, <2>1, Zenon DEF verifyFileAt
  <2>3. entryPathAt(i) = f.path
    BY <1>1, <1>2, <1>6, <2>1, Zenon DEF entryPathAt
  <2>4. PartOf(e, 2) = NoNode /\ ~parseLPHeader(NoNode)
    BY <2>1, Zenon DEF PartOf, parseLPHeader
  <2>5. fileContentAt(i) = Failed /\ fileContentDecompress(i) = Failed
    BY <1>1, <2>4, Zenon DEF fileContentAt, fileContentDecompress, readLeaf
  <2> QED BY <1>6, <1>8, <2>1, <2>2, <2>3, <2>5, Zenon DEF Served, f
<1> QED BY <1>7, <1>8

(* The outer containers.                                                   *)
OuterKept == stored[Root] = written[Root] /\ stored[Body] = written[Body]

(* When the outer array and the body are as written, the index of the body *)
(* leads to every entry whose header is accepted, ...                      *)
LEMMA BodyRead ==
  ASSUME AtMostOneFlip, OuterKept
  PROVE  /\ IsArray(Root) /\ IsArray(Body) /\ BodyNode = Body
         /\ entryCount = Len(archive.entries)
         /\ \A i \in DOMAIN archive.entries :
              parseLPHeader(<<2, i>>) => entryBufAt(i) = <<2, i>>
<1> DEFINE N == Len(archive.entries)
<1>1. /\ archive \in Archives /\ written = Serialized(archive)
      /\ DOMAIN written = Names(archive.entries)
  BY WrittenNames, Zenon DEF AtMostOneFlip, Archived
<1>2. /\ N \in Nat /\ DOMAIN archive.entries = 1..N
      /\ \A i \in DOMAIN archive.entries : i \in Nat
  BY <1>1, EntryCountType
<1>3. /\ stored[Root] = Indexed(ArrayType, Blake3_128, 2)
      /\ stored[Body] = Indexed(ArrayType, None, N)
      /\ Root \in DOMAIN written /\ Body \in DOMAIN written
  BY <1>1, OuterLayout, Zenon DEF OuterKept, Names
<1>4. Root # NoNode /\ Body # NoNode
  BY DEF Root, Body, NoNode
<1>5. ArrayType \in 1..7 /\ None \in {None, Xxhash64, Blake3_128}
      /\ Blake3_128 \in {None, Xxhash64, Blake3_128} /\ 2 \in Nat
      /\ ArrayType \in {ArrayType, FileType}
  BY DEF ArrayType
<1> HIDE DEF N
<1>6. ReadsAsIndexed(Root, ArrayType, Blake3_128, 2)
  BY <1>3, <1>4, <1>5, IndexedRead
<1>7. ReadsAsIndexed(Body, ArrayType, None, N)
  BY <1>2, <1>3, <1>4, <1>5, IndexedRead
<1>8. IsArray(Root) /\ IsArray(Body) /\ parseLPHeader(Body)
  BY <1>5, <1>6, <1>7, Zenon DEF ReadsAsIndexed
<1>9. Body = Append(Root, 2)
  <2>1. 2 \in Nat
    OBVIOUS
  <2>2. Append(<<>>, 2) = <<2>>
    BY <2>1, Appended
  <2> QED BY <2>2 DEF Body, Root
<1>10. BodyNode = Body
  <2>1. containerAt(Root, 2) = Body
    <3>1. 2 \in 1..2
      OBVIOUS
    <3> QED BY <1>3, <1>6, <1>8, <1>9, <3>1, Zenon DEF ReadsAsIndexed
  <2> QED BY <1>8, <2>1, Zenon DEF BodyNode
<1>11. entryCount = N
  BY <1>7, <1>8, <1>10, Zenon DEF entryCount, ReadsAsIndexed
<1>12. ASSUME NEW i \in DOMAIN archive.entries, parseLPHeader(<<2, i>>)
       PROVE  entryBufAt(i) = <<2, i>>
  <2>1. i \in 1..N /\ i \in Nat
    BY <1>2
  <2>2. <<2, i>> \in DOMAIN written
    BY NamesOfEntry, Zenon
  <2>3. Append(Body, i) = <<2, i>>
    BY <2>1, Appended DEF Body
  <2>4. containerAt(Body, i) = <<2, i>>
    BY <1>7, <1>12, <2>1, <2>2, <2>3, Zenon DEF ReadsAsIndexed
  <2> QED BY <1>8, <1>10, <2>4, Zenon DEF entryBufAt
<1> QED BY <1>8, <1>10, <1>11, <1>12 DEF N

(* ... so an entry nobody damaged is served at its own index.              *)
LEMMA KeptServed ==
  ASSUME AtMostOneFlip, OuterKept, NEW i \in DOMAIN archive.entries, Kept(i)
  PROVE  Served(i, archive.entries[i])
<1>1. parseLPHeader(<<2, i>>)
  BY FileIsRead, DirIsRead, Zenon DEF FileReads, DirReads
<1>2. entryBufAt(i) = <<2, i>>
  BY <1>1, BodyRead
<1> QED BY <1>2, EntryServed

-----------------------------------------------------------------------------
(* No container is part of two entries.                                    *)
LEMMA EntriesApart ==
  ASSUME NEW i \in Nat, NEW j \in Nat, NEW m \in Seq(Nat),
         IsPrefix(<<2, i>>, m), IsPrefix(<<2, j>>, m)
  PROVE  i = j /\ m # Root /\ m # Body
<1> DEFINE p == <<2, i>>
           q == <<2, j>>
<1>1. /\ p \in Seq(Nat) /\ q \in Seq(Nat) /\ Len(p) = 2 /\ Len(q) = 2
      /\ p[2] = i /\ q[2] = j
  OBVIOUS
<1>2. IsPrefix(p, m) /\ IsPrefix(q, m)
  OBVIOUS
<1> HIDE DEF p, q
<1>3. p[2] = m[2] /\ q[2] = m[2]
  <2>1. 2 \in 1 .. Len(p) /\ 2 \in 1 .. Len(q)
    BY <1>1
  <2> QED BY <1>1, <1>2, <2>1, PrefixAgrees
<1>4. Len(m) >= 2
  BY <1>1, <1>2, LenProperties DEF IsPrefix
<1>5. Len(Root) = 0 /\ Len(Body) = 1
  BY DEF Root, Body
<1>6. m # Root /\ m # Body
  <2>1. Len(m) # Len(Root) /\ Len(m) # Len(Body)
    BY <1>4, <1>5
  <2> QED BY <2>1, Zenon
<1> QED BY <1>1, <1>3, <1>6

(* Damage within one entry costs that entry only.                          *)
LEMMA OthersUnharmed ==
  ASSUME AtMostOneFlip
  PROVE  OtherEntriesUnharmed
<1> SUFFICES ASSUME NEW j \in DOMAIN archive.entries,
                    NEW n \in Under(<<2, j>>), stored[n] # written[n],
                    NEW i \in DOMAIN archive.entries \ {j}
             PROVE  Served(i, archive.entries[i])
  BY Zenon DEF OtherEntriesUnharmed, Served
<1>1. DOMAIN stored = DOMAIN written /\ n \in DOMAIN stored /\ IsPrefix(<<2, j>>, n)
  BY WrittenNames DEF Under
<1>2. n \in Seq(Nat) /\ i \in Nat /\ j \in Nat
  BY <1>1, NamesAreSequences, NamesOfEntry
<1>3. \A m \in DOMAIN written : m # n => stored[m] = written[m]
  BY <1>1, Zenon DEF AtMostOneFlip, OneFlip
<1>4. OuterKept
  <2>1. Root \in DOMAIN written /\ Body \in DOMAIN written
    BY WrittenNames, Zenon DEF Names
  <2>2. n # Root /\ n # Body
    BY <1>1, <1>2, EntriesApart
  <2> QED BY <1>3, <2>1, <2>2, Zenon DEF OuterKept
<1>5. Kept(i)
  <2>1. SUFFICES ASSUME NEW m \in Under(<<2, i>>)
                 PROVE  m # n
    BY <1>1, <1>3, Zenon DEF Kept, Under
  <2>2. m \in DOMAIN written /\ IsPrefix(<<2, i>>, m)
    BY <1>1 DEF Under
  <2>3. m \in Seq(Nat)
    BY <2>2, NamesAreSequences
  <2>4. i # j
    OBVIOUS
  <2> QED BY <1>1, <1>2, <2>2, <2>3, <2>4, EntriesApart
<1> QED BY <1>4, <1>5, KeptServed

(* The name of an element is longer than the name of what holds it, ...    *)
LEMMA AppendLonger ==
  ASSUME NEW s \in Seq(Nat), NEW x
  PROVE  Append(s, x) \in Seq(Nat \cup {x}) /\ Len(Append(s, x)) = Len(s) + 1
<1>1. s \in Seq(Nat \cup {x})
  <2>1. /\ Len(s) \in Nat /\ DOMAIN s = 1 .. Len(s) /\ s = [k \in 1 .. Len(s) |-> s[k]]
        /\ \A k \in 1 .. Len(s) : s[k] \in Nat
    BY LenProperties, ElementOfSeq
  <2>2. s \in [1 .. Len(s) -> Nat \cup {x}]
    BY <2>1
  <2> QED BY <2>1, <2>2
<1> QED BY <1>1, AppendProperties

(* ... so whatever an index leads to lies deeper, ...                      *)
LEMMA ChildIsLonger ==
  ASSUME AtMostOneFlip, NEW n \in DOMAIN written, NEW i, containerAt(n, i) # NoNode
  PROVE  Len(containerAt(n, i)) > Len(n)
<1>1. n \in Seq(Nat) /\ Len(n) \in Nat
  BY NamesAreSequences, LenProperties
<1> DEFINE m == containerAt(n, i)
<1>2. m \in DOMAIN written /\ m \in Seq(Nat) /\ Len(m) \in Nat
  BY ContainerFound, NamesAreSequences, LenProperties
<1>3. PICK offset : m = NodeAt(n, offset)
  BY Zenon DEF containerAt
<1> DEFINE a == offset \div 10
           b == offset % 10
<1>4. m = Append(n, a) \/ m = Append(Append(n, a), b)
  BY <1>3, Zenon DEF NodeAt
<1> HIDE DEF a, b, m
<1>5. Append(n, a) \in Seq(Nat \cup {a}) /\ Len(Append(n, a)) = Len(n) + 1
  BY <1>1, AppendLonger
<1>6. CASE m = Append(n, a)
  BY <1>1, <1>5, <1>6 DEF m
<1>7. CASE m = Append(Append(n, a), b)
  <2> DEFINE s == Append(n, a)
             S == Nat \cup {a, b}
  <2>1. s \in Seq(S)
    <3>1. /\ Len(s) \in Nat /\ s = [k \in 1 .. Len(s) |-> s[k]]
          /\ \A k \in 1 .. Len(s) : s[k] \in Nat \cup {a}
      BY <1>5, LenProperties, ElementOfSeq
    <3> HIDE DEF s
    <3>2. s \in [1 .. Len(s) -> S]
      BY <3>1
    <3> QED BY <3>1, <3>2
  <2>2. b \in S
    OBVIOUS
  <2> HIDE DEF S, s
  <2>3. Len(Append(s, b)) = Len(s) + 1
    BY <2>1, <2>2, AppendProperties
  <2> QED BY <1>1, <1>5, <1>7, <2>3 DEF m, s
<1> QED BY <1>4, <1>6, <1>7

(* ... and what is taken for an entry is not an outer container.           *)
LEMMA EntryIsDeep ==
  ASSUME AtMostOneFlip, NEW i, entryBufAt(i) # NoNode
  PROVE  /\ entryBufAt(i) \in DOMAIN written /\ parseLPHeader(entryBufAt(i))
         /\ Len(entryBufAt(i)) >= 2
<1> DEFINE b == BodyNode
<1>1. Root \in DOMAIN written /\ Len(Root) = 0
  <2>1. Root \in DOMAIN written
    BY WrittenNames, Zenon DEF Names
  <2> QED BY <2>1 DEF Root
<1>2. IsArray(b) /\ entryBufAt(i) = containerAt(b, i)
  BY Zenon DEF entryBufAt
<1>3. b # NoNode
  BY <1>2, Zenon DEF IsArray, parseLPHeader
<1>4. b = containerAt(Root, 2)
  BY <1>3, Zenon DEF BodyNode
<1>5. b \in DOMAIN written /\ Len(b) > 0
  BY <1>1, <1>3, <1>4, ContainerFound, ChildIsLonger
<1>6. /\ containerAt(b, i) \in DOMAIN written /\ parseLPHeader(containerAt(b, i))
      /\ Len(containerAt(b, i)) > Len(b)
  BY <1>2, <1>5, ContainerFound, ChildIsLonger
<1>7. Len(b) \in Nat /\ Len(containerAt(b, i)) \in Nat
  BY <1>5, <1>6, NamesAreSequences, LenProperties
<1> QED BY <1>2, <1>5, <1>6, <1>7

(* A leaf cannot be taken for an array or a dict, for it has no index, ... *)
LEMMA LeafNotIndexed ==
  ASSUME AtMostOneFlip, NEW n \in DOMAIN written, NEW t \in {Utf8Type, DataType},
         NEW s \in {2, 3}, written[n].attrs \in {Plain(t), Summed(t, s), Packed(t, s)},
         written[n].end = 0
  PROVE  ~IsArray(n) /\ ~IsDict(n)
<1>1. t \in 1..7 /\ t \notin {ArrayType, FileType} /\ t \notin {DictType, MapType, DirType}
  BY DEF Utf8Type, DataType, ArrayType, FileType, DictType, MapType, DirType
<1>2. CASE stored[n].attrs = written[n].attrs
  <2>1. Type(n) = t
    BY <1>1, <1>2, PlainKept, SummedKept, PackedKept
  <2> QED BY <1>1, <2>1 DEF IsArray, IsDict
<1>3. CASE stored[n].attrs # written[n].attrs
  <2>1. stored[n] = [written[n] EXCEPT !.attrs = stored[n].attrs]
    BY <1>3, Zenon DEF AtMostOneFlip, OneFlip, Differs
  <2>2. IsNode(written[n])
    BY WrittenNames DEF Shaped
  <2>3. stored[n].end = 0
    BY <2>1, <2>2 DEF IsNode
  <2> QED BY <2>3 DEF IsArray, IsDict
<1> QED BY <1>2, <1>3

(* ... nor the metadata of a FILE for an entry: no flip of a bit turns a   *)
(* DICT into a type that an entry may have, ...                            *)
LEMMA DictFlipped ==
  ASSUME NEW t \in {2} \cup Flips(2)
  PROVE  t \notin {ArrayType, FileType, DirType}
<1>1. \A b \in 0..7 : b = 0 \/ b = 1 \/ b = 2 \/ b = 3 \/ b = 4 \/ b = 5 \/ b = 6 \/ b = 7
  OBVIOUS
<1>2. /\ FlipBit(2, 0) = 3 /\ FlipBit(2, 1) = 0 /\ FlipBit(2, 2) = 6
      /\ FlipBit(2, 3) = 10 /\ FlipBit(2, 4) = 18 /\ FlipBit(2, 5) = 34
      /\ FlipBit(2, 6) = 66 /\ FlipBit(2, 7) = 130
  BY DEF FlipBit
<1>3. t \in {2, 3, 0, 6, 10, 18, 34, 66, 130}
  <2>1. CASE t = 2
    BY <2>1
  <2>2. CASE t \in Flips(2)
    <3>1. PICK b \in 0..7 : t = FlipBit(2, b)
      BY <2>2, Zenon DEF Flips
    <3>2. t \in {FlipBit(2, 0), FlipBit(2, 1), FlipBit(2, 2), FlipBit(2, 3),
                 FlipBit(2, 4), FlipBit(2, 5), FlipBit(2, 6), FlipBit(2, 7)}
      BY <1>1, <3>1, Zenon
    <3> QED BY <1>2, <3>2
  <2> QED BY <2>1, <2>2
<1> QED BY <1>3 DEF ArrayType, FileType, DirType

(* ... in its header.                                                      *)
LEMMA MetadataNotEntry ==
  ASSUME AtMostOneFlip, NEW n \in DOMAIN written, written[n] = Indexed(DictType, None, 4),
         parseLPHeader(n)
  PROVE  Type(n) \notin {ArrayType, FileType, DirType}
<1>1. written[n].attrs = Plain(2) /\ 2 \in 1..7
  <2>1. Header(2, None, None) = Plain(2)
    BY PlainHeader
  <2> QED BY <2>1 DEF Indexed, DictType
<1>2. Type(n) \in {2} \cup Flips(2)
  <2>1. CASE stored[n].attrs = written[n].attrs
    BY <1>1, <2>1, PlainKept
  <2>2. CASE HeaderFlipped(written[n].attrs, stored[n].attrs)
    <3>1. Len(Plain(2)) = 2 /\ 2 \in Nat /\ 2 > 0 /\ Plain(2)[1] = <<1, 2>>
      BY DEF Plain
    <3> QED BY <1>1, <2>2, <3>1, TypeFlipped
  <2> QED BY <2>1, <2>2, KeptOrFlipped
<1> QED BY <1>2, DictFlipped

(* A leaf is written without an index.                                     *)
LEMMA WrittenLeaf ==
  ASSUME NEW n, NEW t \in {Utf8Type, DataType}, NEW comp, NEW csum, NEW payload,
         <<comp, csum>> \in {<<None, None>>, <<None, Xxhash64>>, <<Zstd, Xxhash64>>},
         written[n] = Leaf(t, comp, csum, payload)
  PROVE  /\ written[n].end = 0
         /\ written[n].attrs \in {Plain(t), Summed(t, 2), Packed(t, 2)}
<1>1. t \in Nat /\ 2 \in Nat /\ 2 # 0 /\ Xxhash64 = 2
  BY DEF Utf8Type, DataType, Xxhash64
<1>2. /\ Header(t, None, None) = Plain(t) /\ Header(t, None, 2) = Summed(t, 2)
      /\ Header(t, Zstd, 2) = Packed(t, 2)
  BY <1>1, PlainHeader, SummedHeader, PackedHeader
<1>3. written[n].end = 0 /\ written[n].attrs = Header(t, comp, csum)
  BY DEF Leaf
<1>4. \/ comp = None /\ csum = None
      \/ comp = None /\ csum = 2
      \/ comp = Zstd /\ csum = 2
  <2>1. /\ <<comp, csum>> = <<None, None>> => comp = None /\ csum = None
        /\ <<comp, csum>> = <<None, Xxhash64>> => comp = None /\ csum = Xxhash64
        /\ <<comp, csum>> = <<Zstd, Xxhash64>> => comp = Zstd /\ csum = Xxhash64
    OBVIOUS
  <2>2. \/ <<comp, csum>> = <<None, None>> \/ <<comp, csum>> = <<None, Xxhash64>>
        \/ <<comp, csum>> = <<Zstd, Xxhash64>>
    OBVIOUS
  <2>3. \/ comp = None /\ csum = None
        \/ comp = None /\ csum = Xxhash64
        \/ comp = Zstd /\ csum = Xxhash64
    BY <2>1, <2>2, Zenon
  <2> QED BY <1>1, <2>3
<1> QED BY <1>2, <1>3, <1>4

(* So what is taken for a FILE or a DIR below the body was written as an   *)
(* entry.                                                                  *)
LEMMA DeepNames ==
  ASSUME AtMostOneFlip, NEW n \in DOMAIN written, Len(n) >= 2, parseLPHeader(n),
         \/ IsArray(n)
         \/ IsDict(n) /\ Type(n) = DirType
  PROVE  \E j \in DOMAIN archive.entries : n = <<2, j>>
<1>1. /\ archive \in Archives /\ written = Serialized(archive)
      /\ DOMAIN written = Names(archive.entries)
  BY WrittenNames, Zenon DEF AtMostOneFlip, Archived
<1>2. n \notin {Root, <<1>>, Body}
  <2>1. Len(Root) = 0 /\ Len(<<1>>) = 1 /\ Len(Body) = 1
    BY DEF Root, Body
  <2> QED BY <2>1
<1>3. PICK j \in DOMAIN archive.entries :
        IF IsFile(archive.entries[j])
        THEN n \in {<<2, j>>, <<2, j, 1>>, <<2, j, 2>>} \cup {<<2, j, 1, k>> : k \in 1..4}
        ELSE n \in {<<2, j>>} \cup {<<2, j, k>> : k \in 1..4}
  BY <1>1, <1>2, AllNames, Zenon
<1>4. 2 \in {2, 3} /\ \A k \in 1..4 : k = 1 \/ k = 2 \/ k = 3 \/ k = 4
  OBVIOUS
<1>5. ASSUME NEW t \in {Utf8Type, DataType}, NEW comp, NEW csum, NEW payload,
             <<comp, csum>> \in {<<None, None>>, <<None, Xxhash64>>, <<Zstd, Xxhash64>>},
             written[n] = Leaf(t, comp, csum, payload)
      PROVE  FALSE
  <2>1. /\ written[n].end = 0
        /\ written[n].attrs \in {Plain(t), Summed(t, 2), Packed(t, 2)}
    BY <1>5, WrittenLeaf
  <2>2. ~IsArray(n) /\ ~IsDict(n)
    BY <1>4, <2>1, LeafNotIndexed
  <2> QED BY <2>2
<1>6. ASSUME NEW t, written[n] = Text(t)
      PROVE  FALSE
  <2>1. <<None, None>> \in {<<None, None>>, <<None, Xxhash64>>, <<Zstd, Xxhash64>>}
    OBVIOUS
  <2>2. written[n] = Leaf(Utf8Type, None, None, t) /\ Utf8Type \in {Utf8Type, DataType}
    BY <1>6 DEF Text
  <2> QED BY <1>5, <2>1, <2>2
<1>7. CASE IsFile(archive.entries[j])
  <2>1. FileLaidOut(archive.entries[j], archive.comp, j, written)
    BY <1>1, <1>7, EntryLayout
  <2>2. n # <<2, j, 1>>
    <3>1. SUFFICES ASSUME n = <<2, j, 1>>
                   PROVE  FALSE
      OBVIOUS
    <3>2. written[n] = Indexed(DictType, None, 4)
      BY <2>1, <3>1, Zenon DEF FileLaidOut
    <3>3. Type(n) \notin {ArrayType, FileType, DirType}
      BY <3>2, MetadataNotEntry
    <3> QED BY <3>3, Zenon DEF IsArray
  <2>3. n # <<2, j, 2>>
    <3>1. SUFFICES ASSUME n = <<2, j, 2>>
                   PROVE  FALSE
      OBVIOUS
    <3>2. \E comp, payload : /\ comp \in {None, Zstd}
                             /\ written[n] = Leaf(DataType, comp, Xxhash64, payload)
      <4>1. written[n] = InFile(archive.entries[j], archive.comp)
        BY <2>1, <3>1, Zenon DEF FileLaidOut
      <4>2. None \in {None, Zstd} /\ Zstd \in {None, Zstd}
        OBVIOUS
      <4>3. \/ written[n] = Leaf(DataType, Zstd, Xxhash64, <<"zstd", archive.entries[j].body>>)
            \/ written[n] = Leaf(DataType, None, Xxhash64, <<archive.entries[j].body>>)
        BY <4>1, Zenon DEF InFile
      <4> QED BY <4>2, <4>3
    <3>3. /\ <<None, Xxhash64>> \in {<<None, None>>, <<None, Xxhash64>>, <<Zstd, Xxhash64>>}
          /\ <<Zstd, Xxhash64>> \in {<<None, None>>, <<None, Xxhash64>>, <<Zstd, Xxhash64>>}
          /\ DataType \in {Utf8Type, DataType}
      OBVIOUS
    <3> QED BY <1>5, <3>2, <3>3
  <2>4. \A k \in 1..4 : n # <<2, j, 1, k>>
    <3>1. SUFFICES ASSUME NEW k \in 1..4, n = <<2, j, 1, k>>
                   PROVE  FALSE
      OBVIOUS
    <3>2. \E t : written[n] = Text(t)
      BY <1>4, <2>1, <3>1, Zenon DEF FileLaidOut
    <3> QED BY <1>6, <3>2
  <2> QED BY <1>3, <1>7, <2>2, <2>3, <2>4, Zenon
<1>8. CASE ~IsFile(archive.entries[j])
  <2>1. DirLaidOut(archive.entries[j], j, written)
    BY <1>1, <1>8, EntryLayout
  <2>2. \A k \in 1..4 : n # <<2, j, k>>
    <3>1. SUFFICES ASSUME NEW k \in 1..4, n = <<2, j, k>>
                   PROVE  FALSE
      OBVIOUS
    <3>2. \/ \E t : written[n] = Text(t)
          \/ written[n] = Leaf(DataType, None, None, <<"hash">>)
      BY <1>4, <2>1, <3>1, Zenon DEF DirLaidOut
    <3>3. /\ <<None, None>> \in {<<None, None>>, <<None, Xxhash64>>, <<Zstd, Xxhash64>>}
          /\ DataType \in {Utf8Type, DataType}
      OBVIOUS
    <3> QED BY <1>5, <1>6, <3>2, <3>3
  <2> QED BY <1>3, <1>8, <2>2, Zenon
<1> QED BY <1>7, <1>8

(* The checksum of an entry vouches for everything in it.                  *)
LEMMA EntrySummed ==
  ASSUME AtMostOneFlip, NEW j \in DOMAIN archive.entries, parseLPHeader(<<2, j>>),
         verifyChecksum(<<2, j>>)
  PROVE  Kept(j)
<1> DEFINE e == <<2, j>>
<1>1. archive \in Archives /\ written = Serialized(archive) /\ e \in DOMAIN written
  BY WrittenNames, NamesOfEntry, Zenon DEF AtMostOneFlip, Archived
<1>2. \/ written[e] = Indexed(FileType, Xxhash64, 2)
      \/ written[e] = Indexed(DirType, Xxhash64, 4)
  BY <1>1, EntryLayout, Zenon DEF FileLaidOut, DirLaidOut
<1> HIDE DEF e
<1>3. PICK t \in 1..7 : written[e].attrs = Summed(t, 2)
  <2>1. /\ Header(5, None, 2) = Summed(5, 2) /\ Header(7, None, 2) = Summed(7, 2)
        /\ 5 \in 1..7 /\ 7 \in 1..7
    BY SummedHeader
  <2>2. written[e].attrs \in {Summed(5, 2), Summed(7, 2)}
    BY <1>2, <2>1 DEF Indexed, FileType, DirType, Xxhash64
  <2> QED BY <2>1, <2>2
<1>4. Csum(e) # None
  <2>1. 2 \in {2, 3} /\ written[e].attrs \in {Summed(t, 2), Packed(t, 2)} /\ parseLPHeader(e)
    BY <1>3 DEF e
  <2> QED BY <1>1, <2>1, ChecksumAnnounced
<1> QED BY <1>4, Zenon DEF verifyChecksum, Kept, e

(* verifyFile approves at any index an entry that was archived, and        *)
(* everything read at that index is of that entry.                         *)
LEMMA EntryApproved ==
  ASSUME AtMostOneFlip, NEW i, verifyFileAt(i)
  PROVE  \E j \in DOMAIN archive.entries : Served(i, archive.entries[j])
<1> DEFINE e == entryBufAt(i)
<1>1. verifyChecksum(e) /\ (IsArray(e) \/ (IsDict(e) /\ entryTypeAt(i) = DirType))
  BY Zenon DEF verifyFileAt
<1>2. parseLPHeader(e) /\ e # NoNode
  BY <1>1, Zenon DEF IsArray, IsDict, parseLPHeader
<1>3. entryTypeAt(i) = Type(e)
  BY <1>2, Zenon DEF entryTypeAt
<1>4. e \in DOMAIN written /\ Len(e) >= 2
  BY <1>2, EntryIsDeep
<1> HIDE DEF e
<1>5. PICK j \in DOMAIN archive.entries : e = <<2, j>>
  BY <1>1, <1>2, <1>3, <1>4, DeepNames
<1>6. Kept(j)
  BY <1>1, <1>2, <1>5, EntrySummed
<1> QED BY <1>5, <1>6, EntryServed DEF e

(* The verdict of blar_archive_file_verify lasts: nothing changes after it.*)
VerdictStands ==
  answer.call = "file_verify" /\ answer.result = Ok => verifyFileAt(answer.index)

(* VerifiedEntryWasArchived after any call.                                *)
LEMMA ApprovedWasArchived ==
  ASSUME AtMostOneFlip, VerdictStands
  PROVE  VerifiedEntryWasArchived
<1> SUFFICES ASSUME verifyFileAt(answer.index)
             PROVE  \E e \in ToSet(archive.entries) : Served(answer.index, e)
  BY Zenon DEF VerifiedEntryWasArchived, VerdictStands, Served
<1>1. PICK j \in DOMAIN archive.entries : Served(answer.index, archive.entries[j])
  BY EntryApproved
<1>2. archive.entries[j] \in ToSet(archive.entries)
  BY DEF ToSet
<1> QED BY <1>1, <1>2

(* An archive nobody damaged serves every entry at its index, ...          *)
LEMMA UndamagedServed ==
  ASSUME AtMostOneFlip, stored = written, NEW i \in DOMAIN archive.entries
  PROVE  Served(i, archive.entries[i])
<1>1. OuterKept /\ Kept(i)
  BY Zenon DEF OuterKept, Kept
<1> QED BY <1>1, KeptServed

(* ... verifies, and has as many entries as were put into it.              *)
LEMMA UndamagedOuter ==
  ASSUME AtMostOneFlip, stored = written
  PROVE  /\ IsArray(Root) /\ verifyChecksum(Root)
         /\ entryCount = Len(archive.entries)
<1>1. OuterKept
  BY Zenon DEF OuterKept
<1>2. verifyChecksum(Root)
  BY Zenon DEF verifyChecksum
<1> QED BY <1>1, <1>2, BodyRead

(* A set of natural numbers has a least element: the induction of the      *)
(* search by path.                                                         *)
LEMMA LeastElement ==
  ASSUME NEW A \in SUBSET Nat, A # {}
  PROVE  \E m \in A : \A k \in A : m <= k
<1> DEFINE I(n) == 0 .. n - 1
           F == {I(n) : n \in A}
<1>1. F \subseteq FiniteSubsetsOf(Nat) /\ F # {}
  <2>1. \A n \in A : IsFiniteSet(I(n)) /\ I(n) \subseteq Nat
    BY FS_Interval
  <2> QED BY <2>1 DEF FiniteSubsetsOf
<1>2. PICK x \in F : \A y \in F : ~ (<<y, x>> \in StrictSubsetOrdering(Nat))
  BY <1>1, FS_StrictSubsetOrderingWellFounded, WFMin
<1>3. PICK m \in A : x = I(m)
  BY <1>2
<1>4. ASSUME NEW k \in A, k < m
      PROVE  FALSE
  <2>1. I(k) \in SUBSET I(m) /\ I(k) # I(m) /\ I(k) \in F
    <3>1. k \in I(m) /\ k \notin I(k)
      BY <1>4
    <3> QED BY <3>1, <1>4
  <2> QED BY <2>1, <1>2, <1>3, <1>1 DEF StrictSubsetOrdering, FiniteSubsetsOf
<1> QED BY <1>4, <1>3

(* findFile: the first index with the path, when no path before it fails   *)
(* to be read.                                                             *)
LEMMA FirstHitFound ==
  ASSUME NEW path, NEW N \in Nat, entryCount = N,
         NEW S, S = {i \in 1 .. N : entryPathAt(i) = path},
         {i \in 1 .. N : entryPathAt(i) = Failed} = {},
         NEW m \in S, \A k \in S : m <= k
  PROVE  findFile(path) = m
<1> DEFINE hits == {i \in 1 .. entryCount : entryPathAt(i) = path}
           failures == {i \in 1 .. entryCount : entryPathAt(i) = Failed}
           s == [i \in 1 .. entryCount |-> i]
           I == {i \in 1 .. Len(s) : s[i] \in hits \cup failures}
           first == IF I # {} THEN CHOOSE x \in I : \A y \in I : x =< y ELSE 0
<1>1. hits = S /\ failures = {}
  OBVIOUS
<1>2. Len(s) = N /\ \A i \in 1..N : s[i] = i
  OBVIOUS
<1>3. findFile(path) = IF entryCount >= 0 /\ first \in hits THEN first ELSE 0
  BY Zenon DEF findFile, SelectInSeq, Min
<1> HIDE DEF hits, failures, s
<1>4. I = S
  BY <1>1, <1>2
<1>5. first = m
  <2> HIDE DEF I
  <2>1. (CHOOSE x \in S : \A y \in S : x =< y) = m
    OBVIOUS
  <2> QED BY <1>4, <2>1
<1>6. entryCount >= 0
  OBVIOUS
<1> HIDE DEF first
<1> QED BY <1>1, <1>3, <1>5, <1>6

(* In an archive nobody damaged a path finds the first entry of that path. *)
LEMMA FoundByPath ==
  ASSUME AtMostOneFlip, stored = written, NEW i \in DOMAIN archive.entries
  PROVE  LET entries == archive.entries
             named == CHOOSE k \in DOMAIN entries :
                        /\ entries[k].path = entries[i].path
                        /\ \A m \in 1 .. k - 1 : entries[m].path # entries[i].path
         IN  /\ findFile(entries[i].path) = named
             /\ named \in DOMAIN entries /\ named # 0
<1> DEFINE entries == archive.entries
           N == Len(entries)
           path == entries[i].path
           First(k) == /\ entries[k].path = path
                       /\ \A m \in 1 .. k - 1 : entries[m].path # path
           named == CHOOSE k \in DOMAIN entries : First(k)
           S == {k \in 1 .. N : entryPathAt(k) = path}
<1>1. /\ N \in Nat /\ DOMAIN entries = 1 .. N
      /\ \A k \in DOMAIN entries : IsEntry(entries[k])
  BY WrittenNames, EntryCountType
<1>2. entryCount = N
  BY UndamagedOuter
<1>3. \A k \in 1 .. N : entryPathAt(k) = entries[k].path
  BY <1>1, UndamagedServed DEF Served
<1>4. \A k \in 1 .. N : entryPathAt(k) # Failed
  <2>1. \A k \in 1 .. N : entries[k].path \in Seq(STRING) \ {<<>>}
    BY <1>1 DEF IsEntry
  <2> QED BY <1>3, <2>1 DEF Failed
<1> HIDE DEF N, path
<1>5. {k \in 1 .. N : entryPathAt(k) = Failed} = {}
  BY <1>4
<1>6. S \in SUBSET Nat /\ S # {}
  <2>1. i \in 1 .. N
    BY <1>1
  <2>2. entryPathAt(i) = path
    BY <1>3, <2>1 DEF path
  <2> QED BY <1>1, <2>1, <2>2
<1>7. PICK least \in S : \A k \in S : least <= k
  <2> HIDE DEF S
  <2> QED BY <1>6, LeastElement
<1>8. findFile(path) = least
  <2> DEFINE T == S
  <2>1. T = {k \in 1 .. N : entryPathAt(k) = path} /\ least \in T /\ \A k \in T : least <= k
    BY <1>7
  <2> HIDE DEF T
  <2> QED BY <1>1, <1>2, <1>5, <2>1, FirstHitFound
<1>9. least \in DOMAIN entries /\ First(least)
  <2>1. least \in 1 .. N /\ entryPathAt(least) = path
    BY <1>7
  <2>2. ASSUME NEW m \in 1 .. least - 1
        PROVE  entries[m].path # path
    <3>1. m \in 1 .. N /\ ~(least <= m)
      BY <1>1, <2>1
    <3>2. m \notin S
      BY <1>7, <3>1
    <3> QED BY <1>3, <3>1, <3>2
  <2> QED BY <1>1, <1>3, <2>1, <2>2
<1>10. ASSUME NEW k \in DOMAIN entries, First(k)
       PROVE  k = least
  <2>1. k \in S /\ k \in 1 .. N /\ least \in 1 .. N
    BY <1>1, <1>3, <1>7, <1>10
  <2>2. least <= k
    BY <1>7, <2>1
  <2>3. ~(least < k)
    <3>1. SUFFICES ASSUME least < k
                   PROVE  FALSE
      OBVIOUS
    <3>2. least \in 1 .. k - 1
      BY <1>1, <2>1, <3>1
    <3> QED BY <1>9, <1>10, <3>2
  <2> QED BY <1>1, <2>1, <2>2, <2>3
<1> HIDE DEF First
<1>11. named = least
  BY <1>9, <1>10
<1>12. least # 0
  BY <1>1, <1>9
<1> QED BY <1>8, <1>9, <1>11, <1>12 DEF First, path

-----------------------------------------------------------------------------
(* A verdict tells whether the call succeeded.                             *)
LEMMA VerdictIsOk ==
  ASSUME NEW ok
  PROVE  (ok => Verdict(ok) = Ok) /\ (Verdict(ok) = Ok => ok)
<1>1. <<"ok">> # <<"not ok">>
  OBVIOUS
<1> QED BY <1>1, Zenon DEF Verdict, Ok

(* What UndamagedReadsBack says of a call, its index and its result.       *)
RightAnswer(call, i, result) ==
  LET entries == archive.entries
      e == entries[i]
      named == CHOOSE k \in DOMAIN entries :
                 /\ entries[k].path = e.path
                 /\ \A m \in 1 .. k - 1 : entries[m].path # e.path
  IN  CASE call \in {"verify", "file_verify", "entry_type"} -> result = Ok
        [] call = "entry_count" -> i = Len(entries)
        [] call = "file_path" -> result = e.path
        [] call = "file_content" ->
             result = IF IsFile(e) THEN StoredContentOf(e) ELSE Failed
        [] call = "by_path" ->
             result = IF IsFile(entries[named]) THEN StoredContentOf(entries[named])
                             ELSE Failed
        [] call = "decompress" ->
             result = IF IsFile(e) THEN ContentOf(e) ELSE Failed

(* Every call on an archive nobody damaged gives the right answer.         *)
LEMMA RightAnswers ==
  ASSUME AtMostOneFlip, stored = written
  PROVE  /\ RightAnswer("verify", 0, Verdict(IsArray(Root) /\ verifyChecksum(Root)))
         /\ RightAnswer("entry_count", entryCount, <<>>)
         /\ \A i \in DOMAIN archive.entries :
              /\ RightAnswer("file_verify", i, Verdict(verifyFileAt(i)))
              /\ RightAnswer("file_path", i, entryPathAt(i))
              /\ RightAnswer("file_content", i, fileContentAt(i))
              /\ RightAnswer("by_path", i,
                             LET k == findFile(archive.entries[i].path)
                             IN  IF k = 0 THEN Failed ELSE fileContentAt(k))
              /\ RightAnswer("entry_type", i,
                             Verdict(entryTypeAt(i) = (IF IsFile(archive.entries[i])
                                                       THEN FileType ELSE DirType)))
              /\ RightAnswer("decompress", i, fileContentDecompress(i))
<1>1. Verdict(IsArray(Root) /\ verifyChecksum(Root)) = Ok /\ entryCount = Len(archive.entries)
  BY UndamagedOuter, VerdictIsOk
<1>2. RightAnswer("verify", 0, Verdict(IsArray(Root) /\ verifyChecksum(Root)))
  BY <1>1 DEF RightAnswer
<1>3. RightAnswer("entry_count", entryCount, <<>>)
  BY <1>1 DEF RightAnswer
<1>4. ASSUME NEW i \in DOMAIN archive.entries
      PROVE  /\ RightAnswer("file_verify", i, Verdict(verifyFileAt(i)))
             /\ RightAnswer("file_path", i, entryPathAt(i))
             /\ RightAnswer("file_content", i, fileContentAt(i))
             /\ RightAnswer("by_path", i,
                            LET k == findFile(archive.entries[i].path)
                            IN  IF k = 0 THEN Failed ELSE fileContentAt(k))
             /\ RightAnswer("entry_type", i,
                            Verdict(entryTypeAt(i) = (IF IsFile(archive.entries[i])
                                                      THEN FileType ELSE DirType)))
             /\ RightAnswer("decompress", i, fileContentDecompress(i))
  <2>1. Served(i, archive.entries[i])
    BY UndamagedServed
  <2>2. RightAnswer("file_verify", i, Verdict(verifyFileAt(i)))
    <3>1. verifyFileAt(i)
      BY <2>1 DEF Served
    <3>2. Verdict(verifyFileAt(i)) = Ok
      BY <3>1 DEF Verdict
    <3> QED BY <3>2 DEF RightAnswer
  <2>3. RightAnswer("file_path", i, entryPathAt(i))
    BY <2>1 DEF RightAnswer, Served
  <2>4. RightAnswer("file_content", i, fileContentAt(i))
    BY <2>1 DEF RightAnswer, Served
  <2>5. RightAnswer("by_path", i, LET k == findFile(archive.entries[i].path)
                                  IN  IF k = 0 THEN Failed ELSE fileContentAt(k))
    <3> DEFINE entries == archive.entries
               named == CHOOSE k \in DOMAIN entries :
                          /\ entries[k].path = entries[i].path
                          /\ \A m \in 1 .. k - 1 : entries[m].path # entries[i].path
               found == findFile(entries[i].path)
               result == IF found = 0 THEN Failed ELSE fileContentAt(found)
    <3>1. found = named /\ named \in DOMAIN entries /\ named # 0
      BY FoundByPath
    <3> HIDE DEF named, found
    <3>2. Served(named, entries[named])
      BY <3>1, UndamagedServed
    <3>3. result = IF IsFile(entries[named]) THEN StoredContentOf(entries[named]) ELSE Failed
      BY <3>1, <3>2 DEF Served
    <3> HIDE DEF result
    <3>4. RightAnswer("by_path", i, result)
      BY <3>3 DEF RightAnswer, named
    <3> QED BY <3>4 DEF result, found
  <2>6. RightAnswer("entry_type", i, Verdict(entryTypeAt(i) = (IF IsFile(archive.entries[i])
                                                               THEN FileType ELSE DirType)))
    <3> DEFINE ok == entryTypeAt(i) = (IF IsFile(archive.entries[i])
                                       THEN FileType ELSE DirType)
    <3>1. ok
      BY <2>1 DEF Served
    <3> HIDE DEF ok
    <3>2. Verdict(ok) = Ok
      BY <3>1 DEF Verdict
    <3>3. RightAnswer("entry_type", i, Verdict(ok))
      BY <3>2 DEF RightAnswer
    <3> QED BY <3>3 DEF ok
  <2>7. RightAnswer("decompress", i, fileContentDecompress(i))
    BY <2>1 DEF RightAnswer, Served
  <2> QED BY <2>2, <2>3, <2>4, <2>5, <2>6, <2>7
<1> QED BY <1>2, <1>3, <1>4

(* A call changes nothing, so what is read after it is what was read       *)
(* before it: the body, ...                                                *)
LEMMA BodyStays ==
  ASSUME UNCHANGED <<archive, written, stored>>
  PROVE  BodyNode' = BodyNode
BY DEF BodyNode, Root, containerAt, NodeAt, EndOf, IsArray, Type, parseLPHeader, AttrOf,
       HeaderPlaces, SigilAt, Ascending, DecompLenGiven

(* ... an entry, ...                                                       *)
LEMMA EntryStays ==
  ASSUME UNCHANGED <<archive, written, stored>>, NEW i
  PROVE  entryBufAt(i)' = entryBufAt(i)
<1>1. BodyNode' = BodyNode
  BY BodyStays
<1> QED BY <1>1 DEF entryBufAt, containerAt, NodeAt, EndOf, IsArray, Type, parseLPHeader, AttrOf,
       HeaderPlaces, SigilAt, Ascending, DecompLenGiven

(* ... its type, ...                                                       *)
LEMMA TypeStays ==
  ASSUME UNCHANGED <<archive, written, stored>>, NEW i
  PROVE  entryTypeAt(i)' = entryTypeAt(i)
<1>1. entryBufAt(i)' = entryBufAt(i)
  BY EntryStays
<1> QED BY <1>1 DEF entryTypeAt, Type, AttrOf, HeaderPlaces, SigilAt

(* ... and what verifyFile says of it.                                     *)
LEMMA VerdictStays ==
  ASSUME UNCHANGED <<archive, written, stored>>, NEW i, verifyFileAt(i)
  PROVE  verifyFileAt(i)'
<1>1. entryBufAt(i)' = entryBufAt(i) /\ entryTypeAt(i)' = entryTypeAt(i)
  BY EntryStays, TypeStays
<1>2. PartOf(entryBufAt(i), 2)' = PartOf(entryBufAt(i), 2)
  BY <1>1 DEF PartOf, containerAt, NodeAt, EndOf, IsArray, Type, parseLPHeader, AttrOf, HeaderPlaces,
         SigilAt, Ascending, DecompLenGiven
<1>3. IsArray(entryBufAt(i))' <=> IsArray(entryBufAt(i))
  BY <1>1 DEF IsArray, Type, parseLPHeader, AttrOf, HeaderPlaces, SigilAt, Ascending, DecompLenGiven
<1>4. IsDict(entryBufAt(i))' <=> IsDict(entryBufAt(i))
  BY <1>1 DEF IsDict, Type, parseLPHeader, AttrOf, HeaderPlaces, SigilAt, Ascending, DecompLenGiven
<1>5. verifyChecksum(entryBufAt(i))' <=> verifyChecksum(entryBufAt(i))
  BY <1>1 DEF verifyChecksum, Under, Csum, AttrOf, HeaderPlaces, SigilAt
<1>6. verifyChecksum(PartOf(entryBufAt(i), 2))' <=> verifyChecksum(PartOf(entryBufAt(i), 2))
  BY <1>2 DEF verifyChecksum, Under, Csum, AttrOf, HeaderPlaces, SigilAt
<1> QED BY <1>1, <1>2, <1>3, <1>4, <1>5, <1>6, Zenon DEF verifyFileAt

(* The inductive invariant.                                                *)
IInv == AtMostOneFlip /\ VerifiedIsAsWritten /\ VerdictStands /\ UndamagedReadsBack

(* Before the first call there is nothing to promise.                      *)
LEMMA NothingAsked ==
  answer = NoAnswer => VerifiedIsAsWritten /\ VerdictStands /\ UndamagedReadsBack
<1>1. SUFFICES ASSUME answer = NoAnswer
               PROVE  VerifiedIsAsWritten /\ VerdictStands /\ UndamagedReadsBack
  OBVIOUS
<1>2. answer.call = "none"
  BY <1>1 DEF NoAnswer
<1>3. answer.call # "verify" /\ answer.call # "file_verify"
  BY <1>2
<1> QED BY <1>1, <1>3, Zenon DEF VerifiedIsAsWritten, VerdictStands, UndamagedReadsBack

(* A call whose answer is right where it must be keeps the invariant: the  *)
(* verdict of blar_archive_verify and blar_archive_file_verify always, any *)
(* other answer if nothing is damaged.                                     *)
LEMMA CallAnswered ==
  ASSUME AtMostOneFlip, NEW call, NEW i, NEW result, Answer(call, i, result),
         call = "verify" => result = Verdict(IsArray(Root) /\ verifyChecksum(Root)),
         call = "file_verify" => result = Verdict(verifyFileAt(i)),
         stored = written => RightAnswer(call, i, result)
  PROVE  IInv'
<1>1. /\ UNCHANGED <<archive, written, stored>>
      /\ answer'.call = call /\ answer'.index = i /\ answer'.result = result
  BY DEF Answer
<1>2. AtMostOneFlip'
  BY <1>1, CallKeeps
<1>3. VerifiedIsAsWritten'
  <2>1. SUFFICES ASSUME call = "verify", result = Ok
                 PROVE  stored = written
    BY <1>1, Zenon DEF VerifiedIsAsWritten
  <2> DEFINE ok == IsArray(Root) /\ verifyChecksum(Root)
  <2>2. Verdict(ok) = Ok
    BY <2>1
  <2> HIDE DEF ok
  <2>3. ok
    BY <2>2 DEF Verdict, Ok
  <2> QED BY <2>3, RootApproved DEF ok
<1>4. VerdictStands'
  <2>1. SUFFICES ASSUME call = "file_verify", result = Ok
                 PROVE  verifyFileAt(i)'
    BY <1>1 DEF VerdictStands
  <2>2. Verdict(verifyFileAt(i)) = Ok
    BY <2>1
  <2>3. verifyFileAt(i)
    BY <2>2 DEF Verdict, Ok
  <2> QED BY <1>1, <2>3, VerdictStays
<1>5. UndamagedReadsBack'
  <2>1. SUFFICES ASSUME stored = written
                 PROVE  RightAnswer(answer.call, answer.index, answer.result)'
    BY <1>1, Zenon DEF UndamagedReadsBack, RightAnswer
  <2>2. RightAnswer(call, i, result)
    BY <2>1
  <2> QED BY <1>1, <2>2, Zenon DEF RightAnswer, StoredContentOf
<1> QED BY <1>2, <1>3, <1>4, <1>5 DEF IInv

(* Each call gives such an answer.                                         *)
LEMMA CallKeepsIInv ==
  ASSUME IInv,
         \/ blar_archive_verify
         \/ blar_archive_entry_count
         \/ \E i \in DOMAIN archive.entries :
              \/ blar_archive_file_verify(i)
              \/ blar_archive_file_path(i)
              \/ blar_archive_file_content(i)
              \/ blar_archive_file_content_by_path(i)
              \/ blar_archive_entry_type(i)
              \/ Decompress(i)
  PROVE  IInv'
<1>1. AtMostOneFlip
  BY DEF IInv
<1>2. CASE blar_archive_verify
  <2>1. PICK r : r = Verdict(IsArray(Root) /\ verifyChecksum(Root))
    OBVIOUS
  <2>2. Answer("verify", 0, r)
    BY <1>2, <2>1, Zenon DEF blar_archive_verify
  <2>3. stored = written => RightAnswer("verify", 0, r)
    BY <1>1, <2>1, RightAnswers, Zenon
  <2> QED BY <1>1, <2>1, <2>2, <2>3, CallAnswered
<1>3. CASE blar_archive_entry_count
  <2>1. PICK k : k = entryCount
    OBVIOUS
  <2>2. Answer("entry_count", k, <<>>)
    BY <1>3, <2>1, Zenon DEF blar_archive_entry_count
  <2>3. stored = written => RightAnswer("entry_count", k, <<>>)
    BY <1>1, <2>1, RightAnswers, Zenon
  <2> QED BY <1>1, <2>2, <2>3, CallAnswered
<1>4. ASSUME NEW i \in DOMAIN archive.entries, blar_archive_file_verify(i)
      PROVE  IInv'
  <2>1. PICK r : r = Verdict(verifyFileAt(i))
    OBVIOUS
  <2>2. Answer("file_verify", i, r)
    BY <1>4, <2>1, Zenon DEF blar_archive_file_verify
  <2>3. stored = written => RightAnswer("file_verify", i, r)
    BY <1>1, <2>1, RightAnswers, Zenon
  <2> QED BY <1>1, <2>1, <2>2, <2>3, CallAnswered
<1>5. ASSUME NEW i \in DOMAIN archive.entries, blar_archive_file_path(i)
      PROVE  IInv'
  <2>1. PICK r : r = entryPathAt(i)
    OBVIOUS
  <2>2. Answer("file_path", i, r)
    BY <1>5, <2>1, Zenon DEF blar_archive_file_path
  <2>3. stored = written => RightAnswer("file_path", i, r)
    BY <1>1, <2>1, RightAnswers, Zenon
  <2> QED BY <1>1, <2>2, <2>3, CallAnswered
<1>6. ASSUME NEW i \in DOMAIN archive.entries, blar_archive_file_content(i)
      PROVE  IInv'
  <2>1. PICK r : r = fileContentAt(i)
    OBVIOUS
  <2>2. Answer("file_content", i, r)
    BY <1>6, <2>1, Zenon DEF blar_archive_file_content
  <2>3. stored = written => RightAnswer("file_content", i, r)
    BY <1>1, <2>1, RightAnswers, Zenon
  <2> QED BY <1>1, <2>2, <2>3, CallAnswered
<1>7. ASSUME NEW i \in DOMAIN archive.entries, blar_archive_file_content_by_path(i)
      PROVE  IInv'
  <2>1. PICK r : r = LET k == findFile(archive.entries[i].path)
                     IN  IF k = 0 THEN Failed ELSE fileContentAt(k)
    OBVIOUS
  <2>2. Answer("by_path", i, r)
    BY <1>7, <2>1, Zenon DEF blar_archive_file_content_by_path
  <2>3. stored = written => RightAnswer("by_path", i, r)
    BY <1>1, <2>1, RightAnswers, Zenon
  <2> QED BY <1>1, <2>2, <2>3, CallAnswered
<1>8. ASSUME NEW i \in DOMAIN archive.entries, blar_archive_entry_type(i)
      PROVE  IInv'
  <2>1. PICK r : r = Verdict(entryTypeAt(i) = (IF IsFile(archive.entries[i])
                                               THEN FileType ELSE DirType))
    OBVIOUS
  <2>2. Answer("entry_type", i, r)
    BY <1>8, <2>1, Zenon DEF blar_archive_entry_type
  <2>3. stored = written => RightAnswer("entry_type", i, r)
    BY <1>1, <2>1, RightAnswers, Zenon
  <2> QED BY <1>1, <2>2, <2>3, CallAnswered
<1>9. ASSUME NEW i \in DOMAIN archive.entries, Decompress(i)
      PROVE  IInv'
  <2>1. PICK r : r = fileContentDecompress(i)
    OBVIOUS
  <2>2. Answer("decompress", i, r)
    BY <1>9, <2>1, Zenon DEF Decompress
  <2>3. stored = written => RightAnswer("decompress", i, r)
    BY <1>1, <2>1, RightAnswers, Zenon
  <2> QED BY <1>1, <2>2, <2>3, CallAnswered
<1> QED BY <1>2, <1>3, <1>4, <1>5, <1>6, <1>7, <1>8, <1>9

(* Nothing happens.                                                        *)
LEMMA StutterKeepsIInv ==
  ASSUME IInv, UNCHANGED vars
  PROVE  IInv'
<1>1. UNCHANGED <<archive, written, stored>> /\ answer' = answer
  BY DEF vars
<1>2. AtMostOneFlip'
  BY <1>1, CallKeeps DEF IInv
<1>3. VerifiedIsAsWritten'
  BY <1>1 DEF IInv, VerifiedIsAsWritten
<1>4. VerdictStands'
  <2>1. PICK i : i = answer.index
    OBVIOUS
  <2>2. SUFFICES ASSUME answer.call = "file_verify", answer.result = Ok
                 PROVE  verifyFileAt(i)'
    BY <1>1, <2>1 DEF VerdictStands
  <2>3. verifyFileAt(i)
    BY <2>1, <2>2 DEF IInv, VerdictStands
  <2> QED BY <1>1, <2>3, VerdictStays
<1>5. UndamagedReadsBack'
  BY <1>1, Zenon DEF IInv, UndamagedReadsBack, StoredContentOf
<1> QED BY <1>2, <1>3, <1>4, <1>5 DEF IInv

(* The inductive invariant holds of every reachable state, for every       *)
(* archive.                                                                *)
THEOREM Invariant == Spec => []IInv
<1>1. ASSUME Init
      PROVE  IInv
  BY <1>1, FlipInit, NothingAsked DEF IInv, Init
<1>2. ASSUME IInv, [Next]_vars
      PROVE  IInv'
  <2>1. CASE BitFlip
    <3>1. AtMostOneFlip'
      BY <1>2, <2>1, FlipKeeps DEF IInv
    <3>2. (answer = NoAnswer)'
      BY <2>1 DEF BitFlip
    <3>3. (VerifiedIsAsWritten /\ VerdictStands /\ UndamagedReadsBack)'
      BY <3>2, NothingAsked, PTL
    <3> QED BY <3>1, <3>3 DEF IInv
  <2>2. CASE UNCHANGED vars
    BY <1>2, <2>2, StutterKeepsIInv
  <2>3. CASE \/ blar_archive_verify
             \/ blar_archive_entry_count
             \/ \E i \in DOMAIN archive.entries :
                  \/ blar_archive_file_verify(i)
                  \/ blar_archive_file_path(i)
                  \/ blar_archive_file_content(i)
                  \/ blar_archive_file_content_by_path(i)
                  \/ blar_archive_entry_type(i)
                  \/ Decompress(i)
    BY <1>2, <2>3, CallKeepsIInv
  <2> QED BY <1>2, <2>1, <2>2, <2>3, Zenon DEF Next
<1> QED BY <1>1, <1>2, PTL DEF Spec

(* What blar_archive_verify approves is, to the bit, what createArchive    *)
(* wrote, whatever was archived and whichever bit flipped.                 *)
THEOREM VerifiedArchiveIsAsWritten == Spec => []VerifiedIsAsWritten
<1>1. IInv => VerifiedIsAsWritten
  BY DEF IInv
<1> QED BY <1>1, Invariant, PTL

(* What blar_archive_file_verify approves was archived: path and content   *)
(* read at that index belong to one entry.                                 *)
THEOREM ApprovedEntryWasArchived == Spec => []VerifiedEntryWasArchived
<1>1. IInv => VerifiedEntryWasArchived
  BY ApprovedWasArchived DEF IInv
<1> QED BY <1>1, Invariant, PTL

(* fileContentDecompress never feeds damaged bytes to the decoder.         *)
THEOREM DecoderFedWrittenBytes == Spec => []DecoderSeesWrittenBytes
<1>1. IInv => DecoderSeesWrittenBytes
  BY DecoderFed DEF IInv
<1> QED BY <1>1, Invariant, PTL

(* An archive nobody damaged gives back, by index and by path, everything  *)
(* that was put into it: any number of entries, any paths and contents.    *)
THEOREM UndamagedArchiveReadsBack == Spec => []UndamagedReadsBack
<1>1. IInv => UndamagedReadsBack
  BY DEF IInv
<1> QED BY <1>1, Invariant, PTL

(* A flip within one entry leaves every other entry verifiable and         *)
(* readable at its index.                                                  *)
THEOREM OneFlipCostsOneEntry == Spec => []OtherEntriesUnharmed
<1>1. IInv => OtherEntriesUnharmed
  BY OthersUnharmed DEF IInv
<1> QED BY <1>1, Invariant, PTL
===============================================================================
